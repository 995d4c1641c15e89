------------------------------ MODULE HubProofs ------------------------------
(***************************************************************************)
(* The hub of a pane for any number of tabs and pollers, any size of       *)
(* channel and any number of drawings.  What the two theorems say of tabs  *)
(* and pollers is inductive with three facts beside it: a poller counts    *)
(* the tabs that hold it (so that none of them is collected), the pane of  *)
(* the map is read or has ended, and a tab on its way in has been sent     *)
(* nothing and, once it has read, shows what its pane said last, unless    *)
(* the pane has spoken since.                                              *)
(*                                                                         *)
(* Beside it, the session its panes are of (SessionLife), which shares no   *)
(* state with the hub's model.  What is kept of conversations is inductive *)
(* with a fact of the pane alone: what its CLI has reported is of a session *)
(* no older than its own.  What is offered back needs the history: while   *)
(* callers take turns, a call's step says what its session owes.           *)
(***************************************************************************)
EXTENDS Hub, SessionLife, Integers, FiniteSetTheorems, TLAPS

Newest(a) == IF a.queue = << >> THEN a.sees ELSE a.queue[Len(a.queue)]

Holders(p, views) == {v \in Viewer : views[v].pane = p}

\* One pane, among the tabs.
PaneOK(p, rec, views) ==
  /\ rec \in PaneState
  /\ rec.refs = Cardinality(Holders(p, views))
  /\ \A v \in rec.subs :
       /\ views[v].pane = p /\ views[v].at = "open"
       /\ views[v].missed \/ Newest(views[v]) = rec.last
  /\ \A v \in Viewer : Joining(views[v], p) => views[v].missed \/ Newest(views[v]) = rec.last
  /\ rec.last.ended => rec.ended
  /\ rec.refs > 0 /\ ~rec.ended => rec.running

\* One tab, among the panes.
ViewOK(a, panes) ==
  /\ a \in Attachment
  /\ Len(a.queue) <= Buffer
  /\ a.at \in {"away", "ensure"} <=> a.pane = None
  /\ a.pane # None => panes[a.pane] # None
  /\ a.at # "open" => a.queue = << >>
  /\ a.at \notin {"join", "open"} => ~a.missed
  /\ a.at = "apply" => a.got # None

\* The pane of the map.
KeyOK(k, panes) ==
  k # None => k \in PaneId /\ panes[k] # None /\ (panes[k].running \/ panes[k].ended)

HubOK(k, panes, views) ==
  /\ panes \in [PaneId -> PaneState \cup {None}]
  /\ views \in [Viewer -> Attachment]
  /\ \A p \in PaneId : panes[p] # None => PaneOK(p, panes[p], views)
  /\ \A v \in Viewer : ViewOK(views[v], panes)
  /\ KeyOK(k, panes)

RestOK ==
  /\ alive \in BOOLEAN /\ starts \in 0..MaxStarts /\ screen \in 0..MaxDraws
  /\ adopting \in BOOLEAN \cup {None}

IInv == HubOK(keyed, pane, viewer) /\ RestOK

----------------------------------------------------------------------------
(* Tabs and panes taken one at a time.                                      *)

\* The tabs that hold a pane are finitely many, and those counted are there.
LEMMA HoldersFinite ==
  ASSUME NEW p, NEW views
  PROVE  /\ IsFiniteSet(Holders(p, views))
         /\ Cardinality(Holders(p, views)) \in 0..Cardinality(Viewer)
         /\ Cardinality(Holders(p, views)) = 0 <=> Holders(p, views) = {}
<1>1. Holders(p, views) \subseteq Viewer
  BY DEF Holders
<1>2. IsFiniteSet(Viewer)
  BY HubAssumption
<1>3. /\ IsFiniteSet(Holders(p, views))
      /\ Cardinality(Holders(p, views)) <= Cardinality(Viewer)
  BY <1>1, <1>2, FS_Subset
<1>4. Cardinality(Holders(p, views)) \in Nat /\ Cardinality(Viewer) \in Nat
  BY <1>2, <1>3, FS_CardinalityType
<1>5. QED
  BY <1>3, <1>4, FS_EmptySet

\* Nobody holds a pane that is not there.
LEMMA NobodyHolds ==
  ASSUME NEW k, NEW panes, NEW views, HubOK(k, panes, views),
         NEW q \in PaneId, panes[q] = None
  PROVE  Holders(q, views) = {}
BY HubNone DEF HubOK, ViewOK, Holders

\* What is collected is missed by nobody.
LEMMA CollectKeeps ==
  ASSUME NEW k, NEW panes, NEW views, HubOK(k, panes, views)
  PROVE  HubOK(k, Collected(k, panes), views)
<1> DEFINE left == Collected(k, panes)
<1>1. \A p \in PaneId : \/ left[p] = panes[p]
                        \/ left[p] = None /\ panes[p] # None /\ p # k /\ panes[p].refs = 0
  BY DEF Collected
<1>2. left \in [PaneId -> PaneState \cup {None}]
  BY DEF Collected, HubOK
<1> HIDE DEF left
<1>3. \A p \in PaneId : left[p] # None => PaneOK(p, left[p], views)
  BY <1>1 DEF HubOK
<1>4. ASSUME NEW v \in Viewer
      PROVE  ViewOK(views[v], left)
  <2>1. ViewOK(views[v], panes)
    BY DEF HubOK
  <2>2. SUFFICES ASSUME views[v].pane # None
                 PROVE  left[views[v].pane] # None
    BY <2>1 DEF ViewOK
  <2>3. PICK p \in PaneId : p = views[v].pane
    BY <2>1, <2>2 DEF ViewOK, Attachment
  <2>4. panes[p] # None
    BY <2>1, <2>2, <2>3 DEF ViewOK
  <2>5. v \in Holders(p, views)
    BY <2>3 DEF Holders
  <2>6. panes[p].refs # 0
    BY <2>4, <2>5, HoldersFinite DEF HubOK, PaneOK
  <2>7. QED
    BY <1>1, <2>3, <2>4, <2>6
<1>5. KeyOK(k, left)
  BY <1>1 DEF KeyOK, HubOK
<1>6. HubOK(k, left, views)
  BY <1>2, <1>3, <1>4, <1>5 DEF HubOK
<1>7. QED
  BY <1>6 DEF left

\* A pane becomes another record that fits the same tabs.
LEMMA PaneChanges ==
  ASSUME NEW k, NEW panes, NEW views, HubOK(k, panes, views),
         NEW p \in PaneId, NEW rec, panes[p] # None, PaneOK(p, rec, views),
         p = k => rec.running \/ rec.ended
  PROVE  HubOK(k, [panes EXCEPT ![p] = rec], views)
<1> DEFINE new == [panes EXCEPT ![p] = rec]
<1>1. rec \in PaneState /\ rec # None
  BY HubNone DEF PaneOK
<1>2. /\ new \in [PaneId -> PaneState \cup {None}]
      /\ new[p] = rec
      /\ \A q \in PaneId : q # p => new[q] = panes[q]
  BY <1>1 DEF HubOK
<1> HIDE DEF new
<1>3. \A q \in PaneId : panes[q] # None => new[q] # None
  BY <1>1, <1>2
<1>4. \A v \in Viewer : ViewOK(views[v], new)
  BY <1>3, HubNone DEF HubOK, ViewOK, Attachment
<1>5. KeyOK(k, new)
  BY <1>1, <1>2 DEF HubOK, KeyOK
<1>6. HubOK(k, new, views)
  BY <1>2, <1>4, <1>5 DEF HubOK
<1>7. QED
  BY <1>6 DEF new

\* A tab goes on, holding what it held and in no pane's list.
LEMMA ViewChanges ==
  ASSUME NEW k, NEW panes, NEW views, HubOK(k, panes, views),
         NEW v \in Viewer, NEW a, ViewOK(a, panes), a.pane = views[v].pane,
         a.at = "join" => a.missed \/ Newest(a) = panes[a.pane].last,
         \A p \in PaneId : panes[p] # None => v \notin panes[p].subs
  PROVE  HubOK(k, panes, [views EXCEPT ![v] = a])
<1> DEFINE new == [views EXCEPT ![v] = a]
<1>1. a \in Attachment
  BY DEF ViewOK
<1>2. /\ new \in [Viewer -> Attachment]
      /\ new[v] = a
      /\ \A w \in Viewer : w # v => new[w] = views[w]
  BY <1>1 DEF HubOK
<1> HIDE DEF new
<1>3. \A p : Holders(p, new) = Holders(p, views)
  BY <1>2 DEF Holders
<1>4. ASSUME NEW p \in PaneId, panes[p] # None
      PROVE  PaneOK(p, panes[p], new)
  <2>1. PaneOK(p, panes[p], views) /\ panes[p].subs \subseteq Viewer /\ v \notin panes[p].subs
    BY <1>4 DEF HubOK, PaneOK, PaneState
  <2>2. \A w \in panes[p].subs : new[w] = views[w]
    BY <1>2, <2>1
  <2>3. \A w \in Viewer : Joining(new[w], p) => new[w].missed \/ Newest(new[w]) = panes[p].last
    BY <1>2, <2>1 DEF PaneOK, Joining
  <2>4. QED
    BY <1>3, <2>1, <2>2, <2>3 DEF PaneOK
<1>5. HubOK(k, panes, new)
  BY <1>2, <1>4 DEF HubOK
<1>6. QED
  BY <1>5 DEF new

\* A tab that is not open is in no pane's list.
LEMMA NotYetIn ==
  ASSUME NEW k, NEW panes, NEW views, HubOK(k, panes, views),
         NEW v \in Viewer, views[v].at # "open"
  PROVE  \A p \in PaneId : panes[p] # None => v \notin panes[p].subs
BY DEF HubOK, PaneOK

----------------------------------------------------------------------------
(* A reading: every tab that keeps up is told, and no other stays.          *)

LEMMA ReadingKeeps ==
  ASSUME NEW k, HubOK(k, pane, viewer), NEW p \in PaneId, pane[p] # None,
         NEW got \in Reading
  PROVE  /\ PaneOK(p, After(p, got), ToldAfter(p, got))
         /\ After(p, got).running = pane[p].running
         /\ pane[p].ended => After(p, got).ended
         /\ HubOK(k, [pane EXCEPT ![p] = After(p, got)], ToldAfter(p, got))
         /\ \A v \in Viewer :
              v \notin pane[p].subs /\ viewer[v].at # "join" => ToldAfter(p, got)[v] = viewer[v]
<1>1. /\ PaneOK(p, pane[p], viewer)
      /\ pane \in [PaneId -> PaneState \cup {None}]
      /\ viewer \in [Viewer -> Attachment]
      /\ \A v \in Viewer : ViewOK(viewer[v], pane)
      /\ \A q \in PaneId : pane[q] # None => PaneOK(q, pane[q], viewer)
      /\ KeyOK(k, pane)
  BY DEF HubOK
<1>2. CASE ~NewsIn(p, got)
  <2>1. After(p, got) = pane[p] /\ ToldAfter(p, got) = viewer
    BY <1>2 DEF After, ToldAfter
  <2>2. [pane EXCEPT ![p] = pane[p]] = pane
    BY <1>1
  <2>3. QED
    BY <1>1, <2>1, <2>2
<1>3. CASE NewsIn(p, got)
  <2>1. PICK old \in PaneState : old = pane[p]
    BY <1>1 DEF PaneOK
  <2>2. PICK f \in Frame : f = FrameOf(p, got)
    BY <2>1 DEF FrameOf, Frame, PaneState, Reading, Gone
  <2>3. f.ended => got = Gone
    BY <2>2 DEF FrameOf
  <2>4. KeepingUp(p) \subseteq old.subs /\ \A v \in KeepingUp(p) : Room(v)
    BY <2>1 DEF KeepingUp
  <2>5. PICK new \in PaneState :
          new = [old EXCEPT !.last = f, !.subs = KeepingUp(p), !.ended = @ \/ got = Gone]
    BY <2>1, <2>2, <2>4 DEF PaneState
  <2>6. new = After(p, got)
    BY <1>3, <2>1, <2>2, <2>5 DEF After
  <2>7. /\ new.last = f /\ new.subs = KeepingUp(p) /\ new.ended = (old.ended \/ got = Gone)
        /\ new.refs = old.refs /\ new.running = old.running
    BY <2>1, <2>5 DEF PaneState
  <2> DEFINE told == Broadcast(p, f)
  <2>8. told = ToldAfter(p, got)
    BY <1>3, <2>2 DEF ToldAfter
  <2>9. ASSUME NEW v \in Viewer
        PROVE  IF v \in old.subs /\ Room(v)
                 THEN /\ told[v] \in Attachment
                      /\ told[v].at = viewer[v].at /\ told[v].pane = viewer[v].pane
                      /\ told[v].got = viewer[v].got
                      /\ Newest(told[v]) = f /\ ~told[v].missed
                      /\ Len(told[v].queue) <= Buffer
                 ELSE \/ told[v] = viewer[v] /\ ~Joining(viewer[v], p)
                      \/ /\ Joining(viewer[v], p)
                         /\ told[v] \in Attachment /\ told[v].missed
                         /\ told[v].at = viewer[v].at /\ told[v].pane = viewer[v].pane
                         /\ told[v].got = viewer[v].got /\ told[v].queue = viewer[v].queue
    <3>1. CASE v \in old.subs /\ Room(v)
      <4>1. PICK a \in Attachment : a = viewer[v]
        BY <1>1
      <4>2. a.queue \in Seq(Frame)
        BY <4>1 DEF Attachment
      <4>3. /\ Append(a.queue, f) \in Seq(Frame)
            /\ Len(Append(a.queue, f)) = Len(a.queue) + 1
            /\ Append(a.queue, f)[Len(a.queue) + 1] = f
            /\ Len(a.queue) \in Nat
        BY <4>2
      <4>4. PICK b \in Attachment : b = [a EXCEPT !.queue = Append(a.queue, f), !.missed = FALSE]
        BY <4>1, <4>3 DEF Attachment
      <4>5. told[v] = b
        BY <2>1, <3>1, <4>1, <4>4 DEF Broadcast
      <4>6. /\ b.queue = Append(a.queue, f) /\ b.at = a.at /\ b.pane = a.pane
            /\ b.got = a.got /\ ~b.missed
        BY <4>1, <4>4 DEF Attachment
      <4>7. Append(a.queue, f) # << >>
        BY <4>3
      <4>8. Newest(b) = f
        BY <4>3, <4>6, <4>7 DEF Newest
      <4>9. Len(b.queue) <= Buffer
        BY <3>1, <4>1, <4>3, <4>6, HubAssumption DEF Room
      <4>10. QED
        BY <3>1, <4>1, <4>5, <4>6, <4>8, <4>9
    <3>2. CASE ~(v \in old.subs /\ Room(v)) /\ Joining(viewer[v], p)
      <4>1. PICK a \in Attachment : a = viewer[v]
        BY <1>1
      <4>2. PICK yes \in BOOLEAN : yes = TRUE
        OBVIOUS
      <4>3. PICK b \in Attachment : b = [a EXCEPT !.missed = yes]
        BY <4>1 DEF Attachment
      <4>4. told[v] = b
        BY <2>1, <3>2, <4>1, <4>2, <4>3 DEF Broadcast
      <4>5. /\ b.queue = a.queue /\ b.at = a.at /\ b.pane = a.pane
            /\ b.got = a.got /\ b.missed = yes
        BY <4>1, <4>3 DEF Attachment
      <4>6. QED
        BY <3>2, <4>1, <4>2, <4>4, <4>5
    <3>3. CASE ~(v \in old.subs /\ Room(v)) /\ ~Joining(viewer[v], p)
      BY <2>1, <3>3 DEF Broadcast
    <3>4. QED
      BY <3>1, <3>2, <3>3
  <2>10. told \in [Viewer -> Attachment]
    <3>1. \A v \in Viewer : told[v] \in Attachment
      BY <1>1, <2>9
    <3>2. QED
      BY <3>1 DEF Broadcast
  <2> HIDE DEF told
  <2>11. \A q : Holders(q, told) = Holders(q, viewer)
    BY <2>9 DEF Holders
  <2>12. old.subs \subseteq Viewer
    BY DEF PaneState
  <2>13. PaneOK(p, new, told)
    <3>1. \A v \in new.subs :
            told[v].pane = p /\ told[v].at = "open" /\ Newest(told[v]) = new.last
      BY <1>1, <2>1, <2>4, <2>7, <2>9, <2>12 DEF PaneOK
    <3>2. \A v \in Viewer : Joining(told[v], p) => told[v].missed
      BY <1>1, <2>1, <2>9, <2>12 DEF PaneOK, Joining
    <3>3. new.refs = Cardinality(Holders(p, told))
      BY <1>1, <2>1, <2>7, <2>11 DEF PaneOK
    <3>4. new.last.ended => new.ended
      BY <2>3, <2>7
    <3>5. new.refs > 0 /\ ~new.ended => new.running
      BY <1>1, <2>1, <2>7 DEF PaneOK
    <3>6. QED
      BY <3>1, <3>3, <3>4, <3>5, <3>2 DEF PaneOK
  <2>14. ASSUME NEW q \in PaneId, pane[q] # None, q # p
         PROVE  PaneOK(q, pane[q], told)
    <3>1. PaneOK(q, pane[q], viewer)
      BY <1>1, <2>14
    <3>2. \A v \in pane[q].subs : v \in Viewer /\ v \notin old.subs
      BY <1>1, <2>1, <2>14, <3>1 DEF PaneOK, PaneState
    <3>3. \A v \in pane[q].subs : told[v] = viewer[v]
      BY <2>9, <2>14, <3>1, <3>2 DEF PaneOK, Joining
    <3>4. \A v \in Viewer : Joining(told[v], q) => told[v] = viewer[v]
      BY <1>1, <2>1, <2>9, <2>14 DEF PaneOK, Joining
    <3>5. QED
      BY <2>11, <3>1, <3>3, <3>4 DEF PaneOK
  <2>15. \A v \in Viewer : ViewOK(told[v], pane)
    <3>1. \A v \in old.subs : viewer[v].at = "open"
      BY <1>1, <2>1 DEF PaneOK
    <3>2. QED
      BY <1>1, <2>9, <3>1 DEF ViewOK, Joining
  <2>16. HubOK(k, [pane EXCEPT ![p] = new], told)
    <3> DEFINE panes == [pane EXCEPT ![p] = new]
    <3>1. /\ panes \in [PaneId -> PaneState \cup {None}]
          /\ panes[p] = new /\ new # None
          /\ \A q \in PaneId : q # p => panes[q] = pane[q]
      BY <1>1, HubNone
    <3> HIDE DEF panes
    <3>2. \A q \in PaneId : panes[q] # None => PaneOK(q, panes[q], told)
      BY <2>13, <2>14, <3>1
    <3>3. \A v \in Viewer : ViewOK(told[v], panes)
      BY <2>15, <3>1, HubNone DEF ViewOK, Attachment
    <3>4. KeyOK(k, panes)
      BY <1>1, <2>1, <2>7, <3>1 DEF KeyOK
    <3>5. HubOK(k, panes, told)
      BY <2>10, <3>1, <3>2, <3>3, <3>4 DEF HubOK
    <3>6. QED
      BY <3>5 DEF panes
  <2>17. \A v \in Viewer : v \notin pane[p].subs /\ viewer[v].at # "join" => told[v] = viewer[v]
    BY <2>1, <2>9 DEF Joining
  <2>18. QED
    BY <2>1, <2>6, <2>7, <2>8, <2>13, <2>16, <2>17
<1>4. QED
  BY <1>2, <1>3

----------------------------------------------------------------------------
(* The pane of the map is found or begun.                                   *)

LEMMA EnsuredFact ==
  ASSUME HubOK(keyed, pane, viewer), NEW q \in PaneId, Ensured(q)
  PROVE  /\ PaneOK(q, EnsuredState(q), viewer)
         /\ EnsuredState(q).running \/ EnsuredState(q).ended
         /\ keyed # None /\ keyed # q => pane[keyed] # None /\ pane[keyed].ended
<1>1. CASE KeyedLives
  <2>1. q = keyed /\ EnsuredState(q) = pane[q] /\ keyed # None
    BY <1>1 DEF Ensured, EnsuredState, KeyedLives
  <2>2. QED
    BY <2>1 DEF HubOK, KeyOK
<1>2. CASE ~KeyedLives
  <2>1. pane[q] = None
    BY <1>2 DEF Ensured, Exists
  <2>2. keyed # None => pane[keyed] # None /\ pane[keyed].ended
    BY <1>2 DEF KeyedLives, HubOK, KeyOK
  <2>3. keyed # q
    BY <2>1, <2>2, HubNone
  <2>4. EnsuredState(q) = NewPane
    BY <2>3 DEF EnsuredState
  <2>5. Cardinality(Holders(q, viewer)) = 0 /\ Cardinality(Viewer) \in Nat
    BY <2>1, NobodyHolds, HoldersFinite, HubAssumption, FS_CardinalityType
  <2>6. Blank \in Frame
    BY HubAssumption DEF Blank, Frame
  <2>7. NewPane \in PaneState
    BY <2>5, <2>6 DEF NewPane, PaneState
  <2>8. /\ NewPane.refs = 0 /\ NewPane.subs = {} /\ NewPane.running
        /\ NewPane.last.ended = FALSE
    BY DEF NewPane, Blank
  <2>9. \A v \in Viewer : ~Joining(viewer[v], q)
    BY <2>1, NobodyHolds DEF Holders, Joining
  <2>10. PaneOK(q, NewPane, viewer)
    BY <2>5, <2>7, <2>8, <2>9 DEF PaneOK
  <2>11. QED
    BY <2>2, <2>4, <2>8, <2>10
<1>3. QED
  BY <1>1, <1>2

LEMMA EnsureKeeps ==
  ASSUME HubOK(keyed, pane, viewer), NEW q \in PaneId, Ensured(q),
         NEW views \in [Viewer -> Attachment], NEW rec,
         PaneOK(q, rec, views), rec.running \/ rec.ended,
         \A p \in PaneId : p # q => Holders(p, views) = Holders(p, viewer),
         \A v \in Viewer : views[v] # viewer[v] =>
           /\ ViewOK(views[v], [pane EXCEPT ![q] = rec])
           /\ viewer[v].at # "open" /\ views[v].at # "join"
  PROVE  HubOK(q, PanesWith(q, rec), views)
<1>1. /\ pane \in [PaneId -> PaneState \cup {None}]
      /\ \A p \in PaneId : pane[p] # None => PaneOK(p, pane[p], viewer)
      /\ \A v \in Viewer : ViewOK(viewer[v], pane)
      /\ KeyOK(keyed, pane)
  BY DEF HubOK
<1>2. keyed # None /\ keyed # q => pane[keyed] # None /\ pane[keyed].ended
  BY EnsuredFact
<1>3. rec \in PaneState /\ rec # None
  BY HubNone DEF PaneOK
<1> DEFINE new == [p \in PaneId |-> CASE p = q -> rec
                                      [] p # q /\ p = keyed -> Shut(p)
                                      [] OTHER -> pane[p]]
<1>4. /\ DOMAIN new = PaneId /\ new[q] = rec
      /\ \A p \in PaneId : p # q => new[p] = IF p = keyed THEN Shut(p) ELSE pane[p]
      /\ new = [p \in PaneId |-> new[p]]
  OBVIOUS
<1>5. Collected(q, new) = PanesWith(q, rec)
  BY DEF PanesWith
<1> HIDE DEF new
<1>6. ASSUME NEW p \in PaneId, p # q, p = keyed
      PROVE  /\ new[p] \in PaneState /\ new[p] # None
             /\ PaneOK(p, new[p], views)
  <2>1. PICK old \in PaneState : old = pane[p]
    BY <1>1, <1>2, <1>6, HubNone DEF PaneOK
  <2>2. old.ended /\ old.refs = Cardinality(Holders(p, views))
    BY <1>1, <1>2, <1>6, <2>1, HubNone DEF PaneOK
  <2>3. PICK s \in PaneState : s = [old EXCEPT !.running = FALSE, !.subs = {}]
    BY <2>1 DEF PaneState
  <2>4. /\ s.subs = {} /\ s.ended = old.ended /\ s.refs = old.refs
        /\ s.last = old.last
    BY <2>1, <2>3 DEF PaneState
  <2>5. new[p] = s
    BY <1>4, <1>6, <2>1, <2>3 DEF Shut
  <2>6. s # None
    BY HubNone
  <2>7. \A v \in Viewer : Joining(views[v], p) => views[v] = viewer[v]
    BY DEF Joining
  <2>8. PaneOK(p, s, views)
    BY <1>1, <1>2, <1>6, <2>1, <2>2, <2>4, <2>7, HubNone DEF PaneOK
  <2>9. QED
    BY <2>5, <2>6, <2>8
<1>7. ASSUME NEW p \in PaneId, p # q, p # keyed, pane[p] # None
      PROVE  PaneOK(p, pane[p], views)
  <2>1. PaneOK(p, pane[p], viewer)
    BY <1>1, <1>7
  <2>2. \A v \in pane[p].subs : v \in Viewer /\ viewer[v].at = "open"
    BY <2>1 DEF PaneOK, PaneState
  <2>3. \A v \in pane[p].subs : views[v] = viewer[v]
    BY <2>2
  <2>4. \A v \in Viewer : Joining(views[v], p) => views[v] = viewer[v]
    BY DEF Joining
  <2>5. QED
    BY <1>7, <2>1, <2>3, <2>4 DEF PaneOK
<1>8. new \in [PaneId -> PaneState \cup {None}]
  <2>1. \A p \in PaneId : new[p] \in PaneState \cup {None}
    BY <1>1, <1>3, <1>4, <1>6
  <2>2. QED
    BY <1>4, <2>1
<1>9. \A p \in PaneId : new[p] # None => PaneOK(p, new[p], views)
  BY <1>4, <1>6, <1>7
<1>10. \A v \in Viewer : ViewOK(views[v], new)
  <2> SUFFICES ASSUME NEW v \in Viewer
               PROVE  ViewOK(views[v], new)
    OBVIOUS
  <2>1. \A p \in PaneId : pane[p] # None => new[p] # None
    BY <1>3, <1>4, <1>6
  <2>2. \A p \in PaneId : [pane EXCEPT ![q] = rec][p] # None => new[p] # None
    BY <1>1, <1>3, <1>4, <1>6
  <2>3. views[v].pane \in PaneId \cup {None}
    BY DEF Attachment
  <2>4. CASE views[v] = viewer[v]
    BY <1>1, <2>1, <2>3, <2>4 DEF ViewOK
  <2>5. CASE views[v] # viewer[v]
    BY <2>2, <2>3, <2>5 DEF ViewOK
  <2>6. QED
    BY <2>4, <2>5
<1>11. KeyOK(q, new)
  BY <1>3, <1>4 DEF KeyOK
<1>12. HubOK(q, new, views)
  BY <1>8, <1>9, <1>10, <1>11 DEF HubOK
<1>13. QED
  BY <1>5, <1>12, CollectKeeps

----------------------------------------------------------------------------
(* The steps of a tab.                                                      *)

LEMMA AsksKeeps ==
  ASSUME IInv, NEW v \in Viewer, WatchAsks(v)
  PROVE  IInv'
<1>1. HubOK(keyed, pane, viewer) /\ RestOK
  BY DEF IInv
<1>2. PICK a \in Attachment : a = viewer[v]
  BY <1>1 DEF HubOK
<1>3. PICK b \in Attachment : b = [a EXCEPT !.at = "ensure"]
  BY <1>2 DEF Attachment, Stage
<1>4. viewer' = [viewer EXCEPT ![v] = b]
  BY <1>1, <1>2, <1>3 DEF WatchAsks, HubOK
<1>5. ViewOK(a, pane) /\ a.at = "away"
  BY <1>1, <1>2 DEF WatchAsks, HubOK
<1>6. /\ b.at = "ensure" /\ b.pane = a.pane /\ b.queue = a.queue /\ b.missed = a.missed
  BY <1>2, <1>3 DEF Attachment
<1>7. ViewOK(b, pane)
  BY <1>5, <1>6 DEF ViewOK
<1>8. HubOK(keyed, pane, viewer')
  BY <1>1, <1>2, <1>4, <1>5, <1>6, <1>7, NotYetIn, ViewChanges
<1>9. QED
  BY <1>1, <1>8 DEF IInv, RestOK, WatchAsks

LEMMA HoldsKeeps ==
  ASSUME IInv, NEW v \in Viewer, WatchHolds(v)
  PROVE  IInv'
<1>1. HubOK(keyed, pane, viewer) /\ RestOK
  BY DEF IInv
<1>2. PICK q \in PaneId :
        /\ Ensured(q)
        /\ keyed' = q
        /\ pane' = PanesWith(q, [EnsuredState(q) EXCEPT !.refs = @ + 1, !.armed = FALSE])
        /\ viewer' = [viewer EXCEPT ![v].at = "capture", ![v].pane = q]
  BY DEF WatchHolds
<1>3. PICK a \in Attachment : a = viewer[v]
  BY <1>1 DEF HubOK
<1>4. PICK b \in Attachment : b = [a EXCEPT !.at = "capture", !.pane = q]
  BY <1>3 DEF Attachment, Stage
<1>5. viewer' = [viewer EXCEPT ![v] = b]
  BY <1>1, <1>2, <1>3, <1>4 DEF HubOK
<1>6. /\ viewer' \in [Viewer -> Attachment] /\ viewer'[v] = b
      /\ \A w \in Viewer : w # v => viewer'[w] = viewer[w]
  BY <1>1, <1>5 DEF HubOK
<1>7. ViewOK(a, pane) /\ a.at = "ensure" /\ a.pane = None
  BY <1>1, <1>3 DEF WatchHolds, HubOK, ViewOK
<1>8. /\ b.at = "capture" /\ b.pane = q /\ b.queue = a.queue /\ b.missed = a.missed
  BY <1>3, <1>4 DEF Attachment
<1>9. q # None
  BY HubNone
<1>10. \A p \in PaneId : p # q => Holders(p, viewer') = Holders(p, viewer)
  BY <1>3, <1>6, <1>7, <1>8, HubNone DEF Holders
<1>11. Holders(q, viewer') = Holders(q, viewer) \cup {v} /\ v \notin Holders(q, viewer)
  BY <1>3, <1>6, <1>7, <1>8, <1>9 DEF Holders
<1>12. /\ PaneOK(q, EnsuredState(q), viewer)
       /\ EnsuredState(q).running \/ EnsuredState(q).ended
  BY <1>1, <1>2, EnsuredFact
<1>13. PICK old \in PaneState : old = EnsuredState(q)
  BY <1>12 DEF PaneOK
<1>14. /\ old.refs + 1 = Cardinality(Holders(q, viewer'))
       /\ old.refs + 1 \in 0..Cardinality(Viewer)
  <2>1. old.refs = Cardinality(Holders(q, viewer)) /\ IsFiniteSet(Holders(q, viewer))
    BY <1>12, <1>13, HoldersFinite DEF PaneOK
  <2>2. Cardinality(Holders(q, viewer')) = old.refs + 1
    BY <1>11, <2>1, FS_AddElement
  <2>3. QED
    BY <2>2, HoldersFinite
<1>15. PICK rec \in PaneState : rec = [old EXCEPT !.refs = @ + 1, !.armed = FALSE]
  BY <1>13, <1>14 DEF PaneState
<1>16. /\ rec.refs = old.refs + 1 /\ rec.subs = old.subs /\ rec.last = old.last
       /\ rec.ended = old.ended /\ rec.running = old.running
  BY <1>13, <1>15 DEF PaneState
<1>17. PaneOK(q, rec, viewer')
  <2>1. \A w \in old.subs : w \in Viewer /\ viewer[w].at = "open"
    BY <1>12, <1>13 DEF PaneOK, PaneState
  <2>2. \A w \in old.subs : viewer'[w] = viewer[w]
    BY <1>3, <1>6, <1>7, <2>1
  <2>3. \A w \in Viewer : Joining(viewer'[w], q) => viewer'[w] = viewer[w]
    BY <1>6, <1>8 DEF Joining
  <2>4. QED
    BY <1>12, <1>13, <1>14, <1>16, <2>2, <2>3 DEF PaneOK
<1>18. ViewOK(b, [pane EXCEPT ![q] = rec])
  <2>1. [pane EXCEPT ![q] = rec][q] # None
    BY <1>1, HubNone DEF HubOK
  <2>2. QED
    BY <1>7, <1>8, <1>9, <2>1 DEF ViewOK
<1>19. HubOK(q, PanesWith(q, rec), viewer')
  BY <1>1, <1>2, <1>3, <1>6, <1>7, <1>8, <1>10, <1>12, <1>13, <1>16, <1>17, <1>18, EnsureKeeps
<1>20. HubOK(keyed', pane', viewer')
  BY <1>2, <1>13, <1>15, <1>19
<1>21. QED
  BY <1>1, <1>20 DEF IInv, RestOK, WatchHolds

\* A reading comes to something there is.
LEMMA ReadIsReading ==
  ASSUME RestOK
  PROVE  Read \in Reading
BY HubAssumption DEF RestOK, Read, Reading, Gone

LEMMA CapturesKeeps ==
  ASSUME IInv, NEW v \in Viewer, WatchCaptures(v)
  PROVE  IInv'
<1>1. HubOK(keyed, pane, viewer) /\ RestOK
  BY DEF IInv
<1>2. PICK a \in Attachment : a = viewer[v]
  BY <1>1 DEF HubOK
<1>3. Read \in Reading /\ Read # None
  BY <1>1, ReadIsReading, HubNone
<1>4. PICK b \in Attachment : b = [a EXCEPT !.at = "apply", !.got = Read]
  BY <1>2, <1>3 DEF Attachment, Stage
<1>5. viewer' = [viewer EXCEPT ![v] = b]
  BY <1>1, <1>2, <1>4 DEF WatchCaptures, HubOK
<1>6. ViewOK(a, pane) /\ a.at = "capture"
  BY <1>1, <1>2 DEF WatchCaptures, HubOK
<1>7. /\ b.at = "apply" /\ b.pane = a.pane /\ b.queue = a.queue /\ b.missed = a.missed
      /\ b.got = Read
  BY <1>2, <1>4 DEF Attachment
<1>8. ViewOK(b, pane)
  BY <1>3, <1>6, <1>7 DEF ViewOK
<1>9. HubOK(keyed, pane, viewer')
  BY <1>1, <1>2, <1>5, <1>6, <1>7, <1>8, NotYetIn, ViewChanges
<1>10. QED
  BY <1>1, <1>9 DEF IInv, RestOK, WatchCaptures

LEMMA AppliesKeeps ==
  ASSUME IInv, NEW v \in Viewer, WatchApplies(v)
  PROVE  IInv'
<1>1. HubOK(keyed, pane, viewer) /\ RestOK
  BY DEF IInv
<1>2. PICK a \in Attachment : a = viewer[v]
  BY <1>1 DEF HubOK
<1>3. ViewOK(a, pane) /\ a.at = "apply"
  BY <1>1, <1>2 DEF WatchApplies, HubOK
<1>4. PICK p \in PaneId : p = a.pane /\ pane[p] # None
  BY <1>2, <1>3 DEF ViewOK, Attachment
<1>5. PICK got \in Reading : got = a.got
  BY <1>2, <1>3 DEF ViewOK, Attachment
<1> DEFINE new  == [pane EXCEPT ![p] = After(p, got)]
           told == ToldAfter(p, got)
<1>6. HubOK(keyed, new, told) /\ PaneOK(p, After(p, got), told)
  BY <1>1, <1>4, ReadingKeeps
<1>7. told[v] = a
  <2>1. v \notin pane[p].subs
    BY <1>1, <1>2, <1>3, <1>4, NotYetIn
  <2>2. QED
    BY <1>1, <1>2, <1>3, <1>4, <2>1, ReadingKeeps
<1>8. After(p, got).last \in Frame
  BY <1>6 DEF PaneOK, PaneState
<1>9. PICK b \in Attachment :
        b = [a EXCEPT !.at = "join", !.got = None, !.sees = After(p, got).last]
  BY <1>2, <1>8 DEF Attachment, Stage
<1>10. pane' = new /\ viewer' = [told EXCEPT ![v] = b]
  <2>1. viewer' = [told EXCEPT ![v].at = "join", ![v].got = None,
                               ![v].sees = After(p, got).last]
    BY <1>2, <1>4, <1>5 DEF WatchApplies
  <2>2. told \in [Viewer -> Attachment]
    BY <1>6 DEF HubOK
  <2> HIDE DEF told
  <2>3. viewer' = [told EXCEPT ![v] = b]
    BY <1>7, <1>9, <2>1, <2>2
  <2>4. QED
    BY <1>2, <1>4, <1>5, <2>3 DEF WatchApplies
<1> HIDE DEF new, told
<1>11. ViewOK(a, new)
  BY <1>6, <1>7 DEF HubOK
<1>12. /\ b.at = "join" /\ b.pane = a.pane /\ b.queue = a.queue /\ b.missed = a.missed
       /\ b.sees = After(p, got).last
  BY <1>2, <1>9 DEF Attachment
<1>13. ViewOK(b, new)
  BY <1>3, <1>11, <1>12 DEF ViewOK
<1>14. new[p] = After(p, got)
  BY <1>1 DEF new, HubOK
<1>15. Newest(b) = new[b.pane].last
  BY <1>3, <1>4, <1>12, <1>14 DEF Newest, ViewOK
<1>16. HubOK(keyed, new, viewer')
  BY <1>3, <1>6, <1>7, <1>10, <1>12, <1>13, <1>15, NotYetIn, ViewChanges
<1>17. QED
  BY <1>1, <1>10, <1>16 DEF IInv, RestOK, WatchApplies

LEMMA FailsKeeps ==
  ASSUME IInv, NEW v \in Viewer, WatchFails(v)
  PROVE  IInv'
<1>1. HubOK(keyed, pane, viewer) /\ RestOK
  BY DEF IInv
<1>2. PICK a \in Attachment : a = viewer[v]
  BY <1>1 DEF HubOK
<1>3. ViewOK(a, pane) /\ a.at = "capture"
  BY <1>1, <1>2 DEF WatchFails, HubOK
<1>4. PICK p \in PaneId : p = a.pane /\ pane[p] # None
  BY <1>2, <1>3 DEF ViewOK, Attachment
<1>5. pane[p].last \in Frame
  BY <1>1, <1>4 DEF HubOK, PaneOK, PaneState
<1>6. PICK b \in Attachment : b = [a EXCEPT !.at = "join", !.sees = pane[p].last]
  BY <1>2, <1>5 DEF Attachment, Stage
<1>7. viewer' = [viewer EXCEPT ![v] = b]
  BY <1>1, <1>2, <1>4, <1>6 DEF WatchFails, HubOK
<1>8. /\ b.at = "join" /\ b.pane = a.pane /\ b.queue = a.queue /\ b.missed = a.missed
      /\ b.sees = pane[p].last
  BY <1>2, <1>6 DEF Attachment
<1>9. ViewOK(b, pane)
  BY <1>3, <1>8 DEF ViewOK
<1>10. Newest(b) = pane[b.pane].last
  BY <1>3, <1>4, <1>8 DEF Newest, ViewOK
<1>11. HubOK(keyed, pane, viewer')
  BY <1>1, <1>2, <1>3, <1>7, <1>8, <1>9, <1>10, NotYetIn, ViewChanges
<1>12. QED
  BY <1>1, <1>11 DEF IInv, RestOK, WatchFails

LEMMA JoinsKeeps ==
  ASSUME IInv, NEW v \in Viewer, WatchJoins(v)
  PROVE  IInv'
<1>1. HubOK(keyed, pane, viewer) /\ RestOK
  BY DEF IInv
<1>2. PICK a \in Attachment : a = viewer[v]
  BY <1>1 DEF HubOK
<1>3. ViewOK(a, pane) /\ a.at = "join"
  BY <1>1, <1>2 DEF WatchJoins, HubOK
<1>4. PICK p \in PaneId : p = a.pane /\ pane[p] # None
  BY <1>2, <1>3 DEF ViewOK, Attachment
<1>5. PICK b \in Attachment : b = [a EXCEPT !.at = "open"]
  BY <1>2 DEF Attachment, Stage
<1>6. viewer' = [viewer EXCEPT ![v] = b]
  BY <1>1, <1>2, <1>5 DEF WatchJoins, HubOK
<1>7. /\ b.at = "open" /\ b.pane = a.pane /\ b.queue = a.queue /\ b.missed = a.missed
      /\ b.sees = a.sees
  BY <1>2, <1>5 DEF Attachment
<1>8. b.missed \/ Newest(b) = pane[p].last
  BY <1>1, <1>2, <1>3, <1>4, <1>7 DEF HubOK, PaneOK, Joining, Newest
<1>9. ViewOK(b, pane)
  BY <1>3, <1>7 DEF ViewOK
<1>10. HubOK(keyed, pane, viewer')
  BY <1>1, <1>2, <1>3, <1>6, <1>7, <1>9, NotYetIn, ViewChanges
<1>11. viewer'[v] = b
  BY <1>1, <1>6 DEF HubOK
<1>12. PICK old \in PaneState : old = pane[p] /\ PaneOK(p, old, viewer')
  BY <1>4, <1>10 DEF HubOK, PaneOK
<1>13. PICK rec \in PaneState : rec = [old EXCEPT !.subs = @ \cup {v}]
  BY <1>12 DEF PaneState
<1>14. /\ rec.subs = old.subs \cup {v} /\ rec.last = old.last /\ rec.refs = old.refs
       /\ rec.ended = old.ended /\ rec.running = old.running
  BY <1>12, <1>13 DEF PaneState
<1>15. PaneOK(p, rec, viewer')
  BY <1>4, <1>7, <1>11, <1>12, <1>14, <1>8 DEF PaneOK
<1>16. pane' = [pane EXCEPT ![p] = rec]
  BY <1>1, <1>2, <1>4, <1>12, <1>13 DEF WatchJoins, HubOK
<1>17. p = keyed => rec.running \/ rec.ended
  BY <1>1, <1>4, <1>12, <1>14, HubNone DEF HubOK, KeyOK
<1>18. HubOK(keyed, pane', viewer')
  BY <1>4, <1>10, <1>15, <1>16, <1>17, PaneChanges
<1>19. QED
  BY <1>1, <1>18 DEF IInv, RestOK, WatchJoins

LEMMA SendsKeeps ==
  ASSUME IInv, NEW v \in Viewer, Sends(v)
  PROVE  IInv'
<1>1. HubOK(keyed, pane, viewer) /\ RestOK
  BY DEF IInv
<1>2. PICK a \in Attachment : a = viewer[v]
  BY <1>1 DEF HubOK
<1>3. ViewOK(a, pane) /\ a.at = "open" /\ a.queue # << >>
  BY <1>1, <1>2 DEF Sends, HubOK
<1>4. a.queue \in Seq(Frame)
  BY <1>2 DEF Attachment
<1>5. /\ Head(a.queue) \in Frame /\ Head(a.queue) = a.queue[1]
      /\ Tail(a.queue) \in Seq(Frame) /\ Len(Tail(a.queue)) = Len(a.queue) - 1
      /\ Len(a.queue) \in Nat \ {0}
  BY <1>3, <1>4
<1>6. Tail(a.queue) # << >> => Tail(a.queue)[Len(a.queue) - 1] = a.queue[Len(a.queue)]
  BY <1>3, <1>4, <1>5
<1>7. Tail(a.queue) = << >> => Len(a.queue) = 1
  <2>1. Len(<< >>) = 0
    OBVIOUS
  <2>2. Tail(a.queue) = << >> => Len(a.queue) - 1 = 0
    BY <1>5, <2>1
  <2>3. QED
    BY <1>5, <2>2
<1>8. PICK b \in Attachment : b = [a EXCEPT !.sees = Head(a.queue), !.queue = Tail(a.queue)]
  BY <1>2, <1>5 DEF Attachment
<1>9. /\ b.at = "open" /\ b.pane = a.pane /\ b.queue = Tail(a.queue) /\ b.missed = a.missed
      /\ b.sees = Head(a.queue)
  BY <1>2, <1>3, <1>8 DEF Attachment
<1>10. Newest(b) = Newest(a)
  BY <1>3, <1>5, <1>6, <1>7, <1>9 DEF Newest
<1>11. Len(b.queue) <= Buffer
  BY <1>3, <1>5, <1>9, HubAssumption DEF ViewOK
<1>12. ViewOK(b, pane)
  BY <1>3, <1>9, <1>11 DEF ViewOK
<1>13. viewer' = [viewer EXCEPT ![v] = b]
  BY <1>1, <1>2, <1>8 DEF Sends, HubOK
<1>14. /\ viewer' \in [Viewer -> Attachment] /\ viewer'[v] = b
       /\ \A w \in Viewer : w # v => viewer'[w] = viewer[w]
  BY <1>1, <1>13 DEF HubOK
<1>15. ASSUME NEW p \in PaneId, pane[p] # None
       PROVE  PaneOK(p, pane[p], viewer')
  <2>1. PaneOK(p, pane[p], viewer) /\ pane[p].subs \subseteq Viewer
    BY <1>1, <1>15 DEF HubOK, PaneOK, PaneState
  <2>2. Holders(p, viewer') = Holders(p, viewer)
    BY <1>2, <1>9, <1>14 DEF Holders
  <2>3. \A w \in pane[p].subs :
          /\ viewer'[w].pane = viewer[w].pane /\ viewer'[w].at = viewer[w].at
          /\ viewer'[w].missed = viewer[w].missed /\ Newest(viewer'[w]) = Newest(viewer[w])
    BY <1>2, <1>3, <1>9, <1>10, <1>14, <2>1
  <2>4. \A w \in Viewer : Joining(viewer'[w], p) => viewer'[w] = viewer[w]
    BY <1>9, <1>14 DEF Joining
  <2>5. QED
    BY <2>1, <2>2, <2>3, <2>4 DEF PaneOK
<1>16. HubOK(keyed, pane, viewer')
  BY <1>1, <1>12, <1>14, <1>15 DEF HubOK
<1>17. QED
  BY <1>1, <1>16 DEF IInv, RestOK, Sends

\* A tab that goes lets go of its pane and of nothing else.
LEMMA ClosesKeeps ==
  ASSUME IInv, NEW v \in Viewer, viewer[v].at = "open", Closes(v)
  PROVE  IInv'
<1>1. HubOK(keyed, pane, viewer) /\ RestOK
  BY DEF IInv
<1>2. PICK a \in Attachment : a = viewer[v]
  BY <1>1 DEF HubOK
<1>3. ViewOK(a, pane) /\ a.at = "open"
  BY <1>1, <1>2 DEF HubOK
<1>4. PICK p \in PaneId : p = a.pane /\ pane[p] # None
  BY <1>2, <1>3 DEF ViewOK, Attachment
<1>5. Away \in Attachment /\ Away.at = "away" /\ Away.pane = None /\ Away.queue = << >>
      /\ Away.missed = FALSE
  <2>1. Blank \in Frame
    BY HubAssumption DEF Blank, Frame
  <2>2. << >> \in Seq(Frame)
    OBVIOUS
  <2>3. QED
    BY <2>1, <2>2 DEF Away, Attachment, Stage
<1>6. ViewOK(Away, pane)
  BY <1>5, HubAssumption DEF ViewOK
<1>7. viewer' = [viewer EXCEPT ![v] = Away]
  BY DEF Closes
<1>8. /\ viewer' \in [Viewer -> Attachment] /\ viewer'[v] = Away
      /\ \A w \in Viewer : w # v => viewer'[w] = viewer[w]
  BY <1>1, <1>5, <1>7 DEF HubOK
<1>9. PaneOK(p, pane[p], viewer)
  BY <1>1, <1>4 DEF HubOK
<1>10. PICK old \in PaneState : old = pane[p]
  BY <1>9 DEF PaneOK
<1>11. /\ Holders(p, viewer') = Holders(p, viewer) \ {v} /\ v \in Holders(p, viewer)
       /\ \A q \in PaneId : q # p => Holders(q, viewer') = Holders(q, viewer)
  BY <1>2, <1>4, <1>5, <1>8, HubNone DEF Holders
<1>12. /\ old.refs - 1 = Cardinality(Holders(p, viewer'))
       /\ old.refs - 1 \in 0..Cardinality(Viewer)
  <2>1. old.refs = Cardinality(Holders(p, viewer)) /\ IsFiniteSet(Holders(p, viewer))
    BY <1>9, <1>10, HoldersFinite DEF PaneOK
  <2>2. Cardinality(Holders(p, viewer')) = old.refs - 1
    BY <1>11, <2>1, FS_RemoveElement
  <2>3. QED
    BY <2>2, HoldersFinite
<1>13. PICK rec \in PaneState : rec = Left(old, v)
  <2>1. (old.armed \/ (old.refs = 1 /\ ~old.pinned)) \in BOOLEAN
    BY <1>10 DEF PaneState
  <2>2. old.subs \ {v} \in SUBSET Viewer
    BY <1>10 DEF PaneState
  <2>3. Left(old, v) \in PaneState
    BY <1>10, <1>12, <2>1, <2>2 DEF Left, PaneState
  <2>4. QED
    BY <2>3
<1>14. /\ rec.subs = old.subs \ {v} /\ rec.refs = old.refs - 1 /\ rec.last = old.last
       /\ rec.ended = old.ended /\ rec.running = old.running
  BY <1>10, <1>13 DEF Left, PaneState
<1> DEFINE new == [pane EXCEPT ![p] = rec]
<1>15. pane' = Collected(keyed, new)
  <2>1. [pane EXCEPT ![p] = Left(@, v)] = new
    BY <1>1, <1>10, <1>13 DEF HubOK
  <2>2. QED
    BY <1>2, <1>4, <2>1 DEF Closes
<1>16. /\ new \in [PaneId -> PaneState \cup {None}] /\ new[p] = rec
       /\ \A q \in PaneId : q # p => new[q] = pane[q]
  BY <1>1 DEF HubOK
<1> HIDE DEF new
<1>17. PaneOK(p, rec, viewer')
  <2>1. \A w \in rec.subs : w \in old.subs /\ w # v /\ w \in Viewer
    BY <1>10, <1>14 DEF PaneState
  <2>2. \A w \in rec.subs : viewer'[w] = viewer[w]
    BY <1>8, <2>1
  <2>3. rec.refs > 0 => old.refs > 0
    BY <1>10, <1>14 DEF PaneState
  <2>4. \A w \in Viewer : Joining(viewer'[w], p) => viewer'[w] = viewer[w]
    BY <1>5, <1>8 DEF Joining
  <2>5. QED
    BY <1>9, <1>10, <1>12, <1>14, <2>1, <2>2, <2>3, <2>4 DEF PaneOK
<1>18. ASSUME NEW q \in PaneId, q # p, pane[q] # None
       PROVE  PaneOK(q, pane[q], viewer')
  <2>1. PaneOK(q, pane[q], viewer) /\ pane[q].subs \subseteq Viewer
    BY <1>1, <1>18 DEF HubOK, PaneOK, PaneState
  <2>2. v \notin pane[q].subs
    BY <1>2, <1>4, <1>18, <2>1 DEF PaneOK
  <2>3. \A w \in pane[q].subs : viewer'[w] = viewer[w]
    BY <1>8, <2>1, <2>2
  <2>4. \A w \in Viewer : Joining(viewer'[w], q) => viewer'[w] = viewer[w]
    BY <1>5, <1>8 DEF Joining
  <2>5. QED
    BY <1>11, <1>18, <2>1, <2>3, <2>4 DEF PaneOK
<1>19. \A q \in PaneId : new[q] # None => PaneOK(q, new[q], viewer')
  BY <1>16, <1>17, <1>18
<1>20. rec # None
  BY HubNone
<1>21. ASSUME NEW w \in Viewer
       PROVE  ViewOK(viewer'[w], new)
  <2>1. \A q \in PaneId : pane[q] # None => new[q] # None
    BY <1>16, <1>20
  <2>2. ViewOK(viewer'[w], pane)
    BY <1>1, <1>6, <1>8 DEF HubOK
  <2>3. viewer'[w].pane \in PaneId \cup {None}
    BY <2>2 DEF ViewOK, Attachment
  <2>4. QED
    BY <2>1, <2>2, <2>3 DEF ViewOK
<1>22. KeyOK(keyed, new)
  BY <1>1, <1>10, <1>14, <1>16, <1>20 DEF HubOK, KeyOK
<1>23. HubOK(keyed, new, viewer')
  BY <1>8, <1>16, <1>19, <1>21, <1>22 DEF HubOK
<1>24. HubOK(keyed, pane', viewer')
  BY <1>15, <1>23, CollectKeeps
<1>25. QED
  BY <1>1, <1>24 DEF IInv, RestOK, Closes

----------------------------------------------------------------------------
(* The steps of the poller, the timer and the tick.                         *)

LEMMA PollsKeeps ==
  ASSUME IInv, NEW p \in PaneId, Polls(p)
  PROVE  IInv'
<1>1. HubOK(keyed, pane, viewer) /\ RestOK /\ pane[p] # None
  BY DEF IInv, Polls, Exists
<1>2. PICK got \in Reading : got = Read
  BY <1>1, ReadIsReading
<1>3. /\ PaneOK(p, After(p, got), ToldAfter(p, got))
      /\ HubOK(keyed, [pane EXCEPT ![p] = After(p, got)], ToldAfter(p, got))
  BY <1>1, ReadingKeeps
<1>4. PICK old \in PaneState : old = After(p, got)
  BY <1>3 DEF PaneOK
<1>5. PICK rec \in PaneState : rec = [old EXCEPT !.running = ~old.last.ended]
  BY <1>4 DEF PaneState, Frame
<1>6. /\ rec.subs = old.subs /\ rec.refs = old.refs /\ rec.last = old.last
      /\ rec.ended = old.ended /\ rec.running = ~old.last.ended
  BY <1>4, <1>5 DEF PaneState
<1>7. old.last.ended => old.ended
  BY <1>3, <1>4 DEF PaneOK
<1>8. PaneOK(p, rec, ToldAfter(p, got))
  BY <1>3, <1>4, <1>6, <1>7 DEF PaneOK
<1> DEFINE mid == [pane EXCEPT ![p] = old]
<1>9. /\ mid[p] # None
      /\ [mid EXCEPT ![p] = rec] = [pane EXCEPT ![p] = rec]
  BY <1>1, HubNone DEF HubOK
<1>10. HubOK(keyed, mid, ToldAfter(p, got))
  BY <1>3, <1>4
<1> HIDE DEF mid
<1>11. HubOK(keyed, [mid EXCEPT ![p] = rec], ToldAfter(p, got))
  BY <1>6, <1>7, <1>8, <1>9, <1>10, PaneChanges
<1>12. HubOK(keyed, Collected(keyed, [pane EXCEPT ![p] = rec]), ToldAfter(p, got))
  BY <1>9, <1>11, CollectKeeps
<1>13. /\ pane' = Collected(keyed, [pane EXCEPT ![p] = rec])
       /\ viewer' = ToldAfter(p, got)
  BY <1>2, <1>4, <1>5 DEF Polls
<1>14. HubOK(keyed, pane', viewer')
  BY <1>12, <1>13
<1>15. QED
  BY <1>1, <1>14 DEF IInv, RestOK, Polls

\* A poller that nobody holds may be shut, and the map emptied.
LEMMA ShutKeeps ==
  ASSUME HubOK(keyed, pane, viewer), NEW p \in PaneId, pane[p] # None, pane[p].refs = 0,
         NEW rec \in PaneState, rec.refs = 0, rec.subs = {}, rec.last = pane[p].last,
         rec.ended = pane[p].ended
  PROVE  HubOK(None, Collected(None, [pane EXCEPT ![p] = rec]), viewer)
<1>1. HubOK(None, pane, viewer)
  BY DEF HubOK, KeyOK
<1>2. PaneOK(p, rec, viewer)
  BY DEF HubOK, PaneOK
<1>3. HubOK(None, [pane EXCEPT ![p] = rec], viewer)
  BY <1>1, <1>2, PaneChanges, HubNone
<1>4. QED
  BY <1>3, CollectKeeps

LEMMA LingerKeeps ==
  ASSUME IInv, NEW p \in PaneId, LingerRuns(p)
  PROVE  IInv'
<1>1. HubOK(keyed, pane, viewer) /\ RestOK /\ pane[p] # None
  BY DEF IInv, LingerRuns, Exists
<1>2. PaneOK(p, pane[p], viewer)
  BY <1>1 DEF HubOK
<1>3. PICK old \in PaneState : old = pane[p]
  BY <1>2 DEF PaneOK
<1>4. CASE Unneeded(pane[p])
  <2>1. PICK rec \in PaneState : rec = [Shut(p) EXCEPT !.armed = FALSE]
    BY <1>3 DEF Shut, PaneState
  <2>2. /\ rec.refs = old.refs /\ rec.subs = {} /\ rec.last = old.last
        /\ rec.ended = old.ended
    BY <1>3, <2>1 DEF Shut, PaneState
  <2>3. old.refs = 0
    BY <1>3, <1>4 DEF Unneeded
  <2>4. keyed' = None /\ pane' = Collected(None, [pane EXCEPT ![p] = rec]) /\ viewer' = viewer
    BY <1>4, <2>1 DEF LingerRuns
  <2>5. HubOK(None, Collected(None, [pane EXCEPT ![p] = rec]), viewer)
    BY <1>1, <1>3, <2>2, <2>3, ShutKeeps
  <2>6. HubOK(keyed', pane', viewer')
    BY <2>4, <2>5
  <2>7. QED
    BY <1>1, <2>6 DEF IInv, RestOK, LingerRuns
<1>5. CASE ~Unneeded(pane[p])
  <2>1. PICK rec \in PaneState : rec = [old EXCEPT !.armed = FALSE]
    BY <1>3 DEF PaneState
  <2>2. /\ rec.refs = old.refs /\ rec.subs = old.subs /\ rec.last = old.last
        /\ rec.ended = old.ended /\ rec.running = old.running
    BY <1>3, <2>1 DEF PaneState
  <2>3. PaneOK(p, rec, viewer)
    BY <1>2, <1>3, <2>2 DEF PaneOK
  <2>4. p = keyed => rec.running \/ rec.ended
    BY <1>1, <1>3, <2>2, HubNone DEF HubOK, KeyOK
  <2>5. HubOK(keyed, [pane EXCEPT ![p] = rec], viewer)
    BY <1>1, <2>3, <2>4, PaneChanges
  <2>6. keyed' = keyed /\ pane' = Collected(keyed, [pane EXCEPT ![p] = rec]) /\ viewer' = viewer
    BY <1>1, <1>3, <1>5, <2>1 DEF LingerRuns, HubOK
  <2>7. HubOK(keyed', pane', viewer')
    BY <2>5, <2>6, CollectKeeps
  <2>8. QED
    BY <1>1, <2>7 DEF IInv, RestOK, LingerRuns
<1>6. QED
  BY <1>4, <1>5

LEMMA AdoptEnsuresKeeps ==
  ASSUME IInv, AdoptEnsures
  PROVE  IInv'
<1>1. HubOK(keyed, pane, viewer) /\ RestOK
  BY DEF IInv
<1>2. PICK q \in PaneId :
        /\ Ensured(q)
        /\ keyed' = q
        /\ pane' = PanesWith(q, [EnsuredState(q) EXCEPT !.pinned = TRUE])
  BY DEF AdoptEnsures
<1>3. /\ PaneOK(q, EnsuredState(q), viewer)
      /\ EnsuredState(q).running \/ EnsuredState(q).ended
  BY <1>1, <1>2, EnsuredFact
<1>4. PICK old \in PaneState : old = EnsuredState(q)
  BY <1>3 DEF PaneOK
<1>5. PICK rec \in PaneState : rec = [old EXCEPT !.pinned = TRUE]
  BY <1>4 DEF PaneState
<1>6. /\ rec.refs = old.refs /\ rec.subs = old.subs /\ rec.last = old.last
      /\ rec.ended = old.ended /\ rec.running = old.running
  BY <1>4, <1>5 DEF PaneState
<1>7. PaneOK(q, rec, viewer)
  BY <1>3, <1>4, <1>6 DEF PaneOK
<1>8. viewer \in [Viewer -> Attachment]
  BY <1>1 DEF HubOK
<1>9. HubOK(q, PanesWith(q, rec), viewer)
  BY <1>1, <1>2, <1>3, <1>4, <1>6, <1>7, <1>8, EnsureKeeps
<1>10. HubOK(keyed', pane', viewer')
  BY <1>2, <1>4, <1>5, <1>9 DEF AdoptEnsures
<1>11. QED
  BY <1>1, <1>10 DEF IInv, RestOK, AdoptEnsures

LEMMA AdoptDropsKeeps ==
  ASSUME IInv, AdoptDrops
  PROVE  IInv'
<1>1. HubOK(keyed, pane, viewer) /\ RestOK
  BY DEF IInv
<1>2. CASE keyed # None /\ Unheld(pane[keyed])
  <2>1. keyed \in PaneId /\ pane[keyed] # None
    BY <1>1, <1>2 DEF HubOK, KeyOK
  <2>2. PICK old \in PaneState : old = pane[keyed]
    BY <1>1, <2>1 DEF HubOK, PaneOK
  <2>3. PICK rec \in PaneState : rec = Shut(keyed)
    BY <2>2 DEF Shut, PaneState
  <2>4. /\ rec.refs = old.refs /\ rec.subs = {} /\ rec.last = old.last
        /\ rec.ended = old.ended
    BY <2>2, <2>3 DEF Shut, PaneState
  <2>5. old.refs = 0
    BY <1>2, <2>2 DEF Unheld
  <2>6. HubOK(None, Collected(None, [pane EXCEPT ![keyed] = rec]), viewer)
    BY <1>1, <2>1, <2>2, <2>4, <2>5, ShutKeeps
  <2>7. HubOK(keyed', pane', viewer')
    BY <1>2, <2>3, <2>6 DEF AdoptDrops
  <2>8. QED
    BY <1>1, <2>7 DEF IInv, RestOK, AdoptDrops
<1>3. CASE ~(keyed # None /\ Unheld(pane[keyed]))
  <2>1. HubOK(keyed', pane', viewer')
    BY <1>1, <1>3 DEF AdoptDrops
  <2>2. QED
    BY <1>1, <2>1 DEF IInv, RestOK, AdoptDrops
<1>4. QED
  BY <1>2, <1>3

\* A hub nobody has asked anything of.
LEMMA EmptyHub ==
  HubOK(None, [p \in PaneId |-> None], [v \in Viewer |-> Away])
<1>1. Blank \in Frame /\ << >> \in Seq(Frame)
  BY HubAssumption DEF Blank, Frame
<1>2. Away \in Attachment /\ Away.at = "away" /\ Away.pane = None /\ Away.queue = << >>
      /\ Away.missed = FALSE
  BY <1>1 DEF Away, Attachment, Stage
<1>3. \A panes : ViewOK(Away, panes)
  BY <1>2, HubAssumption DEF ViewOK
<1> DEFINE panes == [p \in PaneId |-> None]
           views == [v \in Viewer |-> Away]
<1>4. /\ panes \in [PaneId -> PaneState \cup {None}] /\ views \in [Viewer -> Attachment]
      /\ \A p \in PaneId : panes[p] = None
      /\ \A v \in Viewer : views[v] = Away
  BY <1>2
<1> HIDE DEF panes, views
<1>5. HubOK(None, panes, views)
  BY <1>3, <1>4 DEF HubOK, KeyOK
<1>6. QED
  BY <1>5 DEF panes, views

LEMMA IInvInit == Init => IInv
<1>1. Init => HubOK(keyed, pane, viewer)
  BY EmptyHub DEF Init
<1>2. Init => RestOK
  <2>1. Init => starts \in 0..MaxStarts /\ screen \in 0..MaxDraws
    BY HubAssumption, SMT DEF Init
  <2>2. Init => alive \in BOOLEAN /\ adopting \in BOOLEAN \cup {None}
    BY Zenon DEF Init
  <2>3. QED
    BY <2>1, <2>2 DEF RestOK
<1>3. QED
  BY <1>1, <1>2 DEF IInv

LEMMA IInvStep == IInv /\ [Next]_vars => IInv'
<1> SUFFICES ASSUME IInv, [Next]_vars PROVE IInv'
  OBVIOUS
<1>1. CASE UNCHANGED vars
  BY <1>1 DEF IInv, vars, RestOK
<1>2. CASE SessionStarts \/ Draws \/ SessionEnds \/ AdoptLists
  <2>1. keyed' = keyed /\ pane' = pane /\ viewer' = viewer
    BY <1>2 DEF SessionStarts, Draws, SessionEnds, AdoptLists
  <2>2. starts' \in 0..MaxStarts /\ screen' \in 0..MaxDraws
    BY <1>2, HubAssumption, SMT
       DEF IInv, RestOK, SessionStarts, Draws, SessionEnds, AdoptLists
  <2>3. alive' \in BOOLEAN /\ adopting' \in BOOLEAN \cup {None}
    BY <1>2, Zenon DEF IInv, RestOK, SessionStarts, Draws, SessionEnds, AdoptLists
  <2>4. QED
    BY <2>1, <2>2, <2>3 DEF IInv, RestOK
<1>3. CASE \E v \in Viewer : WatchAsks(v) \/ WatchOn(v) \/ Sends(v)
  BY <1>3, AsksKeeps, HoldsKeeps, CapturesKeeps, AppliesKeeps, FailsKeeps, JoinsKeeps, SendsKeeps
     DEF WatchOn
<1>4. CASE \E v \in Viewer : TellsEnd(v) \/ Drained(v) \/ Leaves(v)
  BY <1>4, ClosesKeeps DEF TellsEnd, Drained, Leaves
<1>5. CASE \E p \in PaneId : Polls(p) \/ LingerRuns(p)
  BY <1>5, PollsKeeps, LingerKeeps
<1>6. CASE AdoptEnsures \/ AdoptDrops
  BY <1>6, AdoptEnsuresKeeps, AdoptDropsKeeps
<1>7. CASE ServerRestarts
  <2>1. HubOK(keyed', pane', viewer')
    BY <1>7, EmptyHub DEF ServerRestarts
  <2>2. RestOK'
    BY <1>7 DEF IInv, RestOK, ServerRestarts
  <2>3. QED
    BY <2>1, <2>2 DEF IInv
<1>8. QED
  BY <1>1, <1>2, <1>3, <1>4, <1>5, <1>6, <1>7 DEF Next, Socket, Adopts

LEMMA IInvAlways == Spec => []IInv
BY IInvInit, IInvStep, PTL DEF Spec

----------------------------------------------------------------------------
(* The theorems.                                                            *)

\* Panes, tabs and counts stay of their kinds: no counter goes below nothing,
\* and no channel over its size.
THEOREM TypeCorrect == Spec => []TypeOK
<1>1. IInv => TypeOK
  <2> SUFFICES ASSUME IInv PROVE TypeOK
    OBVIOUS
  <2>1. HubOK(keyed, pane, viewer) /\ RestOK
    BY DEF IInv
  <2>2. keyed \in PaneId \cup {None}
    BY <2>1 DEF HubOK, KeyOK
  <2>3. ASSUME NEW p \in PaneId, pane[p] # None
        PROVE  /\ pane[p] \in PaneState
               /\ pane[p].refs = Cardinality({v \in Viewer : viewer[v].pane = p})
               /\ \A v \in pane[p].subs : viewer[v].pane = p /\ viewer[v].at = "open"
    BY <2>1, <2>3 DEF HubOK, PaneOK, Holders
  <2>4. \A v \in Viewer : viewer[v] \in Attachment /\ Len(viewer[v].queue) <= Buffer
    BY <2>1 DEF HubOK, ViewOK
  <2>5. QED
    BY <2>1, <2>2, <2>3, <2>4 DEF TypeOK, RestOK, Holds, Exists
<1>2. QED
  BY IInvAlways, <1>1, PTL

\* No tab is quietly behind its pane, however many there are and however slow
\* their links (broadcast closes the channel that is full), but for one that joined
\* after its pane had spoken again, until it speaks once more.
THEOREM TabsKeepUp == Spec => []KeepsUp
<1>1. IInv => KeepsUp
  <2> SUFFICES ASSUME IInv, NEW p \in PaneId, pane[p] # None, NEW v \in pane[p].subs,
                      ~viewer[v].missed
               PROVE  Latest(v) = pane[p].last
    BY DEF KeepsUp, Exists
  <2>1. Newest(viewer[v]) = pane[p].last
    BY DEF IInv, HubOK, PaneOK
  <2>2. QED
    BY <2>1 DEF Latest, Newest
<1>2. QED
  BY IInvAlways, <1>1, PTL

\* A pane somebody holds is read until its session ends, whichever of linger,
\* adoption and a new session's poller comes between (Close, adopt,
\* ensureLocked).
THEOREM ReadWhileHeld == Spec => []HeldPaneIsPolled
<1>1. IInv => HeldPaneIsPolled
  BY DEF IInv, HubOK, PaneOK, HeldPaneIsPolled, Exists
<1>2. QED
  BY IInvAlways, <1>1, PTL
----------------------------------------------------------------------------
(* What a page offers back, and the conversations.                          *)

\* All of the state but the history of turns.
LifeStateOK ==
  /\ tmux \in Pane \cup {Nothing}
  /\ row \in Remembered \cup {Nothing}
  /\ frame \in Glimpse \cup {Nothing}
  /\ job \in [Caller -> Doing \cup {Nothing}]
  /\ \A h \in Caller : Idle(h) \/ StepOK(h, job[h])
  /\ begun \in 0..MaxSessions /\ written \subseteq Started
  /\ present \in BOOLEAN

\* The CLI, people and the poller leave the callers alone.
LEMMA LifeOutsideTyped ==
  ASSUME LifeTypeOK, UNCHANGED <<job, begun>>,
         \/ \E reports \in BOOLEAN : CliStarted(reports)
         \/ TurnBegins
         \/ \E turned \in BOOLEAN : BusyEnds(turned)
         \/ Types
         \/ Announces
         \/ Dies
         \/ ComesOrGoes
         \/ Poll
         \/ PollEnds
         \/ Adopt
         \/ Dwell
  PROVE  LifeStateOK'
<1> USE LifeAssumption, LifeNone
<1>1. job' \in [Caller -> Doing \cup {Nothing}] /\ \A h \in Caller : (Idle(h) \/ StepOK(h, job[h]))'
  BY DEF LifeTypeOK, Idle, StepOK
<1>2. ASSUME NEW reports \in BOOLEAN, CliStarted(reports)
      PROVE  LifeStateOK'
  <2>1. tmux' \in Pane \cup {Nothing}
    BY <1>2 DEF CliStarted, LifeTypeOK, Pane, Showing
  <2>2. row' \in Remembered \cup {Nothing}
    BY <1>2 DEF CliStarted, LifeTypeOK, Pane, Remembered, Noted, Target
  <2>3. QED
    BY <1>1, <1>2, <2>1, <2>2 DEF CliStarted, LifeTypeOK, LifeStateOK
<1>3. CASE TurnBegins
  <2>1. tmux' \in Pane \cup {Nothing} /\ written' \subseteq Started
    BY <1>3 DEF TurnBegins, LifeTypeOK, Pane, Showing
  <2>2. QED
    BY <1>1, <1>3, <2>1 DEF TurnBegins, LifeTypeOK, LifeStateOK
<1>4. ASSUME NEW turned \in BOOLEAN, BusyEnds(turned)
      PROVE  LifeStateOK'
  <2>1. tmux' \in Pane \cup {Nothing}
    BY <1>4 DEF BusyEnds, LifeTypeOK, Pane, Showing
  <2>2. QED
    BY <1>1, <1>4, <2>1 DEF BusyEnds, LifeTypeOK, LifeStateOK
<1>5. CASE Types
  <2>1. tmux' \in Pane \cup {Nothing}
    BY <1>5 DEF Types, LifeTypeOK, Pane, Showing
  <2>2. QED
    BY <1>1, <1>5, <2>1 DEF Types, LifeTypeOK, LifeStateOK
<1>6. CASE Announces
  <2>1. tmux' \in Pane \cup {Nothing}
    BY <1>6 DEF Announces, LifeTypeOK, Pane, Showing
  <2>2. QED
    BY <1>1, <1>6, <2>1 DEF Announces, LifeTypeOK, LifeStateOK
<1>7. CASE Dies \/ ComesOrGoes
  BY <1>1, <1>7 DEF Dies, ComesOrGoes, LifeTypeOK, LifeStateOK
<1>8. CASE Poll
  <2>1. tmux' \in Pane \cup {Nothing}
    BY <1>8 DEF Poll, LifeTypeOK, Pane, Showing
  <2>2. frame' \in Glimpse \cup {Nothing}
    BY <1>8 DEF Poll, LifeTypeOK, Pane, Showing, Glimpse, StillAfterRead
  <2>3. QED
    BY <1>1, <1>8, <2>1, <2>2 DEF Poll, LifeTypeOK, LifeStateOK
<1>9. CASE PollEnds \/ Adopt \/ Dwell
  <2>1. frame' \in Glimpse \cup {Nothing}
    BY <1>9 DEF PollEnds, Adopt, Dwell, LifeTypeOK, Glimpse
  <2>2. QED
    BY <1>1, <1>9, <2>1 DEF PollEnds, Adopt, Dwell, LifeTypeOK, LifeStateOK
<1>10. QED
  BY <1>2, <1>3, <1>4, <1>5, <1>6, <1>7, <1>8, <1>9

\* A caller that rests, goes to a step of its call or begins one.
LEMMA LifeCallerTyped ==
  ASSUME LifeTypeOK, NEW h \in Caller, NEW j,
         j = Nothing \/ (j \in Doing /\ StepOK(h, j)'),
         job' = [job EXCEPT ![h] = j], begun' \in 0..MaxSessions, begun <= begun'
  PROVE  /\ job' \in [Caller -> Doing \cup {Nothing}]
         /\ \A g \in Caller : (Idle(g) \/ StepOK(g, job[g]))'
<1> USE LifeAssumption, LifeNone
<1>1. job' \in [Caller -> Doing \cup {Nothing}]
  BY DEF LifeTypeOK
<1>2. ASSUME NEW g \in Caller
      PROVE  (Idle(g) \/ StepOK(g, job[g]))'
  <2>1. CASE g = h
    BY <2>1 DEF LifeTypeOK, Idle
  <2>2. CASE g # h
    <3>1. job'[g] = job[g] /\ (Idle(g) \/ StepOK(g, job[g]))
      BY <2>2 DEF LifeTypeOK
    <3>2. CASE job[g] = Nothing
      BY <3>1, <3>2 DEF Idle
    <3>3. CASE job[g] # Nothing
      <4>1. job[g] \in Doing
        BY <3>3 DEF LifeTypeOK
      <4>2. StepOK(g, job[g])
        BY <3>1, <3>3 DEF Idle
      <4>3. StepOK(g, job[g])'
        BY <3>1, <4>1, <4>2 DEF StepOK, Doing, LifeTypeOK
      <4>4. QED
        BY <4>3
    <3>4. QED
      BY <3>2, <3>3
  <2>3. QED
    BY <2>1, <2>2
<1>3. QED
  BY <1>1, <1>2

\* A caller at a step of its call.
LEMMA LifeAtStep ==
  ASSUME LifeTypeOK, NEW h \in Caller, ~Idle(h)
  PROVE  job[h] \in Doing /\ StepOK(h, job[h])
BY DEF LifeTypeOK, Idle

LEMMA LifeRestTyped ==
  ASSUME LifeTypeOK, NEW h \in Caller, Rest(h), begun' = begun
  PROVE  /\ job' \in [Caller -> Doing \cup {Nothing}]
         /\ \A g \in Caller : (Idle(g) \/ StepOK(g, job[g]))'
<1>1. begun' \in 0..MaxSessions /\ begun <= begun'
  BY LifeAssumption DEF LifeTypeOK
<1>2. PICK j : j = Nothing
  OBVIOUS
<1>3. job' = [job EXCEPT ![h] = j]
  BY <1>2 DEF Rest
<1>4. j = Nothing \/ (j \in Doing /\ StepOK(h, j)')
  BY <1>2
<1>5. QED
  BY <1>1, <1>3, <1>4, LifeCallerTyped

LEMMA LifeGoesTyped ==
  ASSUME LifeTypeOK, NEW h \in Caller, ~Idle(h), NEW step \in Steps[job[h].op],
         Goes(h, step), begun' = begun,
         step \in {"mark", "settle", "remember"} => job[h].at \in {"mark", "settle", "remember"}
  PROVE  /\ job' \in [Caller -> Doing \cup {Nothing}]
         /\ \A g \in Caller : (Idle(g) \/ StepOK(g, job[g]))'
<1>1. begun' \in 0..MaxSessions /\ begun <= begun'
  BY LifeAssumption DEF LifeTypeOK
<1>2. PICK now \in Doing : now = job[h]
  BY LifeAtStep
<1>3. PICK j : j = [now EXCEPT !.at = step]
  OBVIOUS
<1>4. job' = [job EXCEPT ![h] = j]
  BY <1>2, <1>3 DEF Goes, LifeTypeOK
<1>5. now.op \in {"start", "again", "stop", "sweep", "recall"} /\ StepOK(h, now)
  BY <1>2, LifeAtStep DEF Doing
<1>6. step \in {"alive", "new", "mark", "settle", "remember", "kill", "forget"}
  BY <1>2, <1>5 DEF Steps
<1>7. j \in Doing /\ j.op = now.op /\ j.at = step /\ j.n = now.n
  BY <1>2, <1>3, <1>6 DEF Doing
<1>8. StepOK(h, j)'
  BY <1>2, <1>5, <1>7 DEF StepOK
<1>9. QED
  BY <1>1, <1>4, <1>7, <1>8, LifeCallerTyped

LEMMA LifeAsksTyped ==
  ASSUME LifeTypeOK, NEW h \in Caller, NEW op \in DOMAIN Steps, NEW cmd \in Target,
         Asks(h, op, cmd), begun' = begun,
         h = Sweeper <=> op \in {"again", "sweep", "recall"}
  PROVE  /\ job' \in [Caller -> Doing \cup {Nothing}]
         /\ \A g \in Caller : (Idle(g) \/ StepOK(g, job[g]))'
<1>1. begun' \in 0..MaxSessions /\ begun <= begun'
  BY LifeAssumption DEF LifeTypeOK
<1>2. PICK j : j = [op |-> op, at |-> "alive", cmd |-> cmd, n |-> Nothing, took |-> Nothing]
  OBVIOUS
<1>3. j \in Doing
  BY <1>2 DEF Doing, Steps, Target
<1>4. StepOK(h, j)'
  BY <1>2 DEF StepOK, Steps
<1>5. QED
  BY <1>1, <1>2, <1>3, <1>4, LifeCallerTyped DEF Asks

LEMMA ResumedTyped ==
  ASSUME LifeTypeOK, row # Nothing
  PROVE  Resumed(row) \in Target
BY DEF LifeTypeOK, Resumed, Remembered, Target

\* A call takes one of its steps.
LEMMA LifeCarryTyped ==
  ASSUME LifeTypeOK, NEW h \in Caller, Carry(h)
  PROVE  LifeStateOK'
<1> USE LifeAssumption, LifeNone
<1>1. CASE StartLooks(h)
  <2>1. ~Idle(h) /\ job[h].op \in {"start", "again"} /\ begun' = begun
    BY <1>1 DEF StartLooks
  <2>2. "new" \in Steps[job[h].op]
    BY <2>1 DEF Steps
  <2>3. (\A g \in Caller : (Idle(g) \/ StepOK(g, job[g]))') /\ job' \in [Caller -> Doing \cup {Nothing}]
    BY <1>1, <2>1, <2>2, LifeGoesTyped, LifeRestTyped DEF StartLooks
  <2>4. QED
    BY <1>1, <2>3 DEF StartLooks, LifeTypeOK, LifeStateOK
<1>2. CASE NewSession(h)
  <2>1. ~Idle(h) /\ job[h].at = "new"
    BY <1>2 DEF NewSession
  <2>2. PICK now \in Doing : now = job[h] /\ StepOK(h, now)
    BY <2>1, LifeAtStep
  <2>3. PICK n \in 1..MaxSessions : n = begun + 1
    BY <1>2 DEF NewSession, LifeTypeOK
  <2>4. PICK j : j = [now EXCEPT !.at = "mark", !.n = n]
    OBVIOUS
  <2>5. job' = [job EXCEPT ![h] = j]
    BY <1>2, <2>2, <2>3, <2>4 DEF NewSession, LifeTypeOK
  <2>6. j \in Doing /\ j.op = now.op /\ j.at = "mark" /\ j.n = n
    BY <2>2, <2>3, <2>4 DEF Doing, Target, Started
  <2>7. now.op \in {"start", "again"}
    BY <2>1, <2>2 DEF StepOK, Steps, Doing
  <2>8. begun' = n
    BY <1>2, <2>3 DEF NewSession
  <2>9. StepOK(h, j)'
    BY <2>2, <2>6, <2>7, <2>8, <2>3 DEF StepOK, Steps
  <2>10. (\A g \in Caller : (Idle(g) \/ StepOK(g, job[g]))') /\ job' \in [Caller -> Doing \cup {Nothing}]
    <3>1. begun' \in 0..MaxSessions /\ begun <= begun'
      BY <2>3, <2>8 DEF LifeTypeOK
    <3>2. QED
      BY <2>5, <2>6, <2>9, <3>1, LifeCallerTyped
  <2>11. tmux' \in Pane
    <3>1. now.cmd \in Target
      BY <2>2 DEF Doing
    <3>2. PICK conv \in Started : conv = IF now.cmd = Nothing THEN n ELSE now.cmd
      BY <2>3, <3>1 DEF Target, Started
    <3>3. tmux' = [n |-> n, mine |-> FALSE, conv |-> conv, shows |-> "booting",
                   update |-> FALSE, moved |-> TRUE, told |-> FALSE]
      BY <1>2, <2>2, <2>8, <3>2 DEF NewSession
    <3>4. n \in Started
      BY <2>3 DEF Started
    <3>5. QED
      BY <3>2, <3>3, <3>4 DEF Pane, Showing
  <2>12. QED
    BY <1>2, <2>3, <2>8, <2>10, <2>11 DEF NewSession, LifeTypeOK, LifeStateOK
<1>3. CASE NewSessionFails(h)
  <2>1. (\A g \in Caller : (Idle(g) \/ StepOK(g, job[g]))') /\ job' \in [Caller -> Doing \cup {Nothing}]
    BY <1>3, LifeRestTyped DEF NewSessionFails
  <2>2. QED
    BY <1>3, <2>1 DEF NewSessionFails, LifeTypeOK, LifeStateOK
<1>4. CASE Mark(h)
  <2>1. ~Idle(h) /\ job[h].at = "mark" /\ begun' = begun
    BY <1>4 DEF Mark
  <2>2. "settle" \in Steps[job[h].op]
    BY <2>1, LifeAtStep DEF StepOK, Steps, Doing
  <2>3. (\A g \in Caller : (Idle(g) \/ StepOK(g, job[g]))') /\ job' \in [Caller -> Doing \cup {Nothing}]
    BY <1>4, <2>1, <2>2, LifeGoesTyped, LifeRestTyped DEF Mark
  <2>4. tmux' \in Pane \cup {Nothing}
    BY <1>4 DEF Mark, LifeTypeOK, Pane
  <2>5. QED
    BY <1>4, <2>3, <2>4 DEF Mark, LifeTypeOK, LifeStateOK
<1>5. CASE Settle(h)
  <2>1. ~Idle(h) /\ job[h].at = "settle" /\ begun' = begun
    BY <1>5 DEF Settle
  <2>2. "remember" \in Steps[job[h].op]
    BY <2>1, LifeAtStep DEF StepOK, Steps, Doing
  <2>3. (\A g \in Caller : (Idle(g) \/ StepOK(g, job[g]))') /\ job' \in [Caller -> Doing \cup {Nothing}]
    BY <1>5, <2>1, <2>2, LifeGoesTyped, LifeRestTyped DEF Settle
  <2>4. QED
    BY <1>5, <2>3 DEF Settle, LifeTypeOK, LifeStateOK
<1>6. CASE Remember(h)
  <2>1. ~Idle(h) /\ job[h].at = "remember"
    BY <1>6 DEF Remember
  <2>2. job[h].n \in 1..begun /\ job[h].cmd \in Target
    BY <2>1, LifeAtStep DEF StepOK, Doing
  <2>3. job[h].n \in Started
    BY <2>2 DEF LifeTypeOK, Started
  <2>4. row' \in Remembered
    BY <1>6, <2>2, <2>3 DEF Remember, RowOf, Remembered, Target
  <2>5. (\A g \in Caller : (Idle(g) \/ StepOK(g, job[g]))') /\ job' \in [Caller -> Doing \cup {Nothing}]
    BY <1>6, LifeRestTyped DEF Remember
  <2>6. QED
    BY <1>6, <2>4, <2>5 DEF Remember, LifeTypeOK, LifeStateOK
<1>7. CASE KillLooks(h)
  <2>1. ~Idle(h) /\ job[h].op \in {"stop", "sweep"} /\ begun' = begun
    BY <1>7 DEF KillLooks
  <2>2. "kill" \in Steps[job[h].op]
    BY <2>1 DEF Steps
  <2>3. (\A g \in Caller : (Idle(g) \/ StepOK(g, job[g]))') /\ job' \in [Caller -> Doing \cup {Nothing}]
    BY <1>7, <2>1, <2>2, LifeGoesTyped, LifeRestTyped DEF KillLooks
  <2>4. QED
    BY <1>7, <2>3 DEF KillLooks, LifeTypeOK, LifeStateOK
<1>8. CASE KillSession(h)
  <2>1. ~Idle(h) /\ job[h].at = "kill"
    BY <1>8 DEF KillSession
  <2>2. (\A g \in Caller : (Idle(g) \/ StepOK(g, job[g]))') /\ job' \in [Caller -> Doing \cup {Nothing}]
    <3>1. CASE tmux = Nothing
      BY <1>8, <3>1, LifeRestTyped DEF KillSession
    <3>2. CASE tmux # Nothing
      <4>1. PICK now \in Doing : now = job[h] /\ StepOK(h, now)
        BY <2>1, LifeAtStep
      <4>2. PICK took \in Target : took = Known(tmux)
        BY <3>2 DEF Known, LifeTypeOK, Pane, Target
      <4>3. PICK j : j = [now EXCEPT !.at = AfterKill(now.op), !.took = took, !.op = AfterwardsOf(now.op)]
        OBVIOUS
      <4>4. job' = [job EXCEPT ![h] = j]
        BY <1>8, <3>2, <4>1, <4>2, <4>3 DEF KillSession, LifeTypeOK
      <4>5. now.op \in {"stop", "sweep"}
        BY <2>1, <4>1 DEF StepOK, Steps, Doing
      <4>6. j \in Doing /\ j.op = AfterwardsOf(now.op) /\ j.at = AfterKill(now.op)
        BY <4>2, <4>3, <4>5 DEF Doing, AfterKill, AfterwardsOf
      <4>7. StepOK(h, j)'
        BY <4>1, <4>5, <4>6 DEF StepOK, Steps, AfterKill, AfterwardsOf
      <4>8. begun' \in 0..MaxSessions /\ begun <= begun'
        BY <1>8 DEF KillSession, LifeTypeOK
      <4>9. QED
        BY <4>4, <4>6, <4>7, <4>8, LifeCallerTyped
    <3>3. QED
      BY <3>1, <3>2
  <2>3. QED
    BY <1>8, <2>2 DEF KillSession, LifeTypeOK, LifeStateOK
<1>9. CASE Forget(h)
  <2>1. (\A g \in Caller : (Idle(g) \/ StepOK(g, job[g]))') /\ job' \in [Caller -> Doing \cup {Nothing}]
    BY <1>9, LifeRestTyped DEF Forget
  <2>2. QED
    BY <1>9, <2>1 DEF Forget, LifeTypeOK, LifeStateOK
<1>10. QED
  BY <1>1, <1>2, <1>3, <1>4, <1>5, <1>6, <1>7, <1>8, <1>9 DEF Carry

\* A call begins, is looked at by the sweep, or ends where it is.
LEMMA LifeBeginsTyped ==
  ASSUME LifeTypeOK,
         \/ \E h \in Hand : StartByForm(h) \/ Restore(h) \/ StopBy(h) \/ Cut(h)
         \/ SweepLooks \/ SweepRecalls \/ Cut(Sweeper) \/ Redeploys
  PROVE  LifeStateOK'
<1> USE LifeAssumption, LifeNone
<1>1. Sweeper \in Caller /\ Hand \subseteq Caller /\ Nothing \in Target
  BY DEF Caller, Target
<1>2. ASSUME NEW h \in Hand, StartByForm(h) \/ Restore(h) \/ StopBy(h)
      PROVE  LifeStateOK'
  <2>1. begun' = begun /\ h \in Caller /\ h # Sweeper
    BY <1>1, <1>2 DEF StartByForm, Restore, StopBy
  <2>2. PICK op \in {"start", "stop"}, cmd \in Target : Asks(h, op, cmd)
    <3>1. CASE StartByForm(h) \/ StopBy(h)
      BY <1>1, <3>1 DEF StartByForm, StopBy
    <3>2. CASE Restore(h)
      BY <3>2, ResumedTyped DEF Restore
    <3>3. QED
      BY <1>2, <3>1, <3>2
  <2>3. op \in DOMAIN Steps /\ op \notin {"again", "sweep", "recall"}
    BY DEF Steps
  <2>4. (\A g \in Caller : (Idle(g) \/ StepOK(g, job[g]))') /\ job' \in [Caller -> Doing \cup {Nothing}]
    BY <2>1, <2>2, <2>3, LifeAsksTyped
  <2>5. QED
    BY <1>2, <2>4 DEF StartByForm, Restore, StopBy, LifeTypeOK, LifeStateOK
<1>3. CASE SweepLooks
  <2>1. "recall" \in DOMAIN Steps /\ begun' = begun
    BY <1>3 DEF Steps, SweepLooks
  <2>2. (\A g \in Caller : (Idle(g) \/ StepOK(g, job[g]))') /\ job' \in [Caller -> Doing \cup {Nothing}]
    BY <1>1, <1>3, <2>1, LifeAsksTyped DEF SweepLooks
  <2>3. QED
    BY <1>3, <2>2 DEF SweepLooks, LifeTypeOK, LifeStateOK
<1>4. CASE SweepRecalls
  <2>1. "sweep" \in DOMAIN Steps /\ begun' = begun
    BY <1>4 DEF Steps, SweepRecalls
  <2>2. (\A g \in Caller : (Idle(g) \/ StepOK(g, job[g]))') /\ job' \in [Caller -> Doing \cup {Nothing}]
    <3>1. CASE row = Nothing
      BY <1>1, <1>4, <2>1, <3>1, LifeRestTyped DEF SweepRecalls
    <3>2. CASE row # Nothing
      BY <1>1, <1>4, <2>1, <3>2, ResumedTyped, LifeAsksTyped DEF SweepRecalls
    <3>3. QED
      BY <3>1, <3>2
  <2>3. QED
    BY <1>4, <2>2 DEF SweepRecalls, LifeTypeOK, LifeStateOK
<1>5. ASSUME NEW h \in Caller, Cut(h)
      PROVE  LifeStateOK'
  <2>1. (\A g \in Caller : (Idle(g) \/ StepOK(g, job[g]))') /\ job' \in [Caller -> Doing \cup {Nothing}]
    BY <1>5, LifeRestTyped DEF Cut
  <2>2. QED
    BY <1>5, <2>1 DEF Cut, LifeTypeOK, LifeStateOK
<1>6. CASE Redeploys
  <2>1. (\A g \in Caller : (Idle(g) \/ StepOK(g, job[g]))') /\ job' \in [Caller -> Doing \cup {Nothing}]
    BY <1>1, <1>6, LifeRestTyped DEF Redeploys, Rest
  <2>2. QED
    BY <1>6, <2>1 DEF Redeploys, LifeTypeOK, LifeStateOK
<1>7. QED
  BY <1>1, <1>2, <1>3, <1>4, <1>5, <1>6

LEMMA LifeTypeStep == LifeTypeOK /\ [LifeNext]_lifeVars => LifeTypeOK'
<1> SUFFICES ASSUME LifeTypeOK, [LifeNext]_lifeVars
             PROVE  LifeTypeOK'
  OBVIOUS
<1> USE LifeAssumption
<1>1. CASE UNCHANGED lifeVars
  BY <1>1 DEF lifeVars, LifeTypeOK, Idle, StepOK
<1>2. CASE LifeNext
  <2>1. owed' \in BOOLEAN /\ smooth' \in BOOLEAN
    BY <1>2 DEF LifeNext, History, LifeTypeOK
  <2>2. LifeStateOK'
    <3>1. CASE \/ \E reports \in BOOLEAN : CliStarted(reports)
               \/ TurnBegins
               \/ \E turned \in BOOLEAN : BusyEnds(turned)
               \/ Types \/ Announces \/ Dies \/ ComesOrGoes \/ Poll \/ PollEnds \/ Adopt \/ Dwell
      <4>1. UNCHANGED <<job, begun>>
        BY <3>1 DEF CliStarted, TurnBegins, BusyEnds, Types, Announces, Dies, ComesOrGoes, Poll,
                    PollEnds, Adopt, Dwell
      <4>2. QED
        BY <3>1, <4>1, LifeOutsideTyped
    <3>2. ASSUME NEW h \in Caller, Carry(h)
          PROVE  LifeStateOK'
      BY <3>2, LifeCarryTyped
    <3>3. CASE \/ \E h \in Hand : StartByForm(h) \/ Restore(h) \/ StopBy(h) \/ Cut(h)
               \/ SweepLooks \/ SweepRecalls \/ Cut(Sweeper) \/ Redeploys
      BY <3>3, LifeBeginsTyped
    <3>4. Sweeper \in Caller /\ Hand \subseteq Caller
      BY DEF Caller
    <3>5. QED
      BY <1>2, <3>1, <3>2, <3>3, <3>4 DEF LifeNext, Sweeps
  <2>3. QED
    BY <2>1, <2>2 DEF LifeStateOK, LifeTypeOK
<1>3. QED
  BY <1>1, <1>2

\* Each caller is at a step of its call, and what is kept is of sessions that
\* were started, whatever ends where.
THEOREM LifeTypeCorrect == LifeSpec => []LifeTypeOK
<1>1. LifeInit => LifeTypeOK
  <2> SUFFICES ASSUME LifeInit
               PROVE  LifeTypeOK
    OBVIOUS
  <2>1. job \in [Caller -> Doing \cup {Nothing}] /\ \A h \in Caller : Idle(h)
    BY DEF LifeInit, Idle
  <2>2. begun \in 0..MaxSessions /\ written \subseteq Started
    BY LifeAssumption DEF LifeInit
  <2>3. QED
    BY <2>1, <2>2 DEF LifeInit, LifeTypeOK
<1>2. QED
  BY <1>1, LifeTypeStep, PTL DEF LifeSpec

----------------------------------------------------------------------------
(* Conversations.                                                           *)

\* What runs under the name is what was created last.
PaneNewest == tmux # Nothing => tmux.n = begun

\* What is written down of a session was reported by it or by a later one.
RowFits ==
  row # Nothing =>
    /\ row.n <= begun
    /\ row.cli # Nothing <=> row.by # Nothing
    /\ row.by # Nothing => row.n <= row.by /\ row.by <= begun

LEMMA ConversationStep ==
  ASSUME LifeTypeOK, PaneNewest, RowFits, [LifeNext]_lifeVars
  PROVE  PaneNewest' /\ RowFits'
<1> USE LifeAssumption, LifeNone
<1>1. begun \in Nat /\ (row # Nothing => row.n \in Nat)
  BY DEF LifeTypeOK, Remembered, Started
<1>2. ASSUME NEW reports \in BOOLEAN, CliStarted(reports)
      PROVE  PaneNewest' /\ RowFits'
  <2>1. tmux.n = begun /\ tmux.n \in Nat /\ tmux.conv \in Nat /\ tmux \in Pane
    BY <1>2 DEF CliStarted, PaneNewest, LifeTypeOK, Pane, Started
  <2>2. PaneNewest'
    BY <1>2, <2>1 DEF CliStarted, PaneNewest, Pane
  <2>3. CASE row = Nothing \/ ~reports
    BY <1>2, <2>2, <2>3 DEF CliStarted, RowFits, Noted
  <2>4. CASE row # Nothing /\ reports
    <3>1. row \in Remembered
      BY <2>4 DEF LifeTypeOK
    <3>2. row'.n = row.n /\ row'.cli = tmux.conv /\ row'.by = tmux.n
      BY <1>2, <2>4, <3>1 DEF CliStarted, Noted, Remembered
    <3>3. begun' = begun
      BY <1>2 DEF CliStarted
    <3>4. QED
      BY <1>1, <2>1, <2>2, <2>4, <3>2, <3>3 DEF RowFits
  <2>5. QED
    BY <2>2, <2>3, <2>4
<1>3. CASE TurnBegins \/ (\E turned \in BOOLEAN : BusyEnds(turned)) \/ Types \/ Announces \/ Poll
  <2>1. row' = row /\ begun' = begun /\ tmux # Nothing /\ tmux' # Nothing => tmux'.n = tmux.n
    BY <1>3 DEF TurnBegins, BusyEnds, Types, Announces, Poll, LifeTypeOK, Pane
  <2>2. tmux # Nothing /\ row' = row /\ begun' = begun
    BY <1>3 DEF TurnBegins, BusyEnds, Types, Announces, Poll
  <2>3. QED
    BY <2>1, <2>2 DEF PaneNewest, RowFits
<1>4. CASE Dies \/ ComesOrGoes \/ PollEnds \/ Adopt \/ Dwell
  BY <1>4 DEF Dies, ComesOrGoes, PollEnds, Adopt, Dwell, PaneNewest, RowFits
<1>5. ASSUME NEW h \in Caller, NewSession(h)
      PROVE  PaneNewest' /\ RowFits'
  <2>1. begun' = begun + 1 /\ row' = row /\ tmux'.n = begun'
    BY <1>5 DEF NewSession
  <2>2. PaneNewest'
    BY <2>1 DEF PaneNewest
  <2>3. CASE row = Nothing
    BY <2>1, <2>2, <2>3 DEF RowFits
  <2>4. CASE row # Nothing
    <3>1. row.n \in Nat /\ row.by \in Nat \cup {Nothing}
      BY <2>4 DEF LifeTypeOK, Remembered, Target, Started
    <3>2. QED
      BY <1>1, <2>1, <2>2, <2>4, <3>1 DEF RowFits
  <2>5. QED
    BY <2>2, <2>3, <2>4
<1>6. ASSUME NEW h \in Caller, Mark(h)
      PROVE  PaneNewest' /\ RowFits'
  BY <1>6 DEF Mark, PaneNewest, RowFits, LifeTypeOK, Pane
<1>7. ASSUME NEW h \in Caller, Remember(h)
      PROVE  PaneNewest' /\ RowFits'
  <2>1. job[h].n \in 1..begun
    <3>1. ~Idle(h) /\ job[h].at = "remember"
      BY <1>7 DEF Remember
    <3>2. QED
      BY <3>1, LifeAtStep DEF StepOK
  <2>2. row'.n = job[h].n /\ row'.cli = Nothing /\ row'.by = Nothing /\ begun' = begun /\ tmux' = tmux
    BY <1>7 DEF Remember, RowOf
  <2>3. QED
    BY <2>1, <2>2 DEF RowFits, PaneNewest
<1>8. ASSUME NEW h \in Caller,
             StartLooks(h) \/ NewSessionFails(h) \/ Settle(h) \/ KillLooks(h) \/ KillSession(h)
               \/ Forget(h) \/ Cut(h)
      PROVE  PaneNewest' /\ RowFits'
  BY <1>8 DEF StartLooks, NewSessionFails, Settle, KillLooks, KillSession, Forget, Cut, PaneNewest, RowFits
<1>9. CASE \/ \E h \in Hand : StartByForm(h) \/ Restore(h) \/ StopBy(h)
           \/ SweepLooks \/ SweepRecalls \/ Redeploys \/ UNCHANGED lifeVars
  BY <1>9 DEF StartByForm, Restore, StopBy, SweepLooks, SweepRecalls, Redeploys, lifeVars, PaneNewest, RowFits
<1>10. ASSUME NEW h \in Caller, Carry(h)
      PROVE  PaneNewest' /\ RowFits'
  BY <1>5, <1>6, <1>7, <1>8, <1>10 DEF Carry
<1>11. Sweeper \in Caller /\ Hand \subseteq Caller
  BY DEF Caller
<1>12. QED
  BY <1>2, <1>3, <1>4, <1>8, <1>9, <1>10, <1>11 DEF LifeNext, Sweeps

LEMMA ConversationAlways == LifeSpec => [](PaneNewest /\ RowFits)
<1>1. LifeInit => PaneNewest /\ RowFits
  BY DEF LifeInit, PaneNewest, RowFits
<1>2. LifeTypeOK /\ PaneNewest /\ RowFits /\ [LifeNext]_lifeVars => (PaneNewest /\ RowFits)'
  BY ConversationStep
<1>3. QED
  BY <1>1, <1>2, LifeTypeCorrect, PTL DEF LifeSpec

\* A restore never opens a conversation older than the session it restores.
THEOREM NoStaleConversationEver == LifeSpec => []NoStaleConversation
<1>1. RowFits => NoStaleConversation
  BY DEF RowFits, NoStaleConversation
<1>2. QED
  BY <1>1, ConversationAlways, PTL

----------------------------------------------------------------------------
(* What is offered back.                                                    *)

Forgetting == \E h \in Caller : ~Idle(h) /\ job[h].at = "forget"

\* A stop that has ended the session has yet to forget it.
OfferedInTurn == IF Forgetting THEN ~owed ELSE owed <=> row # Nothing

TurnsKept == smooth => InTurn /\ OfferedInTurn

\* The sweep forgets nothing.
LEMMA SweeperNeverForgets ==
  ASSUME LifeTypeOK, ~Idle(Sweeper)
  PROVE  job[Sweeper].at # "forget"
<1>1. Sweeper \in Caller
  BY DEF Caller
<1>2. job[Sweeper] \in Doing /\ StepOK(Sweeper, job[Sweeper])
  BY <1>1, LifeAtStep
<1>3. QED
  BY <1>2 DEF StepOK, Steps

\* A step that neither writes a row down nor ends a session.
LEMMA QuietStep ==
  ASSUME LifeTypeOK, TurnsKept, History, NEW h \in Caller, NEW j,
         job' = [job EXCEPT ![h] = j],
         ~Idle(h) => job[h].at \notin {"remember", "kill", "forget"},
         j # Nothing => j.at # "forget",
         row # Nothing <=> row' # Nothing
  PROVE  TurnsKept'
<1> SUFFICES ASSUME smooth'
             PROVE  InTurn' /\ OfferedInTurn'
  BY DEF TurnsKept
<1>1. smooth /\ InTurn' /\ OfferedInTurn
  BY DEF History, TurnsKept
<1>2. \A g \in Caller : g # h => job'[g] = job[g]
  BY DEF LifeTypeOK
<1>3. job'[h] = j
  BY DEF LifeTypeOK
<1>4. Forgetting' <=> Forgetting
  BY <1>2, <1>3 DEF Forgetting, Idle
<1>5. owed' = owed
  <2>1. ~ \E g \in Caller : ~Idle(g) /\ job[g].at = "remember" /\ job'[g] = Nothing
    BY <1>2, <1>3 DEF Idle
  <2>2. ~ \E g \in Hand : ~Idle(g) /\ job[g].at = "kill" /\ job'[g] \notin {Nothing, job[g]}
    BY <1>2, <1>3 DEF Idle, Caller
  <2>3. owed \in BOOLEAN /\ owed' \in BOOLEAN
    BY DEF LifeTypeOK, History
  <2>4. QED
    BY <2>1, <2>2, <2>3 DEF History
<1>6. QED
  BY <1>1, <1>4, <1>5 DEF OfferedInTurn

\* The CLI, people and the poller write nothing down and take nothing off.
LEMMA OutsideStep ==
  ASSUME LifeTypeOK, TurnsKept, History, UNCHANGED job, row # Nothing <=> row' # Nothing
  PROVE  TurnsKept'
<1> SUFFICES ASSUME smooth'
             PROVE  InTurn' /\ OfferedInTurn'
  BY DEF TurnsKept
<1>1. smooth /\ InTurn' /\ OfferedInTurn
  BY DEF History, TurnsKept
<1>2. Forgetting' <=> Forgetting
  BY DEF Forgetting, Idle
<1>3. owed' = owed
  <2>1. ~ \E g \in Caller : ~Idle(g) /\ job[g].at = "remember" /\ job'[g] = Nothing
    BY DEF Idle
  <2>2. owed \in BOOLEAN /\ owed' \in BOOLEAN
    BY DEF LifeTypeOK, History
  <2>3. QED
    BY <2>1, <2>2 DEF History
<1>4. QED
  BY <1>1, <1>2, <1>3 DEF OfferedInTurn

\* While callers take turns, the one at a step is the only one.
LEMMA AloneAtStep ==
  ASSUME TurnsKept, smooth, NEW h \in Caller, ~Idle(h)
  PROVE  \A g \in Caller : g # h => Idle(g)
BY DEF TurnsKept, InTurn

\* A start that ends well writes its row; a stop ends the session, and then
\* takes its row away.
LEMMA RememberStep ==
  ASSUME LifeTypeOK, TurnsKept, History, NEW h \in Caller, Remember(h)
  PROVE  TurnsKept'
<1> SUFFICES ASSUME smooth'
             PROVE  InTurn' /\ OfferedInTurn'
  BY DEF TurnsKept
<1>1. smooth /\ InTurn' /\ smooth'
  BY DEF History
<1>2. ~Idle(h) /\ job[h].at = "remember" /\ job'[h] = Nothing /\ \A g \in Caller : g # h => Idle(g)
  BY <1>1, AloneAtStep DEF Remember, Rest, LifeTypeOK
<1>3. ~Forgetting'
  BY <1>2 DEF Forgetting, Idle, Remember, Rest, LifeTypeOK
<1>4. owed'
  <2>1. ~ \E g \in Hand : ~Idle(g) /\ job[g].at = "kill" /\ job'[g] \notin {Nothing, job[g]}
    BY <1>2 DEF Caller
  <2>2. \E g \in Caller : ~Idle(g) /\ job[g].at = "remember" /\ job'[g] = Nothing
    BY <1>2
  <2>3. QED
    BY <1>1, <2>1, <2>2 DEF History
<1>5. row' # Nothing
  <2>1. job[h] \in Doing /\ job[h].n \in 1..begun
    BY <1>2, LifeAtStep DEF StepOK
  <2>2. job[h].cmd \in Target /\ job[h].n \in Started
    BY <2>1, LifeAssumption DEF Doing, LifeTypeOK, Started
  <2>3. row' \in Remembered
    BY <2>2 DEF Remember, RowOf, Remembered, Target
  <2>4. QED
    BY <2>3, LifeNone
<1>6. QED
  BY <1>1, <1>3, <1>4, <1>5 DEF OfferedInTurn

LEMMA KillStep ==
  ASSUME LifeTypeOK, TurnsKept, History, NEW h \in Caller, KillSession(h)
  PROVE  TurnsKept'
<1> SUFFICES ASSUME smooth'
             PROVE  InTurn' /\ OfferedInTurn'
  BY DEF TurnsKept
<1>1. smooth /\ InTurn' /\ smooth' /\ OfferedInTurn
  BY DEF History, TurnsKept
<1>2. ~Idle(h) /\ job[h].at = "kill" /\ \A g \in Caller : g # h => Idle(g)
  BY <1>1, AloneAtStep DEF KillSession
<1>3. \A g \in Caller : g # h => job'[g] = job[g]
  BY DEF KillSession, Rest, LifeTypeOK
<1>4. ~Forgetting /\ row' = row
  BY <1>2 DEF Forgetting, KillSession
<1>5. ~ \E g \in Caller : ~Idle(g) /\ job[g].at = "remember" /\ job'[g] = Nothing
  BY <1>2, <1>3 DEF Idle
<1>6. job[h].op \in {"stop", "sweep"} /\ (job[h].op = "sweep" <=> h = Sweeper) /\ job[h] \in Doing
  BY <1>2, LifeAtStep DEF StepOK, Steps, Doing
<1>7. CASE tmux = Nothing
  <2>1. job'[h] = Nothing
    BY <1>7 DEF KillSession, Rest, LifeTypeOK
  <2>2. owed' = owed
    BY <1>1, <1>2, <1>3, <1>5, <2>1 DEF History, Caller, LifeTypeOK
  <2>3. ~Forgetting'
    BY <1>2, <1>3, <2>1 DEF Forgetting, Idle
  <2>4. QED
    BY <1>1, <1>4, <2>2, <2>3 DEF OfferedInTurn
<1>8. CASE tmux # Nothing
  <2>1. PICK now \in Doing : now = job[h]
    BY <1>6
  <2>2. PICK took \in Target : took = Known(tmux)
    BY <1>8 DEF Known, LifeTypeOK, Pane, Target
  <2>3. PICK j : j = [now EXCEPT !.at = AfterKill(now.op), !.took = took, !.op = AfterwardsOf(now.op)]
    OBVIOUS
  <2>4. job' = [job EXCEPT ![h] = j]
    BY <1>8, <2>1, <2>2, <2>3 DEF KillSession, LifeTypeOK
  <2>5. job'[h] = j /\ j.at = AfterKill(now.op) /\ j \in Doing
    BY <1>6, <2>1, <2>2, <2>3, <2>4 DEF LifeTypeOK, AfterKill, AfterwardsOf, Doing
  <2>6. j # Nothing
    BY <2>5, LifeNone
  <2>7. CASE h = Sweeper
    <3>1. j.at = "alive"
      BY <1>6, <2>1, <2>5, <2>7 DEF AfterKill
    <3>2. ~Forgetting'
      BY <1>2, <1>3, <2>5, <3>1 DEF Forgetting, Idle
    <3>3. ~ \E g \in Hand : ~Idle(g) /\ job[g].at = "kill" /\ job'[g] \notin {Nothing, job[g]}
      BY <1>2, <2>7, LifeAssumption DEF Caller
    <3>4. owed' = owed
      BY <1>1, <1>5, <3>3 DEF History, LifeTypeOK
    <3>5. QED
      BY <1>1, <1>4, <3>2, <3>4 DEF OfferedInTurn
  <2>8. CASE h # Sweeper
    <3>1. j.at = "forget" /\ h \in Hand
      BY <1>6, <2>1, <2>5, <2>8 DEF AfterKill, Caller
    <3>2. Forgetting'
      BY <2>5, <2>6, <3>1 DEF Forgetting, Idle
    <3>3. j # job[h]
      BY <1>2, <3>1
    <3>4. ~owed'
      BY <1>2, <2>5, <2>6, <3>1, <3>3 DEF History
    <3>5. QED
      BY <1>1, <3>2, <3>4 DEF OfferedInTurn
  <2>9. QED
    BY <2>7, <2>8
<1>9. QED
  BY <1>7, <1>8

LEMMA ForgetStep ==
  ASSUME LifeTypeOK, TurnsKept, History, NEW h \in Caller, Forget(h)
  PROVE  TurnsKept'
<1> SUFFICES ASSUME smooth'
             PROVE  InTurn' /\ OfferedInTurn'
  BY DEF TurnsKept
<1>1. smooth /\ InTurn' /\ smooth' /\ OfferedInTurn
  BY DEF History, TurnsKept
<1>2. ~Idle(h) /\ job[h].at = "forget" /\ row' = Nothing
  BY DEF Forget
<1>3. job'[h] = Nothing /\ \A g \in Caller : g # h => Idle(g) /\ job'[g] = job[g]
  BY <1>1, <1>2, AloneAtStep DEF Forget, Rest, LifeTypeOK
<1>4. ~owed
  BY <1>1, <1>2 DEF OfferedInTurn, Forgetting
<1>5. ~owed'
  <2>1. ~ \E g \in Caller : ~Idle(g) /\ job[g].at = "remember" /\ job'[g] = Nothing
    BY <1>2, <1>3
  <2>2. QED
    BY <1>4, <2>1 DEF History
<1>6. ~Forgetting'
  BY <1>3 DEF Forgetting, Idle
<1>7. QED
  BY <1>1, <1>2, <1>5, <1>6 DEF OfferedInTurn

LEMMA OfferedCarry ==
  ASSUME LifeTypeOK, TurnsKept, History, NEW h \in Caller, Carry(h)
  PROVE  TurnsKept'
<1>1. CASE Remember(h)
  BY <1>1, RememberStep
<1>2. CASE KillSession(h)
  BY <1>2, KillStep
<1>3. CASE Forget(h)
  BY <1>3, ForgetStep
<1>4. CASE StartLooks(h) \/ NewSession(h) \/ NewSessionFails(h) \/ Mark(h) \/ Settle(h) \/ KillLooks(h)
  <2>1. PICK now \in Doing : now = job[h] /\ StepOK(h, now)
    BY <1>4, LifeAtStep DEF StartLooks, NewSession, NewSessionFails, Mark, Settle, KillLooks
  <2>2. now.at \notin {"remember", "kill", "forget"} /\ row' = row
    BY <1>4, <2>1 DEF StartLooks, NewSession, NewSessionFails, Mark, Settle, KillLooks
  <2>3. PICK j : job' = [job EXCEPT ![h] = j] /\ (j # Nothing => j.at # "forget")
    <3>1. CASE job' = [job EXCEPT ![h] = Nothing]
      BY <3>1
    <3>2. CASE \E step \in {"new", "settle", "remember", "kill"} : Goes(h, step)
      <4>1. PICK step \in {"new", "settle", "remember", "kill"} : Goes(h, step)
        BY <3>2
      <4>2. PICK j : j = [now EXCEPT !.at = step]
        OBVIOUS
      <4>3. job' = [job EXCEPT ![h] = j] /\ j.at = step
        BY <2>1, <4>1, <4>2 DEF Goes, LifeTypeOK, Doing
      <4>4. QED
        BY <4>3
    <3>3. CASE NewSession(h)
      <4>1. PICK n : n = begun'
        OBVIOUS
      <4>2. PICK j : j = [now EXCEPT !.at = "mark", !.n = n]
        OBVIOUS
      <4>3. job' = [job EXCEPT ![h] = j] /\ j.at = "mark"
        BY <2>1, <3>3, <4>1, <4>2 DEF NewSession, LifeTypeOK, Doing
      <4>4. QED
        BY <4>3
    <3>4. QED
      BY <1>4, <3>1, <3>2, <3>3 DEF StartLooks, NewSessionFails, Mark, Settle, KillLooks, Rest
  <2>4. ~Idle(h) => job[h].at \notin {"remember", "kill", "forget"}
    BY <2>1, <2>2
  <2>5. row # Nothing <=> row' # Nothing
    BY <2>2
  <2>6. QED
    BY <2>3, <2>4, <2>5, QuietStep
<1>5. QED
  BY <1>1, <1>2, <1>3, <1>4 DEF Carry

LEMMA OfferedBegins ==
  ASSUME LifeTypeOK, TurnsKept, History,
         \/ \E h \in Hand : StartByForm(h) \/ Restore(h) \/ StopBy(h)
         \/ SweepLooks
         \/ SweepRecalls
  PROVE  TurnsKept'
<1>1. Sweeper \in Caller /\ Hand \subseteq Caller
  BY DEF Caller
<1>2. PICK h \in Caller :
        \/ StartByForm(h) \/ Restore(h) \/ StopBy(h)
        \/ h = Sweeper /\ (SweepLooks \/ SweepRecalls)
  BY <1>1
<1>3. row' = row /\ (~Idle(h) => job[h].at = "alive")
  <2>1. CASE StartByForm(h) \/ Restore(h) \/ StopBy(h) \/ (h = Sweeper /\ SweepLooks)
    BY <2>1 DEF StartByForm, Restore, StopBy, SweepLooks
  <2>2. CASE h = Sweeper /\ SweepRecalls
    <3>1. ~Idle(h) /\ job[h].op = "recall" /\ row' = row
      BY <2>2 DEF SweepRecalls
    <3>2. QED
      BY <3>1, LifeAtStep DEF StepOK, Steps
  <2>3. QED
    BY <1>2, <2>1, <2>2
<1>4. PICK j : job' = [job EXCEPT ![h] = j] /\ (j # Nothing => j.at # "forget")
  <2>1. CASE job' = [job EXCEPT ![h] = Nothing]
    BY <2>1
  <2>2. ASSUME NEW op, NEW cmd, Asks(h, op, cmd)
        PROVE  \E j : job' = [job EXCEPT ![h] = j] /\ (j # Nothing => j.at # "forget")
    <3>1. PICK j : j = [op |-> op, at |-> "alive", cmd |-> cmd, n |-> Nothing, took |-> Nothing]
      OBVIOUS
    <3>2. job' = [job EXCEPT ![h] = j] /\ j.at = "alive"
      BY <2>2, <3>1 DEF Asks
    <3>3. QED
      BY <3>2
  <2>3. QED
    BY <1>2, <2>1, <2>2 DEF StartByForm, Restore, StopBy, SweepLooks, SweepRecalls, Rest
<1>5. ~Idle(h) => job[h].at \notin {"remember", "kill", "forget"}
  BY <1>3
<1>6. row # Nothing <=> row' # Nothing
  BY <1>3
<1>7. QED
  BY <1>4, <1>5, <1>6, QuietStep

LEMMA OfferedStep ==
  ASSUME LifeTypeOK, LifeTypeOK', TurnsKept, [LifeNext]_lifeVars
  PROVE  TurnsKept'
<1>1. Sweeper \in Caller /\ Hand \subseteq Caller
  BY DEF Caller
<1>2. CASE UNCHANGED lifeVars
  BY <1>2 DEF lifeVars, TurnsKept, InTurn, OfferedInTurn, Forgetting, Idle
<1>3. CASE History /\ (\/ \E reports \in BOOLEAN : CliStarted(reports)
                       \/ TurnBegins
                       \/ \E turned \in BOOLEAN : BusyEnds(turned)
                       \/ Types \/ Announces \/ Dies \/ ComesOrGoes \/ Poll \/ PollEnds \/ Adopt \/ Dwell)
  <2>1. UNCHANGED job
    BY <1>3 DEF CliStarted, TurnBegins, BusyEnds, Types, Announces, Dies, ComesOrGoes, Poll,
                PollEnds, Adopt, Dwell
  <2>2. row # Nothing <=> row' # Nothing
    <3>1. ASSUME NEW reports \in BOOLEAN, CliStarted(reports)
          PROVE  row # Nothing <=> row' # Nothing
      <4>1. CASE row = Nothing \/ ~reports
        BY <3>1, <4>1 DEF CliStarted, Noted
      <4>2. CASE row # Nothing /\ reports
        <5>1. row' \in Remembered
          BY <3>1, <4>2 DEF CliStarted, Noted, LifeTypeOK, Remembered, Pane, Target
        <5>2. QED
          BY <4>2, <5>1, LifeNone
      <4>3. QED
        BY <4>1, <4>2
    <3>2. QED
      BY <1>3, <3>1 DEF TurnBegins, BusyEnds, Types, Announces, Dies, ComesOrGoes, Poll,
                        PollEnds, Adopt, Dwell
  <2>3. QED
    BY <1>3, <2>1, <2>2, OutsideStep
<1>4. CASE History /\ (\E h \in Hand : StartByForm(h) \/ Restore(h) \/ StopBy(h) \/ Carry(h))
  BY <1>1, <1>4, OfferedBegins, OfferedCarry
<1>5. CASE History /\ Sweeps
  BY <1>1, <1>5, OfferedBegins, OfferedCarry DEF Sweeps
<1>6. CASE (Cut(Sweeper) \/ Redeploys) /\ UNCHANGED <<owed, smooth>>
  <2>1. job' = [job EXCEPT ![Sweeper] = Nothing] /\ row' = row
    BY <1>6 DEF Cut, Rest, Redeploys
  <2>2. \A h \in Caller : job'[h] = IF h = Sweeper THEN Nothing ELSE job[h]
    BY <2>1 DEF LifeTypeOK
  <2>3. Forgetting' <=> Forgetting
    BY <2>2, SweeperNeverForgets DEF Forgetting, Idle
  <2>4. InTurn => InTurn'
    BY <2>2 DEF InTurn, Idle
  <2>5. QED
    BY <1>6, <2>1, <2>3, <2>4 DEF TurnsKept, OfferedInTurn
<1>7. CASE smooth' = FALSE
  BY <1>7 DEF TurnsKept
<1>8. QED
  BY <1>2, <1>3, <1>4, <1>5, <1>6, <1>7 DEF LifeNext

LEMMA TurnsKeptAlways == LifeSpec => []TurnsKept
<1>1. LifeInit => TurnsKept
  BY DEF LifeInit, TurnsKept, InTurn, OfferedInTurn, Forgetting, Idle
<1>2. LifeTypeOK /\ LifeTypeOK' /\ TurnsKept /\ [LifeNext]_lifeVars => TurnsKept'
  BY OfferedStep
<1>3. QED
  BY <1>1, <1>2, LifeTypeCorrect, PTL DEF LifeSpec

\* As long as callers take turns, what is offered back is what somebody started
\* and nobody ended.
THEOREM OfferedUntilEndedAlways == LifeSpec => []OfferedUntilEnded
<1>1. TurnsKept => OfferedUntilEnded
  BY DEF TurnsKept, OfferedInTurn, Forgetting, Idle, OfferedUntilEnded
<1>2. QED
  BY <1>1, TurnsKeptAlways, PTL
=============================================================================
