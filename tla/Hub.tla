-------------------------------- MODULE Hub --------------------------------
(***************************************************************************)
(* The hub of one project's pane: a poller that reads the tmux pane and    *)
(* tells every open tab what changed (internal/session/screen.go), and the *)
(* tabs' sockets (internal/web/sessions.go).                               *)
(*                                                                         *)
(* The hub's lock and a pane's lock are each held within one step.  What   *)
(* interleaves: tabs that open and close, the poller's reading and the one *)
(* a tab makes as it opens, the adoption tick, the linger timer, and a     *)
(* session that ends and is started again under the same name.             *)
(***************************************************************************)
EXTENDS Naturals, Sequences, FiniteSets

CONSTANTS
  Viewer,    \* tabs
  PaneId,    \* pollers that may exist at once, in the map or forgotten by it
  None,      \* no value
  Buffer,    \* frames a tab's channel holds; 8 in the code
  MaxDraws,  \* bound: contents the pane ever shows
  MaxStarts  \* bound: sessions started under the name

ASSUME HubAssumption ==
  /\ IsFiniteSet(Viewer)
  /\ Buffer \in Nat \ {0} /\ MaxDraws \in Nat \ {0} /\ MaxStarts \in Nat

VARIABLES
  alive,     \* tmux has a session of the name that Mustur started
  starts,    \* sessions started so far
  screen,    \* what the pane shows: the number of the drawing
  keyed,     \* the poller the hub's map has for the project, or None
  pane,      \* poller -> its state, or None
  viewer,    \* tab -> its attachment
  adopting   \* what the adoption tick found tmux to list, or None

vars == <<alive, starts, screen, keyed, pane, viewer, adopting>>

\* Drawing 0 is the zero Frame, before anything was read.
Frame == [content : 0..MaxDraws, ended : BOOLEAN]

\* What a reading of the pane comes to: what it shows, or that the session is gone.
Gone    == 0
Reading == 0..MaxDraws

PaneState ==
  [last    : Frame,                    \* the frame everybody was last told
   ended   : BOOLEAN,
   subs    : SUBSET Viewer,            \* tabs whose channel is open
   refs    : 0..Cardinality(Viewer),
   armed   : BOOLEAN,                  \* the linger timer is running
   pinned  : BOOLEAN,                  \* adopted: polled whoever watches
   running : BOOLEAN]                  \* its goroutine has not been stopped

ASSUME HubNone == None \notin PaneId /\ None \notin PaneState /\ None \notin Reading

\* A tab goes through Watch and is then open.
Stage == {"away", "ensure", "capture", "apply", "join", "open"}

Attachment ==
  [at     : Stage,
   pane   : PaneId \cup {None},
   got    : Reading \cup {None},
   sees   : Frame,                     \* the last frame sent to the browser
   queue  : Seq(Frame),                \* the channel
   missed : BOOLEAN]                   \* history: the pane spoke between this tab's reading
                                       \* and its joining, and has not spoken since

Blank == [content |-> 0, ended |-> FALSE]

Away ==
  [at |-> "away", pane |-> None, got |-> None, sees |-> Blank,
   queue |-> << >>, missed |-> FALSE]

NewPane ==
  [last |-> Blank, ended |-> FALSE, subs |-> {}, refs |-> 0, armed |-> FALSE,
   pinned |-> FALSE, running |-> TRUE]

Init ==
  /\ alive = FALSE /\ starts = 0 /\ screen = 0
  /\ keyed = None
  /\ pane = [p \in PaneId |-> None]
  /\ viewer = [v \in Viewer |-> Away]
  /\ adopting = None

----------------------------------------------------------------------------
(* A pane and its viewers.                                                  *)

Exists(p) == pane[p] # None

\* What nothing refers to is collected: not the map, which then has pane k, nor a
\* tab, a timer or a goroutine.
Collected(k, panes) ==
  [p \in PaneId |->
    IF /\ panes[p] # None /\ p # k /\ panes[p].refs = 0
       /\ ~panes[p].running /\ ~panes[p].armed
      THEN None ELSE panes[p]]

Room(v) == Len(viewer[v].queue) < Buffer

\* The tab has read pane p, and its channel is not among the pane's yet.
Joining(a, p) == a.at = "join" /\ a.pane = p

\* broadcast: the frame is queued for every tab with room in its channel ...
Broadcast(p, f) ==
  [v \in Viewer |->
    IF v \in pane[p].subs /\ Room(v)
      THEN [viewer[v] EXCEPT !.queue = Append(@, f), !.missed = FALSE]
    ELSE IF Joining(viewer[v], p)
      THEN [viewer[v] EXCEPT !.missed = TRUE]
    ELSE viewer[v]]

\* Mutant: a tab that cannot keep up loses the frame and stays.
AllStay(p) == pane[p].subs

\* ... and the channel of one without is closed.
KeepingUp(p) == {v \in pane[p].subs : Room(v)}

\* shut: the poller is told to stop and every channel closed.
Shut(p) == [pane[p] EXCEPT !.running = FALSE, !.subs = {}]

\* What pane p says after a reading, and whether that is a frame to send: the
\* end is said once, and a drawing that was sent is not sent again.
NewsIn(p, got) ==
  IF got = Gone THEN ~pane[p].ended ELSE got # pane[p].last.content

FrameOf(p, got) ==
  IF got = Gone THEN [pane[p].last EXCEPT !.ended = TRUE]
                ELSE [content |-> got, ended |-> FALSE]

After(p, got) ==
  IF NewsIn(p, got)
    THEN [pane[p] EXCEPT !.last = FrameOf(p, got), !.subs = KeepingUp(p),
                         !.ended = @ \/ got = Gone]
    ELSE pane[p]

ToldAfter(p, got) == IF NewsIn(p, got) THEN Broadcast(p, FrameOf(p, got)) ELSE viewer

Read == IF alive THEN screen ELSE Gone

\* Mutant: the pane of the map whatever became of it.
KeyedAnyway == keyed # None

\* The pane of the map, if its session has not ended.
KeyedLives == keyed # None /\ ~pane[keyed].ended

\* ensureLocked: the pane of the map, unless there is none or it has ended; then
\* that one is shut and q is started in its place.
Ensured(q) ==
  IF KeyedLives THEN q = keyed
  ELSE ~Exists(q) /\ q = CHOOSE x \in PaneId : ~Exists(x)

PanesWith(q, rec) ==
  Collected(q, [p \in PaneId |-> CASE p = q -> rec
                                   [] p # q /\ p = keyed -> Shut(p)
                                   [] OTHER -> pane[p]])

EnsuredState(q) == IF keyed = q THEN pane[q] ELSE NewPane

----------------------------------------------------------------------------
(* Watch and Close.                                                         *)

\* Watch: the session has to be alive.
WatchAsks(v) ==
  /\ viewer[v].at = "away" /\ alive
  /\ viewer' = [viewer EXCEPT ![v].at = "ensure"]
  /\ UNCHANGED <<alive, starts, screen, keyed, pane, adopting>>

WatchHolds(v) ==
  /\ viewer[v].at = "ensure"
  /\ \E q \in PaneId :
       /\ Ensured(q)
       /\ keyed' = q
       /\ pane' = PanesWith(q, [EnsuredState(q) EXCEPT !.refs = @ + 1, !.armed = FALSE])
       /\ viewer' = [viewer EXCEPT ![v].at = "capture", ![v].pane = q]
  /\ UNCHANGED <<alive, starts, screen, adopting>>

\* The first frame is read by the tab itself.
WatchCaptures(v) ==
  /\ viewer[v].at = "capture"
  /\ viewer' = [viewer EXCEPT ![v].at = "apply", ![v].got = Read]
  /\ UNCHANGED <<alive, starts, screen, keyed, pane, adopting>>

WatchApplies(v) ==
  LET p == viewer[v].pane
      got == viewer[v].got
  IN  /\ viewer[v].at = "apply"
      /\ pane' = [pane EXCEPT ![p] = After(p, got)]
      /\ viewer' = [ToldAfter(p, got) EXCEPT ![v].at = "join", ![v].got = None,
                                             ![v].sees = After(p, got).last]
      /\ UNCHANGED <<alive, starts, screen, keyed, adopting>>

\* Its capture fails: what the pane last said.
WatchFails(v) ==
  /\ viewer[v].at = "capture"
  /\ viewer' = [viewer EXCEPT ![v].at = "join", ![v].sees = pane[viewer[v].pane].last]
  /\ UNCHANGED <<alive, starts, screen, keyed, pane, adopting>>

\* Its channel joins the pane's, and the hello is sent.
WatchJoins(v) ==
  /\ viewer[v].at = "join"
  /\ pane' = [pane EXCEPT ![viewer[v].pane].subs = @ \cup {v}]
  /\ viewer' = [viewer EXCEPT ![v].at = "open"]
  /\ UNCHANGED <<alive, starts, screen, keyed, adopting>>

\* Close: the channel is detached, and the linger timer armed by the last tab of
\* a poller that was not adopted.
Left(rec, v) ==
  [rec EXCEPT !.subs = @ \ {v}, !.refs = @ - 1,
              !.armed = @ \/ (rec.refs = 1 /\ ~rec.pinned)]

Closes(v) ==
  /\ pane' = Collected(keyed, [pane EXCEPT ![viewer[v].pane] = Left(@, v)])
  /\ viewer' = [viewer EXCEPT ![v] = Away]
  /\ UNCHANGED <<alive, starts, screen, keyed, adopting>>

----------------------------------------------------------------------------
(* The socket.                                                              *)

\* A frame is taken from the channel and sent.
Sends(v) ==
  /\ viewer[v].at = "open" /\ viewer[v].queue # << >> /\ ~Head(viewer[v].queue).ended
  /\ viewer' = [viewer EXCEPT ![v].sees = Head(viewer[v].queue), ![v].queue = Tail(@)]
  /\ UNCHANGED <<alive, starts, screen, keyed, pane, adopting>>

\* The end is told and the socket closed.
TellsEnd(v) ==
  /\ viewer[v].at = "open" /\ viewer[v].queue # << >> /\ Head(viewer[v].queue).ended
  /\ Closes(v)

\* A channel that was closed is drained first.
Drained(v) ==
  /\ viewer[v].at = "open" /\ viewer[v].queue = << >> /\ v \notin pane[viewer[v].pane].subs
  /\ Closes(v)

\* The tab is closed, a write fails, or the idle timer fires.
Leaves(v) == viewer[v].at = "open" /\ Closes(v)

\* A socket that nothing is sent to meets its idle timer.
Idles(v) == Leaves(v) /\ pane[viewer[v].pane].ended

----------------------------------------------------------------------------
(* The poller, the linger timer and the adoption tick.                      *)

\* One reading, in one step: of two that overlap the longer is a tab's.  A capture
\* that fails while the session lives changes nothing; an end stops the poller.
Polls(p) ==
  /\ Exists(p) /\ pane[p].running
  /\ pane' = Collected(keyed, [pane EXCEPT ![p] =
                [After(p, Read) EXCEPT !.running = ~After(p, Read).last.ended]])
  /\ viewer' = ToldAfter(p, Read)
  /\ UNCHANGED <<alive, starts, screen, keyed, adopting>>

\* Neither held by a tab nor adopted.
Unneeded(rec) == rec.refs = 0 /\ ~rec.pinned

\* The linger timer's function: it takes whatever pane the map has by then out of
\* it.  One that waits for the lock while a tab comes back finds the tab.
LingerRuns(p) ==
  /\ Exists(p) /\ pane[p].armed
  /\ IF Unneeded(pane[p])
       THEN /\ pane' = Collected(None, [pane EXCEPT ![p] = [Shut(p) EXCEPT !.armed = FALSE]])
            /\ keyed' = None
       ELSE /\ pane' = Collected(keyed, [pane EXCEPT ![p].armed = FALSE])
            /\ UNCHANGED keyed
  /\ UNCHANGED <<alive, starts, screen, viewer, adopting>>

\* adopt: tmux is listed without the lock.
AdoptLists ==
  /\ adopting = None
  /\ adopting' = alive
  /\ UNCHANGED <<alive, starts, screen, keyed, pane, viewer>>

\* A session listed has a poller, which is pinned.
AdoptEnsures ==
  /\ adopting = TRUE
  /\ adopting' = None
  /\ \E q \in PaneId :
       /\ Ensured(q)
       /\ keyed' = q
       /\ pane' = PanesWith(q, [EnsuredState(q) EXCEPT !.pinned = TRUE])
  /\ UNCHANGED <<alive, starts, screen, viewer>>

\* Mutant: a session not listed loses its poller whoever holds it.
HeldOrNot(rec) == TRUE

\* A tab open on a dead session keeps its pane, to be told of the end.
Unheld(rec) == rec.refs = 0

\* The poller of one not listed is dropped, unless a tab holds it.
AdoptDrops ==
  /\ adopting = FALSE
  /\ adopting' = None
  /\ IF keyed # None /\ Unheld(pane[keyed])
       THEN /\ pane' = Collected(None, [pane EXCEPT ![keyed] = Shut(keyed)])
            /\ keyed' = None
       ELSE UNCHANGED <<keyed, pane>>
  /\ UNCHANGED <<alive, starts, screen, viewer>>

\* Shutdown, or a crash: the hub begins anew and every socket is gone.
ServerRestarts ==
  /\ keyed' = None /\ adopting' = None
  /\ pane' = [p \in PaneId |-> None]
  /\ viewer' = [v \in Viewer |-> Away]
  /\ UNCHANGED <<alive, starts, screen>>

----------------------------------------------------------------------------
(* The session.                                                             *)

SessionStarts ==
  /\ ~alive /\ starts < MaxStarts /\ screen < MaxDraws
  /\ alive' = TRUE /\ starts' = starts + 1 /\ screen' = screen + 1
  /\ UNCHANGED <<keyed, pane, viewer, adopting>>

Draws ==
  /\ alive /\ screen < MaxDraws
  /\ screen' = screen + 1
  /\ UNCHANGED <<alive, starts, keyed, pane, viewer, adopting>>

SessionEnds ==
  /\ alive /\ alive' = FALSE
  /\ UNCHANGED <<starts, screen, keyed, pane, viewer, adopting>>

Adopts == AdoptLists \/ AdoptEnsures \/ AdoptDrops

Socket(v) == Sends(v) \/ TellsEnd(v) \/ Drained(v)

WatchOn(v) ==
  \/ WatchHolds(v) \/ WatchCaptures(v) \/ WatchApplies(v)
  \/ WatchFails(v) \/ WatchJoins(v)

Next ==
  \/ SessionStarts
  \/ Draws
  \/ SessionEnds
  \/ \E v \in Viewer : WatchAsks(v) \/ WatchOn(v) \/ Socket(v) \/ Leaves(v)
  \/ \E p \in PaneId : Polls(p) \/ LingerRuns(p)
  \/ Adopts
  \/ ServerRestarts

Spec == Init /\ [][Next]_vars

\* Tickers run on, a timer that is set fires, a socket takes what is in its channel,
\* and tmux does not fail for ever.
FairSpec ==
  /\ Spec
  /\ WF_vars(Adopts)
  /\ \A p \in PaneId : WF_vars(Polls(p)) /\ WF_vars(LingerRuns(p))
  /\ \A v \in Viewer : WF_vars(Socket(v)) /\ WF_vars(Idles(v)) /\ WF_vars(WatchOn(v))

----------------------------------------------------------------------------
(* Properties.                                                              *)

Holds(v, p) == viewer[v].pane = p

\* Panes and attachments are of their kinds; a pane counts the tabs that hold it,
\* and a channel nobody holds is in no pane.
TypeOK ==
  /\ alive \in BOOLEAN /\ starts \in 0..MaxStarts /\ screen \in 0..MaxDraws
  /\ keyed \in PaneId \cup {None} /\ adopting \in BOOLEAN \cup {None}
  /\ \A p \in PaneId : Exists(p) =>
       /\ pane[p] \in PaneState
       /\ pane[p].refs = Cardinality({v \in Viewer : Holds(v, p)})
       /\ \A v \in pane[p].subs : Holds(v, p) /\ viewer[v].at = "open"
  /\ \A v \in Viewer : viewer[v] \in Attachment /\ Len(viewer[v].queue) <= Buffer

Latest(v) ==
  IF viewer[v].queue = << >> THEN viewer[v].sees ELSE viewer[v].queue[Len(viewer[v].queue)]

\* A tab is never quietly behind: what it shows or is about to show is the last
\* thing its pane said, the end included, unless the pane spoke in the gap between
\* the tab's own reading and its joining, and then only until it speaks again.  One
\* that cannot keep up is dropped, and told so by the close (Watch, broadcast).
KeepsUp ==
  \A p \in PaneId : Exists(p) =>
    \A v \in pane[p].subs : viewer[v].missed \/ Latest(v) = pane[p].last

\* The pane a tab holds is read until its session ends, whichever timers fire and
\* whichever lists are stale: linger and adoption never take a reader from under a
\* tab (Close, adopt, ensureLocked).
HeldPaneIsPolled ==
  \A p \in PaneId : Exists(p) /\ pane[p].refs > 0 /\ ~pane[p].ended => pane[p].running

\* Watching, which the update sweep asks.
Watching == keyed # None /\ pane[keyed].refs > 0

\* Watching sees a tab whose channel is read ("whether any viewer is holding this
\* session open", so that no session is "restarted under them"): what the code means
\* to do.  The linger timer of a poller that was replaced takes the new one out of
\* the map.
WatchingSeesViewers ==
  (\E p \in PaneId : Exists(p) /\ ~pane[p].ended /\ pane[p].subs # {}) => Watching

Polled == keyed # None /\ pane[keyed].pinned /\ pane[keyed].running /\ ~pane[keyed].ended

\* Bound: the hub has to begin a poller and every one the model has is in use.
Cramped ==
  /\ keyed = None \/ pane[keyed].ended
  /\ \A p \in PaneId : Exists(p)

\* A session that stays has a poller of its own in the end, whatever was kept from
\* the one before it: the poller that ended with that one is replaced, and when a
\* late timer or a stale list takes the poller out of the map, to run on beside it,
\* the hub begins another (Supervise).
SessionsArePolled ==
  <>[](alive /\ ~Cramped) => <>[]Polled \/ []<><<ServerRestarts>>_vars
=============================================================================
