--------------------------- MODULE SessionProofs ---------------------------
(***************************************************************************)
(* Proofs about Session, for any tokens, connections, tabs, calls, texts,  *)
(* dialogs and times.  Each of its parts has an inductive invariant of its *)
(* own; Session leaves a part alone or takes one of its steps.             *)
(***************************************************************************)
EXTENDS Session, WellFoundedInduction, TLAPS

\* Of some numbers, one comes first.
LEMMA FirstOf ==
  ASSUME NEW T \in SUBSET Nat, T # {}
  PROVE  \E x \in T : \A y \in T : x <= y
<1> DEFINE Before == OpToRel(<, Nat)
<1>1. \E x \in T : \A y \in T : ~(<<y, x>> \in Before)
  BY WFMin, NatLessThanWellFounded, Zenon
<1>2. \A x, y \in Nat : y < x => <<y, x>> \in Before
  BY DEF OpToRel
<1> HIDE DEF Before
<1>3. PICK x \in T : \A y \in T : ~(<<y, x>> \in Before)
  BY <1>1
<1>4. \A y \in T : ~(y < x)
  BY <1>2, <1>3, Zenon
<1>5. QED
  BY <1>3, <1>4

----------------------------------------------------------------------------
(* The guard: what a request has passed on its way its caller had.          *)

GuardInv ==
  /\ request \in [Conn -> Request \cup {Absent}]
  /\ \A c \in Conn :
       /\ At(c, "person") => request[c].path # "public"
       /\ At(c, "role") => request[c].path # "public" /\ "signed" \in had[c]
  /\ LetInByRight

LEMMA GuardInitInv == GuardInit => GuardInv
  BY DEF GuardInit, GuardInv, LetInByRight, At

\* What a request has had it keeps while it lasts, and what its caller has
\* now it has had.
LEMMA HadGrows ==
  ASSUME Remembered, NEW c \in Conn, request'[c] # Absent,
         NEW k \in Token \cup {Absent}, request'[c].bearer = k
  PROVE  had'[c] = had[c] \cup Entitled(k)'
<1>1. Entitlements'[k] = Entitled(k)'
  BY DEF Entitlements
<1>2. QED
  BY <1>1 DEF Remembered

\* A step that lets requests be keeps what they have passed.
LEMMA GuardKept ==
  ASSUME GuardInv, Remembered, UNCHANGED request
  PROVE  GuardInv'
<1>1. ASSUME NEW c \in Conn, request[c] # Absent
      PROVE  had[c] \subseteq had'[c]
  <2>1. request[c].bearer \in Token \cup {Absent}
    BY <1>1 DEF GuardInv, Request
  <2>2. QED
    BY <1>1, <2>1, HadGrows
<1>2. QED
  BY <1>1 DEF GuardInv, LetInByRight, At

\* A request that goes on: the others are as they were, and what this one has
\* reached is a matter of what its caller has.
LEMMA GuardGoes ==
  ASSUME GuardInv, NEW c \in Conn, NEW at \in {"person", "role", "tool", "served", "refused"},
         request[c] # Absent, GoesTo(c, at),
         LET r == request[c]
             now == had[c] \cup Entitled(r.bearer)
         IN  /\ at \in {"person", "role"} => r.path # "public"
             /\ at = "role" => "signed" \in now
             /\ at = "tool" => r.path = "mcp" /\ "tool" \in now
             /\ at = "served" =>
                  \/ r.path = "public"
                  \/ /\ "signed" \in now
                     /\ \/ "owner" \in now
                        \/ "reader" \in now /\ OfAReader(r)
  PROVE  GuardInv'
<1>1. request[c] \in Request
  BY DEF GuardInv
<1>2. /\ request' = [request EXCEPT ![c] = [request[c] EXCEPT !.at = at]]
      /\ [request[c] EXCEPT !.at = at] \in Request
  BY <1>1 DEF GoesTo, Request
<1>3. request' \in [Conn -> Request \cup {Absent}]
  BY <1>2 DEF GuardInv
<1>4. ASSUME NEW b \in Conn, b # c, request[b] # Absent
      PROVE  request'[b] = request[b] /\ had[b] \subseteq had'[b]
  <2>1. request'[b] = request[b] /\ request[b].bearer \in Token \cup {Absent}
    BY <1>2, <1>4 DEF GuardInv, Request
  <2>2. QED
    BY <1>4, <2>1, HadGrows DEF GoesTo
<1>5. ASSUME NEW b \in Conn, b # c
      PROVE  request'[b] = request[b]
  BY <1>2, <1>5 DEF GuardInv
<1>6. /\ request'[c].at = at /\ request'[c].path = request[c].path
      /\ request'[c].method = request[c].method /\ request'[c].bearer = request[c].bearer
  BY <1>1, <1>2 DEF GuardInv, Request
<1>7. request'[c] # Absent => had'[c] = had[c] \cup Entitled(request[c].bearer)
  <2>1. PICK k \in Token \cup {Absent} : request[c].bearer = k
    BY <1>1 DEF Request
  <2>2. Entitled(k)' = Entitled(k)
    BY DEF GoesTo, Entitled, ByToken, Live
  <2>3. QED
    BY <1>6, <2>1, <2>2, HadGrows DEF GoesTo
<1>8. /\ At(c, "person")' => request'[c].path # "public"
      /\ At(c, "role")' => request'[c].path # "public" /\ "signed" \in had'[c]
  BY <1>6, <1>7 DEF At
<1>9. /\ At(c, "tool")' => request'[c].path = "mcp" /\ "tool" \in had'[c]
      /\ At(c, "served")' =>
           \/ request'[c].path = "public"
           \/ /\ "signed" \in had'[c]
              /\ \/ "owner" \in had'[c]
                 \/ "reader" \in had'[c] /\ OfAReader(request'[c])
  BY <1>6, <1>7 DEF At, OfAReader
<1>10. QED
  BY <1>3, <1>4, <1>5, <1>8, <1>9 DEF GuardInv, LetInByRight, At

\* A connection whose request is over, or has just come.
LEMMA GuardResets ==
  ASSUME GuardInv, Remembered, NEW c \in Conn, NEW r \in Request \cup {Absent},
         r # Absent => r.at = "came", request' = [request EXCEPT ![c] = r]
  PROVE  GuardInv'
<1>1. request' \in [Conn -> Request \cup {Absent}] /\ request'[c] = r
  BY DEF GuardInv
<1>2. ASSUME NEW b \in Conn, b # c
      PROVE  request'[b] = request[b] /\ (request[b] # Absent => had[b] \subseteq had'[b])
  <2>1. request'[b] = request[b]
    BY <1>2 DEF GuardInv
  <2>2. request[b] # Absent => request[b].bearer \in Token \cup {Absent}
    BY DEF GuardInv, Request
  <2>3. QED
    BY <2>1, <2>2, HadGrows
<1>3. QED
  BY <1>1, <1>2 DEF GuardInv, LetInByRight, At

LEMMA GuardStep ==
  ASSUME GuardInv, GuardNext
  PROVE  GuardInv'
<1>1. ASSUME NEW k \in Token, Revoke(k)
      PROVE  GuardInv'
  BY <1>1, GuardKept DEF Revoke
<1>2. ASSUME NEW k \in Token, NEW expires \in 0..MaxTime, NEW here \in BOOLEAN, Issue(k, expires, here)
      PROVE  GuardInv'
  BY <1>2, GuardKept DEF Issue
<1>3. CASE TimePasses
  BY <1>3, GuardKept DEF TimePasses
<1>4. CASE PeopleChange
  BY <1>4, GuardKept DEF PeopleChange
<1>5. ASSUME NEW c \in Conn, NEW path \in Paths, NEW method \in Methods, NEW bearer \in Token \cup {Absent},
             Arrive(c, path, method, bearer)
      PROVE  GuardInv'
  <2>1. [path |-> path, method |-> method, bearer |-> bearer, at |-> "came"] \in Request
    BY DEF Request
  <2>2. QED
    BY <1>5, <2>1, GuardResets DEF Arrive
<1>6. ASSUME NEW c \in Conn, Wrap(c)
      PROVE  GuardInv'
  <2>1. request[c] \in Request /\ request[c] # Absent
    BY <1>6 DEF Wrap, At, GuardInv
  <2>2. CASE request[c].path = "public"
    BY <1>6, <2>1, <2>2, GuardGoes DEF Wrap
  <2>3. CASE request[c].path # "public" /\ (request[c].path # "mcp" \/ ~ByToken(request[c].bearer))
    BY <1>6, <2>1, <2>3, GuardGoes DEF Wrap
  <2>4. CASE request[c].path = "mcp" /\ ByToken(request[c].bearer) /\ issued[request[c].bearer].here
    <3>1. "tool" \in Entitled(request[c].bearer)
      BY <2>4 DEF Entitled
    <3>2. GoesTo(c, "tool")
      BY <1>6, <2>4 DEF Wrap
    <3>3. QED
      BY <2>1, <2>4, <3>1, <3>2, GuardGoes
  <2>5. CASE request[c].path = "mcp" /\ ByToken(request[c].bearer) /\ ~issued[request[c].bearer].here
    <3>1. GoesTo(c, "refused")
      BY <1>6, <2>5 DEF Wrap
    <3>2. QED
      BY <2>1, <3>1, GuardGoes
  <2>6. QED
    BY <2>2, <2>3, <2>4, <2>5
<1>7. ASSUME NEW c \in Conn, AskPerson(c)
      PROVE  GuardInv'
  <2>1. request[c] \in Request /\ request[c] # Absent /\ request[c].path # "public"
    BY <1>7 DEF AskPerson, At, GuardInv
  <2>2. signed => "signed" \in Entitled(request[c].bearer)
    BY DEF Entitled
  <2>3. QED
    BY <1>7, <2>1, <2>2, GuardGoes DEF AskPerson
<1>8. ASSUME NEW c \in Conn, AskRole(c)
      PROVE  GuardInv'
  <2>1. /\ request[c] \in Request /\ request[c] # Absent
        /\ request[c].path # "public" /\ "signed" \in had[c]
    BY <1>8 DEF AskRole, At, GuardInv
  <2>2. role \in Entitled(request[c].bearer)
    BY DEF Entitled
  <2>3. CASE role \in Roles /\ (WritesOrTypes(request[c]) => role = "owner" \/ Holds(request[c]))
    <3>1. GoesTo(c, "served")
      BY <1>8, <2>3 DEF AskRole
    <3>2. CASE role = "owner"
      BY <2>1, <2>2, <3>1, <3>2, GuardGoes
    <3>3. CASE role = "reader"
      <4>1. OfAReader(request[c])
        BY <2>3, <3>3 DEF WritesOrTypes, Holds, OfAReader
      <4>2. QED
        BY <2>1, <2>2, <3>1, <3>3, <4>1, GuardGoes
    <3>4. QED
      BY <2>3, <3>2, <3>3 DEF Roles
  <2>4. CASE ~(role \in Roles /\ (WritesOrTypes(request[c]) => role = "owner" \/ Holds(request[c])))
    <3>1. GoesTo(c, "refused")
      BY <1>8, <2>4 DEF AskRole
    <3>2. QED
      BY <2>1, <3>1, GuardGoes
  <2>5. QED
    BY <2>3, <2>4
<1>9. ASSUME NEW c \in Conn, Recheck(c) \/ Finish(c)
      PROVE  GuardInv'
  BY <1>9, GuardResets DEF Recheck, Finish
<1>10. QED
  BY <1>1, <1>2, <1>3, <1>4, <1>5, <1>6, <1>7, <1>8, <1>9 DEF GuardNext

\* Whoever is let in had the right to it while the request lasted, for any
\* tokens, any lifetimes and any number of requests at once.
THEOREM LetInRightly == Spec => []LetInByRight
<1>1. Init => GuardInv
  BY GuardInitInv DEF Init
<1>2. GuardInv /\ [Next]_vars => GuardInv'
  <2>1. GuardInv /\ UNCHANGED guardVars => GuardInv'
    BY DEF GuardInv, guardVars, LetInByRight, At
  <2>2. [Next]_vars => GuardNext \/ UNCHANGED guardVars
    BY DEF Next, vars
  <2>3. QED
    BY <2>1, <2>2, GuardStep
<1>3. GuardInv => LetInByRight
  BY DEF GuardInv
<1>4. QED
  BY <1>1, <1>2, <1>3, PTL DEF Spec
----------------------------------------------------------------------------
(* The gate: a decision on its way, in a tab, in a file or taken, is one    *)
(* that was pressed for the call it is about.                               *)

GateInv ==
  /\ GateTypeOK
  /\ \A c \in Call : answer[c] # None => answer[c] \in pressed[c]
  /\ \A t \in Tab : tab[t].press # None => tab[t].press.decision \in pressed[tab[t].press.call]
  /\ DecidedByPress

LEMMA GateInitInv == GateInit => GateInv
  BY GateNone DEF GateInit, GateInv, GateTypeOK, DecidedByPress, HookState, AskFile, TabState, Closed,
       Decision

\* There is an oldest among the calls held.
LEMMA HeldTyped ==
  ASSUME GateTypeOK
  PROVE  Held \in Call \cup {None}
<1>1. CASE \E c \in Call : ask[c] = "held"
  <2> DEFINE T == {c \in Call : ask[c] = "held"}
  <2>1. T \in SUBSET Nat /\ T # {}
    BY <1>1, GateAssumption DEF Call
  <2>2. PICK c \in T : \A b \in T : c <= b
    BY <2>1, FirstOf
  <2>3. \A b \in 1..(c - 1) : ask[b] # "held"
    BY <2>1, <2>2, GateAssumption DEF Call
  <2>4. QED
    BY <1>1, <2>2, <2>3 DEF Held
<1>2. CASE ~\E c \in Call : ask[c] = "held"
  BY <1>2 DEF Held
<1>3. QED
  BY <1>1, <1>2

\* Reading the asks removes what is past its timeout, answers and all.
LEMMA ListsKeeps ==
  ASSUME GateInv, Lists
  PROVE  /\ ask' \in [Call -> AskFile]
         /\ answer' \in [Call -> Decision \cup {None}]
         /\ \A c \in Call : answer'[c] # None => answer'[c] \in pressed[c]
  BY DEF Lists, GateInv, GateTypeOK, Expired, AnswersLeft, AskFile

\* Steps of the hook and of the CLI write no tab and press nothing.
LEMMA HookStep ==
  ASSUME GateInv, UNCHANGED <<tab, pressed>>, GateTypeOK',
         \A c \in Call : answer'[c] # None => answer'[c] = answer[c],
         \A c \in Call : outcome'[c] \in Decision => outcome'[c] \in {outcome[c], answer[c]}
  PROVE  GateInv'
<1>1. ASSUME NEW c \in Call, outcome'[c] \in Decision
      PROVE  outcome'[c] \in pressed[c]
  <2>1. CASE outcome'[c] = outcome[c]
    BY <1>1, <2>1 DEF GateInv, DecidedByPress
  <2>2. CASE outcome'[c] = answer[c]
    BY <1>1, <2>2, GateNone DEF GateInv, Decision
  <2>3. QED
    BY <1>1, <2>1, <2>2
<1>2. QED
  BY <1>1 DEF GateInv, DecidedByPress

\* A step of one tab leaves it in a state of its kind.
LEMMA TabStep ==
  ASSUME GateInv, NEW t \in Tab, NEW s \in TabState, tab' = [tab EXCEPT ![t] = s],
         s.shown \in {None, s.last},
         s.press # None => s.press.decision \in pressed'[s.press.call],
         ask' \in [Call -> AskFile],
         answer' \in [Call -> Decision \cup {None}],
         \A c \in Call : answer'[c] # None => answer'[c] \in pressed'[c],
         pressed' \in [Call -> SUBSET Decision],
         \A c \in Call : pressed[c] \subseteq pressed'[c],
         UNCHANGED <<running, hook, outcome>>
  PROVE  GateInv'
<1>1. tab' \in [Tab -> TabState] /\ tab'[t] = s /\ \A u \in Tab : u # t => tab'[u] = tab[u]
  BY DEF GateInv, GateTypeOK
<1>2. GateTypeOK'
  BY <1>1 DEF GateInv, GateTypeOK
<1>3. ASSUME NEW u \in Tab, tab'[u].press # None
      PROVE  tab'[u].press.decision \in pressed'[tab'[u].press.call]
  <2>1. CASE u = t
    BY <1>1, <1>3, <2>1
  <2>2. CASE u # t
    <3>1. tab[u].press.call \in Call /\ tab[u].press.decision \in pressed[tab[u].press.call]
      BY <1>1, <1>3, <2>2 DEF GateInv, GateTypeOK, TabState, Press
    <3>2. QED
      BY <1>1, <2>2, <3>1
  <2>3. QED
    BY <2>1, <2>2
<1>4. DecidedByPress'
  BY DEF GateInv, DecidedByPress
<1>5. QED
  BY <1>2, <1>3, <1>4 DEF GateInv

LEMMA GateStep ==
  ASSUME GateInv, GateNext
  PROVE  GateInv'
<1> USE DEF GateInv
<1>1. ASSUME NEW c \in Call, Raise(c)
      PROVE  GateInv'
  <2>1. GateTypeOK'
    BY <1>1 DEF Raise, GateTypeOK, HookState, AskFile
  <2>2. QED
    BY <1>1, <2>1, HookStep DEF Raise
<1>2. ASSUME NEW c \in Call, TakeAnswer(c)
      PROVE  GateInv'
  <2>1. GateTypeOK'
    BY <1>2 DEF TakeAnswer, GateTypeOK, HookState
  <2>2. \A b \in Call : outcome'[b] \in {outcome[b], answer[b]}
    BY <1>2 DEF TakeAnswer, GateTypeOK
  <2>3. QED
    BY <1>2, <2>1, <2>2, HookStep DEF TakeAnswer
<1>3. ASSUME NEW c \in Call, Leave(c)
      PROVE  GateInv'
  <2>1. GateTypeOK'
    BY <1>3 DEF Leave, GateTypeOK, HookState, AskFile
  <2>2. \A b \in Call : answer'[b] # None => answer'[b] = answer[b]
    BY <1>3 DEF Leave, GateTypeOK
  <2>3. QED
    BY <1>3, <2>1, <2>2, HookStep DEF Leave
<1>4. ASSUME NEW c \in Call, Kill(c)
      PROVE  GateInv'
  <2>1. GateTypeOK'
    BY <1>4 DEF Kill, GateTypeOK, HookState
  <2>2. \A b \in Call : outcome'[b] \in Decision => outcome'[b] = outcome[b]
    BY <1>4 DEF Kill, GateTypeOK, Decision
  <2>3. QED
    BY <1>4, <2>1, <2>2, HookStep DEF Kill
<1>5. ASSUME NEW c \in Call, Ages(c)
      PROVE  GateInv'
  <2>1. GateTypeOK'
    BY <1>5 DEF Ages, GateTypeOK, AskFile
  <2>2. QED
    BY <1>5, <2>1, HookStep DEF Ages
<1>6. CASE SessionEnds
  <2>1. GateTypeOK'
    BY <1>6 DEF SessionEnds, GateTypeOK, HookState
  <2>2. \A b \in Call : outcome'[b] \in Decision => outcome'[b] = outcome[b]
    BY <1>6 DEF SessionEnds, GateTypeOK, Decision
  <2>3. QED
    BY <1>6, <2>1, <2>2, HookStep DEF SessionEnds
<1>7. CASE SessionStarts \/ ForgetsHeld
  <2>1. GateTypeOK'
    BY <1>7 DEF SessionStarts, ForgetsHeld, GateTypeOK, AskFile
  <2>2. \A b \in Call : answer'[b] = None
    BY <1>7 DEF SessionStarts, ForgetsHeld
  <2>3. QED
    BY <1>7, <2>1, <2>2, HookStep DEF SessionStarts, ForgetsHeld
<1>8. ASSUME NEW t \in Tab, Opens(t)
      PROVE  GateInv'
  <2>1. [Closed EXCEPT !.open = TRUE, !.shown = Held, !.last = Held] \in TabState
    BY HeldTyped DEF Closed, TabState
  <2>2. QED
    BY <1>8, <2>1, ListsKeeps, TabStep DEF Opens, Closed, Lists, GateTypeOK
<1>9. ASSUME NEW t \in Tab, Closes(t)
      PROVE  GateInv'
  <2>1. Closed \in TabState
    BY DEF Closed, TabState
  <2>2. QED
    BY <1>9, <2>1, TabStep DEF Closes, Closed, GateTypeOK
<1>10. ASSUME NEW t \in Tab, Tick(t)
       PROVE  GateInv'
  <2>1. tab[t] \in TabState
    BY DEF GateTypeOK
  <2>2. PICK s \in TabState : /\ tab' = [tab EXCEPT ![t] = s]
                              /\ s.shown \in {None, s.last}
                              /\ s.press = tab[t].press
    <3>1. CASE Moved(t)
      <4>1. [tab[t] EXCEPT !.shown = Held, !.last = Held] \in TabState
        BY <2>1, HeldTyped DEF TabState
      <4>2. tab' = [tab EXCEPT ![t] = [tab[t] EXCEPT !.shown = Held, !.last = Held]]
        BY <1>10, <3>1, <2>1 DEF Tick, GateTypeOK
      <4>3. QED
        BY <2>1, <4>1, <4>2 DEF TabState
    <3>2. CASE ~Moved(t)
      <4>1. tab' = [tab EXCEPT ![t] = tab[t]]
        BY <1>10, <3>2 DEF Tick, GateTypeOK
      <4>2. QED
        BY <2>1, <4>1 DEF GateTypeOK
    <3>3. QED
      BY <3>1, <3>2
  <2>3. QED
    BY <1>10, <2>2, ListsKeeps, TabStep DEF Tick, Lists, GateTypeOK
<1>11. ASSUME NEW t \in Tab, Checks(t) \/ Writes(t) \/ WriteFails(t)
       PROVE  GateInv'
  <2>1. tab[t] \in TabState
    BY DEF GateTypeOK
  <2>2. tab[t].press \in Press /\ tab[t].press.decision \in pressed[tab[t].press.call]
    BY <1>11, <2>1 DEF Checks, Writes, WriteFails, TabState
  <2>3. PICK s \in TabState : /\ tab' = [tab EXCEPT ![t] = s]
                              /\ s.shown \in {None, s.last}
                              /\ s.press # None => s.press.decision \in pressed[s.press.call]
    <3>1. CASE tab' = Cleared(t)
      <4>1. [tab[t] EXCEPT !.press = None, !.shown = None] \in TabState
        BY <2>1 DEF TabState
      <4>2. tab' = [tab EXCEPT ![t] = [tab[t] EXCEPT !.press = None, !.shown = None]]
        BY <3>1, <2>1 DEF Cleared, GateTypeOK
      <4>3. QED
        BY <2>1, <4>1, <4>2 DEF TabState
    <3>2. CASE tab' = [tab EXCEPT ![t].press.checked = TRUE]
      <4>1. [tab[t].press EXCEPT !.checked = TRUE] \in Press
        BY <2>2 DEF Press
      <4>2. [tab[t] EXCEPT !.press = [tab[t].press EXCEPT !.checked = TRUE]] \in TabState
        BY <2>1, <4>1 DEF TabState
      <4>3. tab' = [tab EXCEPT ![t] = [tab[t] EXCEPT !.press = [tab[t].press EXCEPT !.checked = TRUE]]]
        BY <3>2, <2>1 DEF GateTypeOK
      <4>4. QED
        BY <2>1, <2>2, <4>1, <4>2, <4>3 DEF TabState, Press, GateTypeOK
    <3>3. QED
      BY <1>11, <3>1, <3>2 DEF Checks, Writes, WriteFails
  <2>4. /\ answer' \in [Call -> Decision \cup {None}]
        /\ \A c \in Call : answer'[c] # None => answer'[c] \in pressed[c]
    <3>1. CASE Writes(t)
      BY <3>1, <2>2 DEF Writes, Answered, Press, GateTypeOK
    <3>2. CASE ~Writes(t)
      BY <1>11, <3>2 DEF Checks, WriteFails, GateTypeOK
    <3>3. QED
      BY <3>1, <3>2
  <2>5. ask' = ask /\ UNCHANGED <<running, hook, outcome, pressed>>
    BY <1>11 DEF Checks, Writes, WriteFails
  <2>6. QED
    BY <2>3, <2>4, <2>5, TabStep DEF GateTypeOK
<1>12. ASSUME NEW t \in Tab, NEW d \in Decision, Presses(t, d)
       PROVE  GateInv'
  <2>1. tab[t] \in TabState /\ tab[t].shown \in Call
    BY <1>12 DEF Presses, GateTypeOK, TabState
  <2>2. PICK p \in Press : p = [call |-> tab[t].shown, decision |-> d, checked |-> FALSE]
    BY <2>1 DEF Press
  <2>3. PICK s \in TabState : s = [tab[t] EXCEPT !.press = p]
    BY <2>1 DEF TabState
  <2>4. tab' = [tab EXCEPT ![t] = s]
    BY <1>12, <2>1, <2>2, <2>3 DEF Presses, GateTypeOK
  <2>5. /\ pressed' \in [Call -> SUBSET Decision]
        /\ \A c \in Call : pressed[c] \subseteq pressed'[c]
        /\ d \in pressed'[tab[t].shown]
    BY <1>12, <2>1 DEF Presses, GateTypeOK
  <2>6. s.shown \in {None, s.last} /\ s.press.decision \in pressed'[s.press.call]
    BY <2>1, <2>2, <2>3, <2>5 DEF TabState, GateTypeOK
  <2>7. \A c \in Call : answer'[c] # None => answer'[c] \in pressed'[c]
    BY <1>12, <2>5 DEF Presses
  <2>8. /\ ask' \in [Call -> AskFile]
        /\ answer' \in [Call -> Decision \cup {None}]
        /\ UNCHANGED <<running, hook, outcome>>
    BY <1>12 DEF Presses, GateTypeOK
  <2>9. QED
    BY <2>4, <2>5, <2>6, <2>7, <2>8, TabStep
<1>13. QED
  BY <1>1, <1>2, <1>3, <1>4, <1>5, <1>6, <1>7, <1>8, <1>9, <1>10, <1>11, <1>12 DEF GateNext, Hook, Carries

\* What the CLI takes for an answer was pressed for that very call, for any
\* number of calls, tabs and devices.
THEOREM PressDecides == Spec => []DecidedByPress
<1>1. Init => GateInv
  BY GateInitInv DEF Init
<1>2. GateInv /\ [Next]_vars => GateInv'
  <2>1. GateInv /\ UNCHANGED gateVars => GateInv'
    BY DEF GateInv, gateVars, GateTypeOK, DecidedByPress
  <2>2. [Next]_vars => GateNext \/ UNCHANGED gateVars
    BY DEF Next, vars
  <2>3. QED
    BY <2>1, <2>2, GateStep
<1>3. GateInv => DecidedByPress
  BY DEF GateInv
<1>4. QED
  BY <1>1, <1>2, <1>3, PTL DEF Spec

----------------------------------------------------------------------------
(* The pane.  Its types first.                                              *)

LEMMA PaneInitTyped == DeliveryInit => DeliveryTypeOK
<1>1. << >> \in Seq(Hand)
  OBVIOUS
<1>2. 0 \in 0..MaxSessions /\ 0 \in 0..MaxDialogs
  BY DeliveryAssumption
<1>3. QED
  BY <1>1, <1>2 DEF DeliveryInit, DeliveryTypeOK

\* A hand that has begun is at another step of the same text.
LEMMA GoesTyped ==
  ASSUME DeliveryTypeOK, NEW h \in Hand, ~Idle(h), NEW at \in Step, Goes(h, at)
  PROVE  job' \in [Hand -> Job \cup {Nobody}]
<1>1. job' = [job EXCEPT ![h] = [job[h] EXCEPT !.at = at]]
  BY DEF Goes, DeliveryTypeOK
<1>2. [job[h] EXCEPT !.at = at] \in Job
  BY DEF DeliveryTypeOK, Job, Idle
<1>3. QED
  BY <1>1, <1>2 DEF DeliveryTypeOK

LEMMA ClearTyped ==
  ASSUME DeliveryTypeOK, NEW h \in Hand, ~Idle(h),
         \E at \in Step : job' = [job EXCEPT ![h].at = at, ![h].looked = drawn]
  PROVE  job' \in [Hand -> Job \cup {Nobody}]
<1>1. PICK at \in Step : job' = [job EXCEPT ![h].at = at, ![h].looked = drawn]
  OBVIOUS
<1>2. job' = [job EXCEPT ![h] = [job[h] EXCEPT !.at = at, !.looked = drawn]]
  BY <1>1 DEF DeliveryTypeOK
<1>3. [job[h] EXCEPT !.at = at, !.looked = drawn] \in Job
  BY DEF DeliveryTypeOK, Job, Idle
<1>4. QED
  BY <1>2, <1>3 DEF DeliveryTypeOK

LEMMA PaneTypeStep ==
  ASSUME DeliveryTypeOK, DeliveryNext
  PROVE  DeliveryTypeOK'
<1>1. ASSUME NEW kind \in Kind, DrawsDialog(kind)
      PROVE  DeliveryTypeOK'
  <2>1. drawn' \in 1..MaxDialogs /\ [n |-> drawn', kind |-> kind] \in Dialog
    BY <1>1, DeliveryAssumption DEF DrawsDialog, DeliveryTypeOK, Dialog
  <2>2. QED
    BY <1>1, <2>1 DEF DrawsDialog, DeliveryTypeOK
<1>2. << >> \in Seq(Hand)
  OBVIOUS
<1>3. CASE DialogGoes
  BY <1>3 DEF DialogGoes, DeliveryTypeOK
<1>4. CASE SessionGoes
  BY <1>2, <1>4 DEF SessionGoes, DeliveryTypeOK
<1>5. CASE SessionComes
  <2>1. session' \in 0..MaxSessions
    BY <1>5, DeliveryAssumption DEF SessionComes, DeliveryTypeOK
  <2>2. QED
    BY <1>5, <2>1 DEF SessionComes, DeliveryTypeOK
<1>6. ASSUME NEW h \in Hand, NEW op \in {"answer", "message"}, NEW lines \in BOOLEAN, Begin(h, op, lines)
      PROVE  DeliveryTypeOK'
  <2>1. [op |-> op, at |-> IF op = "answer" THEN "look" ELSE "ready", looked |-> 0,
         blind |-> FALSE, lines |-> lines] \in Job
    BY DeliveryAssumption DEF Job, Step
  <2>2. QED
    BY <1>6, <2>1 DEF Begin, DeliveryTypeOK
<1>7. ASSUME NEW h \in Hand, Look(h)
      PROVE  DeliveryTypeOK'
  <2>1. job' \in [Hand -> Job \cup {Nobody}]
    BY <1>7, GoesTyped, ClearTyped DEF Look, Refuses, Clear, Step
  <2>2. QED
    BY <1>7, <2>1 DEF Look, DeliveryTypeOK
<1>8. ASSUME NEW h \in Hand, LookFails(h)
      PROVE  DeliveryTypeOK'
  <2>1. [job[h] EXCEPT !.at = "ready", !.blind = TRUE] \in Job
    BY <1>8 DEF LookFails, DeliveryTypeOK, Job, Step, Idle
  <2>2. job' = [job EXCEPT ![h] = [job[h] EXCEPT !.at = "ready", !.blind = TRUE]]
    BY <1>8 DEF LookFails, DeliveryTypeOK
  <2>3. QED
    BY <1>8, <2>1, <2>2 DEF LookFails, DeliveryTypeOK
<1>9. ASSUME NEW h \in Hand, Dismiss(h)
      PROVE  DeliveryTypeOK'
  <2>1. job' \in [Hand -> Job \cup {Nobody}]
    BY <1>9, GoesTyped DEF Dismiss, Refuses, Step
  <2>2. box' \in Seq(Hand) /\ (up => dialog' \in {Nobody}) /\ (~up => dialog' = dialog /\ box' = box)
    BY <1>9 DEF Dismiss, DeliveryTypeOK
  <2>3. QED
    BY <1>9, <2>1, <2>2 DEF Dismiss, DeliveryTypeOK
<1>10. ASSUME NEW h \in Hand, DismissFails(h) \/ AwaitGone(h) \/ GivesUp(h)
      PROVE  DeliveryTypeOK'
  <2>1. job' \in [Hand -> Job \cup {Nobody}]
    BY <1>10, GoesTyped, ClearTyped DEF DismissFails, AwaitGone, GivesUp, Refuses, Clear, Step
  <2>2. QED
    BY <1>10, <2>1 DEF DismissFails, AwaitGone, GivesUp, DeliveryTypeOK
<1>11. ASSUME NEW h \in Hand, Ready(h)
      PROVE  DeliveryTypeOK'
  <2>1. job' \in [Hand -> Job \cup {Nobody}]
    BY <1>11, GoesTyped DEF Ready, Refuses, Step
  <2>2. QED
    BY <1>11, <2>1 DEF Ready, BufferOf, DeliveryTypeOK
<1>12. ASSUME NEW h \in Hand, Insert(h)
      PROVE  DeliveryTypeOK'
  <2>1. job' \in [Hand -> Job \cup {Nobody}]
    BY <1>12, GoesTyped DEF Insert, Refuses, Step
  <2>2. buffer' \in [Hand -> Hand \cup {Nobody}]
    BY <1>12 DEF Insert, DeliveryTypeOK
  <2>3. Text(h) \in Hand \cup {Nobody}
    BY DEF Text, BufferOf, DeliveryTypeOK
  <2>4. ASSUME Text(h) \in Hand
        PROVE  /\ Append(box, Text(h)) \in Seq(Hand)
               /\ [by |-> h, text |-> Text(h), sent |-> FALSE] \in [by : Hand, text : Hand, sent : BOOLEAN]
    BY <2>4 DEF DeliveryTypeOK
  <2>5. /\ box' = box \/ (up /\ Text(h) \in Hand /\ box' = Append(box, Text(h)))
        /\ put' = put \/ (Text(h) \in Hand /\ put' = put \cup {[by |-> h, text |-> Text(h), sent |-> FALSE]})
    BY <1>12, <2>3 DEF Insert
  <2>6. QED
    BY <1>12, <2>1, <2>2, <2>4, <2>5 DEF Insert, DeliveryTypeOK
<1>13. ASSUME NEW h \in Hand, Enter(h)
      PROVE  DeliveryTypeOK'
  <2>1. job' \in [Hand -> Job \cup {Nobody}]
    BY <1>13, GoesTyped DEF Enter, EnterFails, Refuses, Step
  <2>2. ASSUME NEW p \in put
        PROVE  [p EXCEPT !.sent = @ \/ \E i \in DOMAIN box : box[i] = p.text] \in [by : Hand, text : Hand, sent : BOOLEAN]
    BY DEF DeliveryTypeOK
  <2>3. put' \subseteq [by : Hand, text : Hand, sent : BOOLEAN]
    BY <1>13, <2>2 DEF Enter, DeliveryTypeOK
  <2>4. /\ box' = box \/ (up /\ box' = << >>)
        /\ dialog' = dialog \/ (up /\ dialog' = Nobody)
    BY <1>13 DEF Enter
  <2>5. QED
    BY <1>2, <1>13, <2>1, <2>3, <2>4 DEF Enter, DeliveryTypeOK
<1>14. ASSUME NEW h \in Hand, Breaks(h)
       PROVE  DeliveryTypeOK'
  <2>1. job' \in [Hand -> Job \cup {Nobody}]
    BY <1>14, GoesTyped DEF Breaks, Refuses, Step
  <2>2. QED
    BY <1>14, <2>1 DEF Breaks, BufferOf, DeliveryTypeOK
<1>15. QED
  BY <1>1, <1>6, <1>7, <1>8, <1>9, <1>10, <1>11, <1>12, <1>13, <1>14, <1>3, <1>4, <1>5 DEF DeliveryNext

\* What a hand's buffer holds is its own text, or nothing.
OwnInv ==
  /\ DeliveryTypeOK
  /\ \A h \in Hand : buffer[h] \in {h, Nobody}
  /\ OwnText

LEMMA OwnStep ==
  ASSUME OwnInv, DeliveryNext
  PROVE  OwnInv'
<1>1. DeliveryTypeOK'
  BY PaneTypeStep DEF OwnInv
<1>2. CASE UNCHANGED <<buffer, put>>
  BY <1>1, <1>2 DEF OwnInv, OwnText
<1>3. ASSUME NEW h \in Hand, Ready(h) \/ Breaks(h)
      PROVE  OwnInv'
  BY <1>1, <1>3 DEF OwnInv, OwnText, Ready, Breaks, BufferOf, DeliveryTypeOK
<1>4. ASSUME NEW h \in Hand, Insert(h)
      PROVE  OwnInv'
  <2>1. Text(h) \in {h, Nobody}
    BY DEF Text, BufferOf, OwnInv
  <2>2. \A p \in put' : p.by = p.text
    BY <1>4, <2>1 DEF Insert, OwnInv, OwnText
  <2>3. \A g \in Hand : buffer'[g] \in {g, Nobody}
    BY <1>4 DEF Insert, OwnInv, BufferOf, DeliveryTypeOK
  <2>4. QED
    BY <1>1, <2>2, <2>3 DEF OwnInv, OwnText
<1>5. ASSUME NEW h \in Hand, Enter(h)
      PROVE  OwnInv'
  <2>1. ASSUME NEW p \in put
        PROVE  LET q == [p EXCEPT !.sent = @ \/ \E i \in DOMAIN box : box[i] = p.text]
               IN  q.by = p.by /\ q.text = p.text
    BY DEF OwnInv, DeliveryTypeOK
  <2>2. ASSUME NEW q \in put'
        PROVE  q.by = q.text
    <3>1. CASE q \in put
      BY <3>1 DEF OwnInv, OwnText
    <3>2. CASE q \notin put
      <4>1. PICK p \in put : q = [p EXCEPT !.sent = @ \/ \E i \in DOMAIN box : box[i] = p.text]
        BY <1>5, <3>2 DEF Enter
      <4>2. QED
        BY <2>1, <4>1 DEF OwnInv, OwnText
    <3>3. QED
      BY <3>1, <3>2
  <2>3. QED
    BY <1>1, <1>5, <2>2 DEF Enter, OwnInv, OwnText
<1>6. QED
  BY <1>2, <1>3, <1>4, <1>5 DEF DeliveryNext, DrawsDialog, DialogGoes, SessionGoes, SessionComes, Begin, Look,
       LookFails, Dismiss, DismissFails, AwaitGone, GivesUp

\* Whatever is typed at once, a hand puts in its own text, for any number of
\* hands.
THEOREM OwnTexts == Spec => []OwnText
<1>1. Init => OwnInv
  BY PaneInitTyped DEF Init, DeliveryInit, OwnInv, OwnText
<1>2. OwnInv /\ [Next]_vars => OwnInv'
  <2>1. OwnInv /\ UNCHANGED deliveryVars => OwnInv'
    BY DEF OwnInv, deliveryVars, DeliveryTypeOK, OwnText
  <2>2. [Next]_vars => DeliveryNext \/ UNCHANGED deliveryVars
    BY DEF Next, vars
  <2>3. QED
    BY <2>1, <2>2, OwnStep
<1>3. OwnInv => OwnText
  BY DEF OwnInv
<1>4. QED
  BY <1>1, <1>2, <1>3, PTL DEF Spec

\* A hand that is about to type into a dialog, having seen the pane, saw it
\* before that dialog was drawn; or it is about to dismiss the survey it saw.
Unseen(h) ==
  ~Idle(h) =>
    /\ job[h].looked <= drawn
    /\ (job[h].op = "answer" /\ dialog # Nobody) =>
         /\ job[h].at = "key" => dialog.kind = "survey" \/ dialog.n > job[h].looked
         /\ job[h].at \in {"ready", "insert", "enter"} /\ ~job[h].blind => dialog.n > job[h].looked

SeenInv ==
  /\ DeliveryTypeOK
  /\ dialog # Nobody => dialog.n <= drawn
  /\ \A h \in Hand : Unseen(h)
  /\ \A x \in hit : x.by \in Hand /\ ~Idle(x.by)
  /\ NeverIntoSeenDialog

LEMMA SeenInit == DeliveryInit => SeenInv
  BY PaneInitTyped DEF DeliveryInit, SeenInv, Unseen, NeverIntoSeenDialog, Idle

\* A hand under way takes a step, and the dialog, if there is one, takes at most
\* what is this hand's.
LEMMA HandSeen ==
  ASSUME SeenInv, DeliveryTypeOK', NEW h \in Hand, ~Idle(h),
         NEW j \in Job, job' = [job EXCEPT ![h] = j], j.op = job[h].op,
         UNCHANGED drawn, dialog' = dialog \/ dialog' = Nobody,
         \/ hit' = hit
         \/ /\ hit' = hit \cup {Hit(h)}
            /\ job[h].op = "answer" /\ ~job[h].blind => dialog.n > job[h].looked,
         Unseen(h)'
  PROVE  SeenInv'
<1>1. /\ job'[h] = j /\ \A g \in Hand : g # h => job'[g] = job[g]
      /\ \A g \in Hand : ~Idle(g) => ~Idle(g)' /\ job'[g].op = job[g].op
  BY DeliveryNobody DEF SeenInv, DeliveryTypeOK, Idle
<1>2. \A g \in Hand : Unseen(g)'
  <2>1. ASSUME NEW g \in Hand, g # h
        PROVE  Unseen(g)'
    BY <1>1, <2>1 DEF SeenInv, Unseen, Idle
  <2>2. QED
    BY <2>1
<1>3. ASSUME NEW x \in hit'
      PROVE  x.by \in Hand /\ ~Idle(x.by)' /\ (job'[x.by].op = "answer" /\ ~x.blind => x.n > x.looked)
  <2>1. CASE x \in hit
    BY <1>1, <2>1 DEF SeenInv, NeverIntoSeenDialog
  <2>2. CASE x \notin hit
    <3>1. /\ x = [n |-> dialog.n, by |-> h, looked |-> job[h].looked, blind |-> job[h].blind]
          /\ job[h].op = "answer" /\ ~job[h].blind => dialog.n > job[h].looked
      BY <1>3, <2>2 DEF Hit
    <3>2. QED
      BY <1>1, <3>1
  <2>3. QED
    BY <2>1, <2>2
<1>4. QED
  BY <1>2, <1>3 DEF SeenInv, NeverIntoSeenDialog

LEMMA SeenStep ==
  ASSUME SeenInv, DeliveryNext
  PROVE  SeenInv'
<1>1. DeliveryTypeOK /\ DeliveryTypeOK'
  BY PaneTypeStep DEF SeenInv
<1>2. ASSUME NEW kind \in Kind, DrawsDialog(kind)
      PROVE  SeenInv'
  <2>1. dialog' = [n |-> drawn + 1, kind |-> kind] /\ drawn' = drawn + 1 /\ drawn \in Nat
    BY <1>1, <1>2, DeliveryAssumption DEF DrawsDialog, DeliveryTypeOK
  <2>2. \A h \in Hand : ~Idle(h) => job[h] \in Job /\ job[h].looked \in Nat /\ job[h].looked <= drawn
    BY <1>1, DeliveryAssumption DEF SeenInv, Unseen, DeliveryTypeOK, Idle, Job
  <2>3. \A h \in Hand : Unseen(h)'
    BY <1>2, <2>1, <2>2 DEF DrawsDialog, Unseen, Idle
  <2>4. QED
    BY <1>1, <1>2, <2>1, <2>3 DEF DrawsDialog, SeenInv, NeverIntoSeenDialog, Idle
<1>3. CASE DialogGoes \/ SessionGoes \/ SessionComes
  BY <1>1, <1>3 DEF DialogGoes, SessionGoes, SessionComes, SeenInv, Unseen, NeverIntoSeenDialog, Idle
<1>4. ASSUME NEW h \in Hand, NEW op \in {"answer", "message"}, NEW lines \in BOOLEAN, Begin(h, op, lines)
      PROVE  SeenInv'
  <2>1. /\ job'[h] = [op |-> op, at |-> IF op = "answer" THEN "look" ELSE "ready", looked |-> 0,
                      blind |-> FALSE, lines |-> lines]
        /\ \A g \in Hand : g # h => job'[g] = job[g]
    BY <1>1, <1>4 DEF Begin, DeliveryTypeOK
  <2>2. 0 <= drawn
    BY <1>1, DeliveryAssumption DEF DeliveryTypeOK
  <2>3. \A g \in Hand : Unseen(g)'
    BY <1>4, <2>1, <2>2 DEF Begin, SeenInv, Unseen, Idle
  <2>4. \A x \in hit : x.by # h /\ ~Idle(x.by)'
    BY <1>4, <2>1 DEF Begin, SeenInv, Idle
  <2>5. QED
    BY <1>1, <1>4, <2>1, <2>3, <2>4 DEF Begin, SeenInv, NeverIntoSeenDialog
<1>5. ASSUME NEW h \in Hand, NEW at \in Step, ~Idle(h), Goes(h, at), UNCHANGED drawn,
             dialog' = dialog \/ dialog' = Nobody,
             \/ hit' = hit
             \/ /\ hit' = hit \cup {Hit(h)}
                /\ job[h].op = "answer" /\ ~job[h].blind => dialog.n > job[h].looked,
             \/ at \notin {"key", "ready", "insert", "enter"}
             \/ at \in {"ready", "insert", "enter"} /\ job[h].at \in {"ready", "insert", "enter"}
             \/ dialog' = Nobody
      PROVE  SeenInv'
  <2>1. PICK j \in Job : j = [job[h] EXCEPT !.at = at]
    BY <1>1, <1>5 DEF DeliveryTypeOK, Idle, Job
  <2>2. job' = [job EXCEPT ![h] = j] /\ job[h] \in Job
    BY <1>1, <1>5, <2>1 DEF Goes, DeliveryTypeOK, Idle
  <2>3. /\ j.op = job[h].op /\ j.at = at /\ j.looked = job[h].looked /\ j.blind = job[h].blind
        /\ job'[h] = j
    BY <1>1, <2>1, <2>2 DEF Job, DeliveryTypeOK
  <2>4. Unseen(h)'
    BY <1>5, <2>3 DEF SeenInv, Unseen
  <2>5. QED
    BY <1>1, <1>5, <2>2, <2>3, <2>4, HandSeen
<1>6. ASSUME NEW h \in Hand, NEW at \in {"ready", "key"}, ~Idle(h),
             job' = [job EXCEPT ![h].at = at, ![h].looked = drawn],
             UNCHANGED <<drawn, dialog, hit>>,
             at = "ready" => dialog = Nobody,
             at = "key" => dialog.kind = "survey"
      PROVE  SeenInv'
  <2>1. job[h] \in Job /\ drawn \in 0..MaxDialogs /\ at \in Step
    BY <1>1, <1>6 DEF DeliveryTypeOK, Idle, Step
  <2>2. PICK j \in Job : j = [job[h] EXCEPT !.at = at, !.looked = drawn]
    BY <2>1 DEF Job
  <2>3. job' = [job EXCEPT ![h] = j] /\ job[h] \in Job
    BY <1>1, <1>6, <2>2 DEF DeliveryTypeOK, Idle
  <2>4. /\ j.op = job[h].op /\ j.at = at /\ j.looked = drawn /\ job'[h] = j
    BY <1>1, <2>2, <2>3 DEF Job, DeliveryTypeOK
  <2>5. drawn <= drawn
    BY <1>1, DeliveryAssumption DEF DeliveryTypeOK
  <2>6. Unseen(h)'
    BY <1>6, <2>4, <2>5 DEF Unseen
  <2>7. QED
    BY <1>1, <1>6, <2>3, <2>4, <2>6, HandSeen
<1>7. ASSUME NEW h \in Hand, LookFails(h)
      PROVE  SeenInv'
  <2>1. job[h] \in Job
    BY <1>1, <1>7 DEF LookFails, DeliveryTypeOK, Idle
  <2>2. PICK j \in Job : j = [job[h] EXCEPT !.at = "ready", !.blind = TRUE]
    BY <2>1 DEF Job, Step
  <2>3. job' = [job EXCEPT ![h] = j] /\ job[h] \in Job
    BY <1>1, <1>7, <2>2 DEF LookFails, DeliveryTypeOK, Idle
  <2>4. /\ j.op = job[h].op /\ j.at = "ready" /\ j.blind = TRUE /\ j.looked = job[h].looked
        /\ job'[h] = j
    BY <1>1, <2>2, <2>3 DEF Job, DeliveryTypeOK
  <2>5. Unseen(h)'
    BY <1>7, <2>4 DEF LookFails, SeenInv, Unseen
  <2>6. QED
    BY <1>1, <1>7, <2>3, <2>4, <2>5, HandSeen DEF LookFails
<1>8. ASSUME NEW h \in Hand, Look(h)
      PROVE  SeenInv'
  BY <1>5, <1>6, <1>8 DEF Look, Refuses, Clear, Step
<1>9. ASSUME NEW h \in Hand, Dismiss(h)
      PROVE  SeenInv'
  BY <1>5, <1>9 DEF Dismiss, Refuses, Step, SeenInv, Unseen
<1>10. ASSUME NEW h \in Hand, AwaitGone(h)
       PROVE  SeenInv'
  BY <1>5, <1>6, <1>10 DEF AwaitGone, Refuses, Clear, SeenGone, Step
<1>11. ASSUME NEW h \in Hand, DismissFails(h) \/ GivesUp(h) \/ Ready(h) \/ Breaks(h)
       PROVE  SeenInv'
  BY <1>5, <1>11 DEF DismissFails, GivesUp, Ready, Breaks, Refuses, Step
<1>12. ASSUME NEW h \in Hand, Insert(h)
       PROVE  SeenInv'
  BY <1>5, <1>12 DEF Insert, Refuses, Step, SeenInv, Unseen
<1>13. ASSUME NEW h \in Hand, Enter(h)
       PROVE  SeenInv'
  BY <1>5, <1>13 DEF Enter, EnterFails, Refuses, Step, SeenInv, Unseen
<1>14. QED
  BY <1>2, <1>3, <1>4, <1>7, <1>8, <1>9, <1>10, <1>11, <1>12, <1>13 DEF DeliveryNext

\* An answer never falls into a dialog that was there when the pane was last
\* seen clear, for any number of hands, dialogs and sessions.
THEOREM SeenDialogsSpared == Spec => []NeverIntoSeenDialog
<1>1. Init => SeenInv
  BY SeenInit DEF Init
<1>2. SeenInv /\ [Next]_vars => SeenInv'
  <2>1. SeenInv /\ UNCHANGED deliveryVars => SeenInv'
    BY DEF SeenInv, deliveryVars, DeliveryTypeOK, Unseen, Idle, NeverIntoSeenDialog
  <2>2. [Next]_vars => DeliveryNext \/ UNCHANGED deliveryVars
    BY DEF Next, vars
  <2>3. QED
    BY <2>1, <2>2, SeenStep
<1>3. SeenInv => NeverIntoSeenDialog
  BY DEF SeenInv
<1>4. QED
  BY <1>1, <1>2, <1>3, PTL DEF Spec

----------------------------------------------------------------------------
(* The log: an event is written once, so a first line that is the one that  *)
(* was folded belongs to the file that was folded.                          *)

Lines == IF HasLog THEN log.lines ELSE << >>

FoldInv ==
  /\ events \in 0..MaxEvents
  /\ log \in File \cup {Nothing}
  /\ proc \in [Proc -> Writing \cup {Nothing}]
  /\ fold \in Fold \cup {Nothing}
  /\ \A k \in DOMAIN Lines : Lines[k] <= events
  /\ \A h \in Proc : proc[h] # Nothing =>
       /\ proc[h].event <= events
       /\ \A k \in DOMAIN Lines : Lines[k] # proc[h].event
       /\ fold # Nothing => fold.head # proc[h].event
  /\ \A g, h \in Proc :
       g # h /\ proc[g] # Nothing /\ proc[h] # Nothing => proc[g].event # proc[h].event
  /\ fold # Nothing => fold.head <= events /\ (fold.head = 0 => fold.rows = << >>)
  /\ fold # Nothing /\ Lines # << >> /\ fold.head = Lines[1] =>
       /\ Len(fold.rows) <= Len(Lines)
       /\ \A k \in 1..Len(fold.rows) : fold.rows[k] = Lines[k]

LEMMA LinesTyped ==
  ASSUME log \in File \cup {Nothing}
  PROVE  Lines \in Seq(EventNo)
<1>1. << >> \in Seq(EventNo)
  OBVIOUS
<1>2. QED
  BY <1>1 DEF Lines, HasLog, File

\* Folding on what was kept comes to the whole.
LEMMA PrefixGrows ==
  ASSUME NEW L \in Seq(EventNo), NEW K \in Seq(EventNo), Len(K) <= Len(L),
         \A k \in 1..Len(K) : K[k] = L[k]
  PROVE  K \o SubSeq(L, Len(K) + 1, Len(L)) = L
<1> DEFINE M == SubSeq(L, Len(K) + 1, Len(L))
<1>1. Len(K) \in Nat /\ Len(L) \in Nat /\ Len(K) + 1 \in 1..(Len(L) + 1)
  OBVIOUS
<1>2. M \in Seq(EventNo) /\ Len(M) = Len(L) - Len(K)
  BY <1>1
<1>3. \A k \in 1..Len(M) : M[k] = L[Len(K) + k]
  BY <1>1, <1>2
<1> HIDE DEF M
<1>4. K \o M \in Seq(EventNo) /\ Len(K \o M) = Len(L)
  BY <1>1, <1>2
<1>5. \A k \in 1..Len(L) : (K \o M)[k] = L[k]
  BY <1>1, <1>2, <1>3
<1>6. QED
  BY <1>4, <1>5 DEF M

LEMMA ReadIsWhole ==
  ASSUME FoldInv, HasLog
  PROVE  /\ Read \in Fold /\ Read.rows = log.lines
         /\ Read.head = IF Lines = << >> THEN 0 ELSE Lines[1]
<1> DEFINE L == log.lines
           K == IF fold # Nothing /\ Same THEN fold.rows ELSE << >>
<1>1. log \in File /\ L \in Seq(EventNo) /\ Len(L) \in Nat /\ Lines = L
  BY DEF FoldInv, HasLog, File, Lines
<1>2. K \in Seq(EventNo) /\ Len(K) <= Len(L) /\ \A k \in 1..Len(K) : K[k] = L[k]
  <2>1. CASE K = << >>
    <3>1. << >> \in Seq(EventNo) /\ Len(<< >>) = 0
      OBVIOUS
    <3>2. K \in Seq(EventNo) /\ Len(K) = 0
      BY ONLY <2>1, <3>1
    <3>3. QED
      BY <1>1, <3>2
  <2>2. CASE K # << >>
    <3>1. fold # Nothing /\ Same /\ K = fold.rows
      BY <2>2
    <3>2. fold \in Fold /\ fold.rows \in Seq(EventNo) /\ fold.rows # << >>
      BY <2>2, <3>1 DEF FoldInv, Fold
    <3>3. fold.head # 0
      BY <3>1, <3>2 DEF FoldInv
    <3>4. fold.head = L[1] /\ Len(L) >= Len(fold.rows)
      BY <3>1, <3>3 DEF Same
    <3>5. L # << >>
      BY <1>1, <3>2, <3>4
    <3>6. QED
      BY <1>1, <3>1, <3>2, <3>4, <3>5 DEF FoldInv
  <2>3. QED
    BY <2>1, <2>2
<1> HIDE DEF K
<1>3. K \o SubSeq(L, Len(K) + 1, Len(L)) = L
  BY <1>1, <1>2, PrefixGrows
<1> DEFINE d == IF L = << >> THEN 0 ELSE L[1]
<1>4. d \in 0..MaxEvents
  <2>1. L # << >> => L[1] \in EventNo
    BY <1>1
  <2>2. QED
    BY <2>1, SubagentsAssumption DEF EventNo
<1>5. Read = [inode |-> log.inode, head |-> d, rows |-> L]
  BY <1>3 DEF Read, K
<1>6. log.inode \in Inode
  BY <1>1 DEF File
<1>7. QED
  BY <1>1, <1>4, <1>5, <1>6 DEF Fold

\* The fold is made anew from a log that stays as it is.
LEMMA Refolds ==
  ASSUME FoldInv, UNCHANGED <<events, log, proc>>, fold' = Read \/ fold' = Nothing
  PROVE  FoldInv'
<1>1. Lines' = Lines /\ Lines \in Seq(EventNo)
  BY LinesTyped DEF FoldInv, Lines, HasLog
<1>2. CASE fold' = Nothing
  BY <1>1, <1>2 DEF FoldInv
<1>3. CASE fold' = Read /\ fold' # Nothing
  <2>1. HasLog
    BY <1>3 DEF Read
  <2>2. /\ fold' \in Fold /\ fold'.rows = Lines
        /\ fold'.head = IF Lines = << >> THEN 0 ELSE Lines[1]
    BY <1>3, <2>1, ReadIsWhole DEF Lines
  <2>3. Lines # << >> => 1 \in DOMAIN Lines /\ Lines[1] \in EventNo
    BY <1>1
  <2>4. fold'.head <= events /\ (fold'.head = 0 => fold'.rows = << >>)
    BY <2>2, <2>3 DEF FoldInv, EventNo
  <2>5. \A h \in Proc : proc[h] # Nothing => fold'.head # proc[h].event
    <3>1. \A h \in Proc : proc[h] # Nothing => proc[h].event \in EventNo
      BY DEF FoldInv, Writing
    <3>2. \A h \in Proc : proc[h] # Nothing => proc[h].event # 0
      BY <3>1 DEF EventNo
    <3>3. QED
      BY <2>2, <2>3, <3>2 DEF FoldInv
  <2>6. QED
    BY <1>1, <2>2, <2>4, <2>5 DEF FoldInv
<1>4. QED
  BY <1>2, <1>3

LEMMA FoldStep ==
  ASSUME FoldInv, LogNext
  PROVE  FoldInv'
<1>1. Lines \in Seq(EventNo) /\ events \in Nat /\ MaxEvents \in Nat
  BY LinesTyped, SubagentsAssumption DEF FoldInv
<1>2. ASSUME NEW h \in Proc, HookOpens(h)
      PROVE  FoldInv'
  <2>1. PICK i \in InodeFor :
          /\ log' = IF HasLog THEN log ELSE NewFile(i)
          /\ proc' = [proc EXCEPT ![h] =
               [event |-> events', born |-> log'.born, inode |-> i, begun |-> FALSE]]
    BY <1>2 DEF HookOpens
  <2>2. events' = events + 1 /\ events' \in EventNo /\ fold' = fold
    BY <1>1, <1>2 DEF HookOpens, EventNo
  <2>3. i \in Inode
    BY <2>1 DEF InodeFor, FoldInv, HasLog, File
  <2>4. NewFile(i) \in File /\ NewFile(i).lines = << >>
    <3>1. << >> \in Seq(EventNo)
      OBVIOUS
    <3>2. QED
      BY <2>2, <2>3, <3>1 DEF NewFile, File
  <2>5. log' \in File /\ Lines' = Lines
    BY <2>1, <2>4 DEF FoldInv, Lines, HasLog
  <2>6. PICK w \in Writing : w.event = events + 1 /\ proc' = [proc EXCEPT ![h] = w]
    <3>1. log'.born \in EventNo
      BY <2>5 DEF File
    <3>2. QED
      BY <2>1, <2>2, <2>3, <3>1 DEF Writing
  <2>7. /\ proc' \in [Proc -> Writing \cup {Nothing}] /\ proc'[h] = w
        /\ \A g \in Proc : g # h => proc'[g] = proc[g]
    BY <2>6 DEF FoldInv
  <2>8. \A k \in DOMAIN Lines : Lines[k] \in Nat /\ Lines[k] <= events
    BY <1>1 DEF FoldInv, EventNo
  <2>9. \A g \in Proc : proc[g] # Nothing => proc[g].event \in Nat /\ proc[g].event <= events
    BY DEF FoldInv, Writing, EventNo
  <2>10. fold # Nothing => fold.head \in Nat /\ fold.head <= events
    BY DEF FoldInv, Fold
  <2>11. \A g \in Proc : proc'[g] # Nothing =>
           /\ proc'[g].event <= events'
           /\ \A k \in DOMAIN Lines : Lines[k] # proc'[g].event
           /\ fold # Nothing => fold.head # proc'[g].event
    BY <1>1, <2>2, <2>6, <2>7, <2>8, <2>9, <2>10 DEF FoldInv
  <2>12. \A f, g \in Proc :
           f # g /\ proc'[f] # Nothing /\ proc'[g] # Nothing => proc'[f].event # proc'[g].event
    BY <1>1, <2>6, <2>7, <2>9 DEF FoldInv
  <2>13. \A k \in DOMAIN Lines : Lines[k] <= events'
    BY <1>1, <2>2, <2>8
  <2>14. fold # Nothing => fold.head <= events'
    BY <1>1, <2>2, <2>10
  <2>15. events' \in 0..MaxEvents
    BY <1>1, <2>2 DEF EventNo
  <2>16. QED
    BY <2>2, <2>5, <2>7, <2>11, <2>12, <2>13, <2>14, <2>15 DEF FoldInv
<1>3. ASSUME NEW h \in Proc, HookWrites(h)
      PROVE  FoldInv'
  <2>1. events' = events /\ fold' = fold
    BY <1>3 DEF HookWrites
  <2>2. proc[h] \in Writing
    BY <1>3 DEF HookWrites, FoldInv
  <2>3. log' \in File \cup {Nothing} /\ Lines' = Lines
    <3>1. CASE HasOpen(h)
      <4>1. log \in File /\ log' = [log EXCEPT !.torn = TRUE]
        BY <1>3, <3>1 DEF HookWrites, HasOpen, FoldInv, HasLog
      <4>2. log' \in File /\ log'.lines = log.lines
        BY <4>1 DEF File
      <4>3. CASE log' # Nothing
        BY <3>1, <4>2, <4>3 DEF Lines, HasLog, HasOpen
      <4>4. QED
        BY <4>2, <4>3, LogNone
    <3>2. CASE ~HasOpen(h)
      BY <1>3, <3>2 DEF HookWrites, FoldInv, Lines, HasLog
    <3>3. QED
      BY <3>1, <3>2
  <2>4. PICK w \in Writing \cup {Nothing} :
          /\ proc' = [proc EXCEPT ![h] = w]
          /\ w # Nothing => w.event = proc[h].event
    <3>1. PICK u \in Writing : u = proc[h]
      BY <2>2
    <3>2. PICK v \in Writing : v = [u EXCEPT !.begun = TRUE]
      BY DEF Writing
    <3>3. v.event = u.event
      BY <3>2 DEF Writing
    <3>4. proc' = [proc EXCEPT ![h] = v] \/ proc' = [proc EXCEPT ![h] = Nothing]
      BY <1>3, <3>1, <3>2 DEF HookWrites, FoldInv
    <3>5. QED
      BY <3>1, <3>3, <3>4
  <2>5. /\ proc' \in [Proc -> Writing \cup {Nothing}]
        /\ \A g \in Proc : proc'[g] # Nothing => proc[g] # Nothing /\ proc'[g].event = proc[g].event
    BY <1>3, <2>4 DEF FoldInv, HookWrites
  <2>6. QED
    BY <2>1, <2>3, <2>5 DEF FoldInv
<1>4. ASSUME NEW h \in Proc, HookWritten(h)
      PROVE  FoldInv'
  <2>1. events' = events /\ fold' = fold /\ proc' = [proc EXCEPT ![h] = Nothing]
    BY <1>4 DEF HookWritten
  <2>2. PICK w \in Writing : w = proc[h] /\ w # Nothing
    BY <1>4 DEF HookWritten, FoldInv
  <2>3. /\ proc' \in [Proc -> Writing \cup {Nothing}] /\ proc'[h] = Nothing
        /\ \A g \in Proc : g # h => proc'[g] = proc[g]
    BY <2>1 DEF FoldInv
  <2>4. CASE ~HasOpen(h)
    <3>1. log' = log /\ Lines' = Lines
      BY <1>4, <2>4 DEF HookWritten, Lines, HasLog
    <3>2. QED
      BY <2>1, <2>3, <3>1 DEF FoldInv
  <2>5. CASE HasOpen(h)
    <3>1. log \in File /\ log' = [log EXCEPT !.lines = Append(log.lines, w.event), !.torn = FALSE]
      BY <1>4, <2>2, <2>5 DEF HookWritten, HasOpen, FoldInv, HasLog
    <3>2. w.event \in EventNo /\ Lines = log.lines
      BY <2>2, <2>5 DEF Writing, Lines, HasOpen
    <3>3. PICK N \in Seq(EventNo) :
            /\ N = Append(Lines, w.event)
            /\ Len(N) = Len(Lines) + 1 /\ N[Len(N)] = w.event
            /\ \A k \in 1..Len(Lines) : N[k] = Lines[k]
      <4>1. PICK L \in Seq(EventNo) : L = Lines
        BY <1>1
      <4>2. PICK e \in EventNo : e = w.event
        BY <3>2
      <4>3. Append(L, e) \in Seq(EventNo)
        OBVIOUS
      <4>4. PICK N \in Seq(EventNo) : N = Append(L, e)
        BY <4>3
      <4>5. /\ Len(N) = Len(L) + 1 /\ N[Len(L) + 1] = e
            /\ \A k \in 1..Len(L) : N[k] = L[k]
        BY <4>4
      <4>6. QED
        BY <4>1, <4>2, <4>4, <4>5
    <3>4. log' \in File /\ Lines' = N
      <4>1. log' \in File /\ log'.lines = N
        BY <3>1, <3>2, <3>3 DEF File
      <4>2. log' # Nothing
        BY <4>1, LogNone
      <4>3. QED
        BY <4>1, <4>2 DEF Lines, HasLog
    <3>5. \A k \in DOMAIN N : k \in DOMAIN Lines \/ (k = Len(N) /\ N[k] = w.event)
      BY <1>1, <3>3
    <3>6. \A k \in DOMAIN N : N[k] = w.event \/ (k \in DOMAIN Lines /\ N[k] = Lines[k])
      BY <1>1, <3>3, <3>5
    <3>7. \A k \in DOMAIN N : N[k] <= events
      BY <2>2, <3>6 DEF FoldInv
    <3>8. \A g \in Proc : proc'[g] # Nothing =>
            /\ proc'[g].event <= events
            /\ \A k \in DOMAIN N : N[k] # proc'[g].event
            /\ fold # Nothing => fold.head # proc'[g].event
      BY <2>2, <2>3, <3>6 DEF FoldInv
    <3>9. fold # Nothing /\ fold.head = N[1] =>
            /\ Len(fold.rows) <= Len(N)
            /\ \A k \in 1..Len(fold.rows) : fold.rows[k] = N[k]
      <4>1. SUFFICES ASSUME fold # Nothing, fold.head = N[1]
                     PROVE  /\ Len(fold.rows) <= Len(N)
                            /\ \A k \in 1..Len(fold.rows) : fold.rows[k] = N[k]
        OBVIOUS
      <4>2. N[1] # w.event
        BY <2>2, <4>1 DEF FoldInv
      <4>3. Lines # << >> /\ N[1] = Lines[1]
        <5>1. 1 \in DOMAIN N
          BY <1>1, <3>3
        <5>2. QED
          BY <1>1, <3>6, <4>2, <5>1
      <4>4. /\ Len(fold.rows) <= Len(Lines)
            /\ \A k \in 1..Len(fold.rows) : fold.rows[k] = Lines[k]
        BY <4>1, <4>3 DEF FoldInv
      <4>5. fold.rows \in Seq(EventNo)
        BY <4>1 DEF FoldInv, Fold
      <4>6. QED
        BY <1>1, <3>3, <4>4, <4>5
    <3>10. QED
      BY <2>1, <2>3, <3>4, <3>7, <3>8, <3>9 DEF FoldInv
  <2>6. QED
    BY <2>4, <2>5
<1>5. CASE LogForgotten
  <2>1. log' = Nothing /\ UNCHANGED <<events, proc, fold>> /\ Lines' = << >>
    BY <1>5 DEF LogForgotten, Lines, HasLog
  <2>2. DOMAIN << >> = {}
    OBVIOUS
  <2>3. QED
    BY <2>1, <2>2 DEF FoldInv
<1>6. CASE Paints \/ SendsRows \/ SendsNone
  BY <1>6, Refolds DEF Paints, SendsRows, SendsNone
<1>7. CASE Connects \/ SocketDrops \/ PageLeaves \/ LooksAtLog
  <2>1. UNCHANGED <<events, log, proc, fold>>
    BY <1>7 DEF Connects, SocketDrops, PageLeaves, LooksAtLog
  <2>2. QED
    BY <2>1 DEF FoldInv, Lines, HasLog
<1>8. QED
  BY <1>2, <1>3, <1>4, <1>5, <1>6, <1>7 DEF LogNext, SocketTicks

\* The next reading comes to what folding the log from its start would, for
\* any number of hooks, events, inodes and starts.
THEOREM FoldsWhole == Spec => []FoldIsWhole
<1>1. Init => FoldInv
  <2>1. DOMAIN << >> = {}
    OBVIOUS
  <2>2. QED
    BY <2>1, SubagentsAssumption DEF Init, LogInit, FoldInv, Lines, HasLog
<1>2. FoldInv /\ [Next]_vars => FoldInv'
  <2>1. FoldInv /\ UNCHANGED logVars => FoldInv'
    BY DEF FoldInv, logVars, Lines, HasLog
  <2>2. [Next]_vars => LogNext \/ UNCHANGED logVars
    BY DEF Next, vars
  <2>3. QED
    BY <2>1, <2>2, FoldStep
<1>3. FoldInv => FoldIsWhole
  BY ReadIsWhole DEF FoldIsWhole
<1>4. QED
  BY <1>1, <1>2, <1>3, PTL DEF Spec

----------------------------------------------------------------------------
(* The rows: each is fit, whatever event is applied to it.                  *)

Fit(r) ==
  IF r.ended THEN r.said # 0 /\ r.earlier = 0 /\ r.doing = Unset ELSE r.said = 0

FitRows(R) ==
  /\ R \in [Agent -> Row \cup {Unset}]
  /\ \A a \in Agent : R[a] # Unset => Fit(R[a])

Queues == [Type \cup {Unset} -> Seq(Launch)]

FitTable(t) == \E R, Q : t = [rows |-> R, pending |-> Q] /\ FitRows(R) /\ Q \in Queues

RowsInv == clock \in Nat /\ logged \in Nat /\ FitTable(table)

LEMMA FreshTyped ==
  ASSUME NEW q \in Seq(Launch), NEW at \in Nat
  PROVE  Fresh(q, at) \in Seq(Launch)
<1>1. CASE \A i \in DOMAIN q : Stale(q[i], at)
  <2>1. << >> \in Seq(Launch)
    OBVIOUS
  <2>2. QED
    BY <1>1, <2>1 DEF Fresh
<1>2. CASE \E i \in DOMAIN q : ~Stale(q[i], at)
  <2> DEFINE S == {i \in DOMAIN q : ~Stale(q[i], at)}
  <2>1. S \in SUBSET Nat /\ S # {}
    BY <1>2
  <2>2. PICK m \in S : \A j \in S : m <= j
    BY <2>1, FirstOf
  <2>3. m \in DOMAIN q /\ ~Stale(q[m], at) /\ \A j \in 1..(m - 1) : Stale(q[j], at)
    BY <2>2
  <2>4. PICK i \in DOMAIN q :
          i = CHOOSE n \in DOMAIN q : ~Stale(q[n], at) /\ \A j \in 1..(n - 1) : Stale(q[j], at)
    BY <2>3
  <2>5. SubSeq(q, i, Len(q)) \in Seq(Launch)
    OBVIOUS
  <2>6. QED
    BY <1>2, <2>4, <2>5 DEF Fresh
<1>3. QED
  BY <1>1, <1>2

LEMMA EmptyFits == FitTable(Empty)
<1>1. << >> \in Seq(Launch)
  OBVIOUS
<1>2. [y \in Type \cup {Unset} |-> << >>] \in Queues
  BY <1>1 DEF Queues
<1>3. FitRows([a \in Agent |-> Unset])
  BY DEF FitRows
<1>4. QED
  BY <1>2, <1>3 DEF FitTable, Empty

LEMMA OneRowChanges ==
  ASSUME NEW R, FitRows(R), NEW a \in Agent, NEW r \in Row, Fit(r)
  PROVE  FitRows([R EXCEPT ![a] = r])
  BY DEF FitRows

\* A row that runs hears of what it does.
LEMMA Hears ==
  ASSUME NEW r \in Row, Fit(r), ~r.ended, NEW tool \in Tool \cup {Unset}, NEW at \in Nat
  PROVE  /\ [r EXCEPT !.doing = tool, !.heard = at] \in Row
         /\ Fit([r EXCEPT !.doing = tool, !.heard = at])
<1>1. PICK s \in Row : s = [r EXCEPT !.doing = tool, !.heard = at]
  BY DEF Row
<1>2. s.said = r.said /\ s.ended = r.ended
  BY <1>1 DEF Row
<1>3. Fit(s)
  BY <1>2 DEF Fit
<1>4. QED
  BY <1>1, <1>3

LEMMA AppliedFits ==
  ASSUME NEW R, FitRows(R), NEW Q \in Queues, NEW e \in Event,
         e.kind \in {"start", "stop"} => e.id \in Agent,
         NEW s, s = [rows |-> R, pending |-> Q], NEW t, t = Apply(s, e),
         NEW a, a = e.id
  PROVE  FitTable(t)
<1>1. /\ e.kind \in {"start", "stop", "launch", "done", "doing"}
      /\ e.type \in Type \cup {Unset} /\ e.tool \in Tool \cup {Unset} /\ e.at \in Nat
      /\ e.n \in Nat \ {0}
  BY DEF Event
<1>2. s.rows = R /\ s.pending = Q
  OBVIOUS
<1>3. t = s => FitTable(t)
  BY DEF FitTable
<1>4. ASSUME Seen(s, a)
      PROVE  a \in Agent /\ a \in DOMAIN R /\ R[a] \in Row /\ Fit(R[a])
  BY <1>2, <1>4 DEF Seen, FitRows
<1>5. ASSUME Runs(s, a)
      PROVE  a \in Agent /\ a \in DOMAIN R /\ R[a] \in Row /\ Fit(R[a]) /\ ~R[a].ended
  BY <1>2, <1>4, <1>5 DEF Runs
<1>6. ASSUME a \in Agent, NEW r \in Row, Fit(r),
             t = [rows |-> [R EXCEPT ![a] = r], pending |-> Q]
      PROVE  FitTable(t)
  BY <1>6, OneRowChanges DEF FitTable
<1>7. PICK q \in Seq(Launch) : q = Fresh(Q[e.type], e.at)
  BY <1>1, FreshTyped DEF Queues
<1>8. CASE e.kind = "launch"
  <2>1. t = Launched(s, e)
    BY <1>8 DEF Apply
  <2>2. PICK l \in Launch : l = [task |-> e.n, at |-> e.at]
    BY <1>1 DEF Launch
  <2>3. PICK z \in Seq(Launch) : z = Append(q, l)
    <3>1. Append(q, l) \in Seq(Launch)
      BY ONLY q \in Seq(Launch), l \in Launch
    <3>2. QED
      BY <3>1
  <2>4. PICK P \in Queues : P = [Q EXCEPT ![e.type] = z]
    BY <1>1 DEF Queues
  <2>5. e.type \in DOMAIN s.pending
    BY <1>1, <1>2 DEF Queues
  <2>6. Launched(s, e) = [rows |-> Launched(s, e).rows, pending |-> P]
    <3>1. Launched(s, e).pending = P
      BY ONLY s = [rows |-> R, pending |-> Q], <1>2, <1>7, <2>2, <2>3, <2>4, <2>5 DEF Launched
    <3>2. Launched(s, e) = [rows |-> Launched(s, e).rows, pending |-> Launched(s, e).pending]
      BY DEF Launched
    <3>3. QED
      BY <3>1, <3>2
  <2>7. CASE ~Runs(s, a)
    <3>1. Launched(s, e).rows = R
      BY <1>2, <2>7 DEF Launched
    <3>2. QED
      BY <2>1, <2>6, <3>1 DEF FitTable
  <2>8. CASE Runs(s, a)
    <3>1. a \in Agent /\ a \in DOMAIN R /\ R[a] \in Row /\ Fit(R[a]) /\ ~R[a].ended
      BY <1>5, <2>8
    <3>2. PICK r \in Row : r = [R[a] EXCEPT !.doing = "Agent", !.heard = e.at] /\ Fit(r)
      BY <1>1, <3>1, Hears DEF Tool
    <3>3. Launched(s, e).rows = [R EXCEPT ![a] = r]
      BY ONLY s = [rows |-> R, pending |-> Q], a = e.id, <2>8, <3>1, <3>2 DEF Launched
    <3>4. QED
      BY <2>1, <2>6, <3>1, <3>2, <3>3, OneRowChanges DEF FitTable
  <2>9. QED
    BY <2>7, <2>8
<1>9. CASE e.kind = "start" /\ Seen(s, a)
  <2>1. a \in Agent /\ a \in DOMAIN R /\ R[a] \in Row
    BY <1>4, <1>9
  <2>2. PICK n \in Nat : n = IF R[a].said # 0 THEN R[a].said ELSE R[a].earlier
    BY <2>1 DEF Row
  <2>3. PICK r \in Row :
          r = [R[a] EXCEPT !.earlier = n, !.said = 0, !.started = e.at, !.ended = FALSE,
                           !.doing = Unset, !.heard = e.at]
    BY <1>1, <2>1 DEF Row
  <2>4. r.said = 0
    BY <2>1, <2>3 DEF Row
  <2>5. ~r.ended
    BY <2>1, <2>3 DEF Row
  <2>6. Fit(r)
    BY <2>4, <2>5 DEF Fit
  <2>7. t = Resumed(s, e)
    BY <1>9 DEF Apply
  <2>8. Resumed(s, e) = [rows |-> [R EXCEPT ![a] = r], pending |-> Q]
    BY ONLY s = [rows |-> R, pending |-> Q], a = e.id, <2>1, <2>2, <2>3 DEF Resumed
  <2>9. QED
    BY <1>6, <2>1, <2>6, <2>7, <2>8
<1>10. CASE e.kind = "start" /\ ~Seen(s, a)
  <2>1. a \in Agent /\ t = Started(s, e)
    BY <1>10 DEF Apply
  <2>2. PICK n \in Nat : n = IF q = << >> THEN 0 ELSE Head(q).task
    <3>1. q # << >> => Head(q) \in Launch
      OBVIOUS
    <3>2. QED
      BY <3>1 DEF Launch
  <2>3. PICK r \in Row :
          r = [type |-> e.type, task |-> n, started |-> e.at, ended |-> FALSE,
               doing |-> Unset, said |-> 0, earlier |-> 0, heard |-> e.at]
    BY <1>1 DEF Row
  <2>4. r.said = 0 /\ ~r.ended
    BY <2>3
  <2>5. PICK P \in Queues : P = [Q EXCEPT ![e.type] = Claimed(q)]
    <3>1. Claimed(q) \in Seq(Launch)
      BY DEF Claimed
    <3>2. QED
      BY <1>1, <3>1 DEF Queues
  <2>6. t = [rows |-> [R EXCEPT ![a] = r], pending |-> P]
    BY <1>2, <1>7, <2>1, <2>2, <2>3, <2>5 DEF Started
  <2>7. QED
    BY <2>1, <2>4, <2>6, OneRowChanges DEF Fit, FitTable
<1>11. CASE e.kind = "doing"
  <2>1. t = Does(s, e)
    BY <1>11 DEF Apply
  <2>2. CASE ~Runs(s, a)
    BY <1>3, <2>1, <2>2 DEF Does
  <2>3. CASE Runs(s, a)
    <3>1. a \in Agent /\ a \in DOMAIN R /\ R[a] \in Row /\ Fit(R[a]) /\ ~R[a].ended
      BY <1>5, <2>3
    <3>2. PICK r \in Row : r = [R[a] EXCEPT !.doing = e.tool, !.heard = e.at] /\ Fit(r)
      BY <1>1, <3>1, Hears
    <3>3. t = [rows |-> [R EXCEPT ![a] = r], pending |-> Q]
      BY ONLY s = [rows |-> R, pending |-> Q], a = e.id, <2>1, <2>3, <3>1, <3>2 DEF Does
    <3>4. QED
      BY <1>6, <3>1, <3>2, <3>3
  <2>4. QED
    BY <2>2, <2>3
<1>12. CASE e.kind = "done"
  <2>1. t = Finishes(s, e)
    BY <1>12 DEF Apply
  <2>2. CASE ~Seen(s, a)
    BY <1>3, <2>1, <2>2 DEF Finishes
  <2>3. CASE Seen(s, a)
    <3>1. a \in Agent /\ a \in DOMAIN R /\ R[a] \in Row /\ Fit(R[a])
      BY <1>4, <2>3
    <3>2. PICK d \in Tool \cup {Unset} : d = IF R[a].doing = e.tool THEN Unset ELSE R[a].doing
      BY <3>1 DEF Row
    <3>3. PICK r \in Row : r = [R[a] EXCEPT !.heard = e.at, !.doing = d]
      BY <1>1, <3>1 DEF Row
    <3>4. /\ r.said = R[a].said /\ r.ended = R[a].ended /\ r.earlier = R[a].earlier
          /\ r.doing = R[a].doing \/ r.doing = Unset
      BY <3>1, <3>2, <3>3 DEF Row
    <3>5. Fit(r)
      BY <3>1, <3>4 DEF Fit
    <3>6. t = [rows |-> [R EXCEPT ![a] = r], pending |-> Q]
      BY ONLY s = [rows |-> R, pending |-> Q], a = e.id, <2>1, <2>3, <3>1, <3>2, <3>3
         DEF Finishes, Row
    <3>7. QED
      BY <1>6, <3>1, <3>5, <3>6
  <2>4. QED
    BY <2>2, <2>3
<1>13. CASE e.kind = "stop"
  <2>1. t = Stopped(s, e)
    BY <1>13 DEF Apply
  <2>2. CASE ~Seen(s, a)
    BY <1>3, <2>1, <2>2 DEF Stopped
  <2>3. CASE Seen(s, a)
    <3>1. a \in Agent /\ a \in DOMAIN R /\ R[a] \in Row
      BY <1>4, <2>3
    <3>2. PICK r \in Row :
            r = [R[a] EXCEPT !.ended = TRUE, !.said = e.n, !.earlier = 0, !.doing = Unset,
                             !.heard = e.at]
      BY <1>1, <3>1 DEF Row
    <3>3. r.said # 0 /\ r.earlier = 0 /\ r.doing = Unset
      BY <1>1, <3>1, <3>2 DEF Row
    <3>4. r.ended
      BY <3>1, <3>2 DEF Row
    <3>5. Fit(r)
      BY <3>3, <3>4 DEF Fit
    <3>6. t = [rows |-> [R EXCEPT ![a] = r], pending |-> Q]
      BY ONLY s = [rows |-> R, pending |-> Q], a = e.id, <2>1, <2>3, <3>1, <3>2 DEF Stopped
    <3>7. QED
      BY <1>6, <3>1, <3>5, <3>6
  <2>4. QED
    BY <2>2, <2>3
<1>14. QED
  BY <1>1, <1>8, <1>9, <1>10, <1>11, <1>12, <1>13

LEMMA RowsStep ==
  ASSUME RowsInv, RowsNext
  PROVE  RowsInv'
<1>1. ASSUME NEW p \in Payloads, NEW at \in Nat, KindOf(p) # Unset,
             logged' = logged + 1, clock' = clock, table' = Apply(table, EventOf(p, at, logged + 1))
      PROVE  RowsInv'
  <2>1. p \in Payload /\ (p.event \in {"SubagentStart", "SubagentStop"} => p.agent # Unset)
    BY RowsAssumption
  <2>2. KindOf(p) \in {"start", "stop", "launch", "done", "doing"}
    BY <1>1 DEF KindOf
  <2>3. KindOf(p) \in {"start", "stop"} => p.agent \in Agent
    BY <1>1, <2>1 DEF KindOf, Payload
  <2>4. PICK m \in Nat \ {0} : m = logged + 1
    BY DEF RowsInv
  <2>5. PICK e \in Event : e = EventOf(p, at, m)
    BY <2>1, <2>2 DEF Event, EventOf, Payload
  <2>6. e.kind = KindOf(p) /\ e.id = p.agent
    BY <2>5 DEF EventOf
  <2>7. e.kind \in {"start", "stop"} => e.id \in Agent
    BY <2>3, <2>6
  <2>8. PICK R, Q : table = [rows |-> R, pending |-> Q] /\ FitRows(R) /\ Q \in Queues
    BY DEF RowsInv, FitTable
  <2>9. table' = Apply([rows |-> R, pending |-> Q], e)
    BY <1>1, <2>4, <2>5, <2>8
  <2>10. FitTable(table')
    BY <2>7, <2>8, <2>9, AppliedFits
  <2>11. QED
    BY <1>1, <2>4, <2>10 DEF RowsInv
<1>2. ASSUME NEW p \in Payloads, Logs(p)
      PROVE  RowsInv'
  BY <1>1, <1>2 DEF Logs, RowsInv
<1>3. ASSUME NEW p \in Payloads, LogsLate(p)
      PROVE  RowsInv'
  <2>1. clock - 1 \in Nat
    BY <1>3 DEF LogsLate, RowsInv
  <2>2. QED
    BY <1>1, <1>3, <2>1 DEF LogsLate
<1>4. CASE ClockTicks
  BY <1>4 DEF ClockTicks, RowsInv
<1>5. CASE TableCleared
  BY <1>5, EmptyFits DEF TableCleared, RowsInv
<1>6. QED
  BY <1>2, <1>3, <1>4, <1>5 DEF RowsNext

\* Whatever the hooks log, and in whatever order, a row that runs has said
\* nothing yet and one that ended has no earlier report and is in no tool.
THEOREM RowsFitRuns == Spec => []ReportsFitRuns
<1>1. Init => RowsInv
  BY EmptyFits DEF Init, RowsInit, RowsInv
<1>2. RowsInv /\ [Next]_vars => RowsInv'
  <2>1. RowsInv /\ UNCHANGED rowVars => RowsInv'
    BY DEF RowsInv, rowVars
  <2>2. [Next]_vars => RowsNext \/ UNCHANGED rowVars
    BY DEF Next, vars
  <2>3. QED
    BY <2>1, <2>2, RowsStep
<1>3. RowsInv => ReportsFitRuns
  <2>1. ASSUME RowsInv
        PROVE  ReportsFitRuns
    <3>1. FitRows(table.rows)
      BY <2>1 DEF RowsInv, FitTable
    <3>2. QED
      BY <3>1 DEF FitRows, Fit, ReportsFitRuns, Seen
  <2>2. QED
    BY <2>1
<1>4. QED
  BY <1>1, <1>2, <1>3, PTL DEF Spec
=============================================================================
