------------------------------- MODULE Gate -------------------------------
(***************************************************************************)
(* The permission gate of one session (internal/session/gate.go, the hook  *)
(* in cmd/mustur/sessions.go, the pop-up of internal/web/sessions.go).     *)
(*                                                                         *)
(* A tool call is held by a hook process, which leaves a file saying so and *)
(* waits for another with the answer.  The tabs read the first and write   *)
(* the second; the CLI kills the hook at its timeout and asks on the pane. *)
(* Nothing but the files joins the three.                                  *)
(***************************************************************************)
EXTENDS Naturals

CONSTANTS
  MaxCalls,  \* bound: gated calls the CLI makes, numbered in order
  Tab,       \* tabs and devices
  None       \* no value

ASSUME GateAssumption == MaxCalls \in Nat
ASSUME GateNone == None \notin Nat /\ None \notin {"allow", "deny"}

VARIABLES
  running,   \* the session is
  hook,      \* call -> where its hook has got to
  ask,       \* call -> its file
  answer,    \* call -> the answer's file
  outcome,   \* call -> what the CLI took for an answer, or None
  tab,       \* tab -> its pop-up and the press it is carrying
  pressed    \* history: call -> the decisions pressed for it

gateVars == <<running, hook, ask, answer, outcome, tab, pressed>>

Call     == 1..MaxCalls
Decision == {"allow", "deny"}

\* Not made yet, held, leaving with an answer, or over: handed back, killed, gone
\* with its session.
HookState == {"none", "waiting", "leaving", "over"}

\* An ask is past GateTimeout when it is old.
AskFile == {"absent", "held", "old"}

\* A press on its way is checked, then written.
Press == [call : Call, decision : Decision, checked : BOOLEAN]

\* `last` is the call the socket's ticker sent last.
TabState ==
  [open : BOOLEAN, shown : Call \cup {None}, last : Call \cup {None},
   press : Press \cup {None}]

Closed == [open |-> FALSE, shown |-> None, last |-> None, press |-> None]

GateInit ==
  /\ running = TRUE
  /\ hook = [c \in Call |-> "none"]
  /\ ask = [c \in Call |-> "absent"]
  /\ answer = [c \in Call |-> None]
  /\ outcome = [c \in Call |-> None]
  /\ tab = [t \in Tab |-> Closed]
  /\ pressed = [c \in Call |-> {}]

----------------------------------------------------------------------------
(* The hook and the CLI.                                                    *)

\* RaiseAsk, for the next call.  One that has no identifier, is of another mode or
\* tool, or whose file cannot be written is not held and none of these.
Raise(c) ==
  /\ running /\ hook[c] = "none" /\ \A b \in 1..(c - 1) : hook[b] # "none"
  /\ hook' = [hook EXCEPT ![c] = "waiting"]
  /\ ask' = [ask EXCEPT ![c] = "held"]
  /\ UNCHANGED <<running, answer, outcome, tab, pressed>>

\* AwaitAnswer finds the file, and the decision is printed.
TakeAnswer(c) ==
  /\ hook[c] = "waiting" /\ answer[c] # None
  /\ hook' = [hook EXCEPT ![c] = "leaving"]
  /\ outcome' = [outcome EXCEPT ![c] = answer[c]]
  /\ UNCHANGED <<running, ask, answer, tab, pressed>>

\* DropAsk, deferred: both files go.
Leave(c) ==
  /\ hook[c] = "leaving"
  /\ hook' = [hook EXCEPT ![c] = "over"]
  /\ ask' = [ask EXCEPT ![c] = "absent"]
  /\ answer' = [answer EXCEPT ![c] = None]
  /\ UNCHANGED <<running, outcome, tab, pressed>>

\* The CLI's own timeout: the hook is killed, its files stay, and the CLI draws
\* its dialog.
Kill(c) ==
  /\ hook[c] = "waiting"
  /\ hook' = [hook EXCEPT ![c] = "over"]
  /\ outcome' = [outcome EXCEPT ![c] = "dialog"]
  /\ UNCHANGED <<running, ask, answer, tab, pressed>>

\* GateTimeout has passed since the ask was made, earlier ones' before.
Ages(c) ==
  /\ ask[c] = "held" /\ \A b \in 1..(c - 1) : ask[b] # "held"
  /\ ask' = [ask EXCEPT ![c] = "old"]
  /\ UNCHANGED <<running, hook, answer, outcome, tab, pressed>>

\* The session ends and its hooks with it.
SessionEnds ==
  /\ running /\ running' = FALSE
  /\ hook' = [c \in Call |-> IF hook[c] \in {"waiting", "leaving"} THEN "over" ELSE hook[c]]
  /\ outcome' = [c \in Call |-> IF hook[c] = "waiting" THEN "lost" ELSE outcome[c]]
  /\ UNCHANGED <<ask, answer, tab, pressed>>

\* Start: ForgetAsks.
SessionStarts ==
  /\ ~running /\ running' = TRUE
  /\ ask' = [c \in Call |-> "absent"]
  /\ answer' = [c \in Call |-> None]
  /\ UNCHANGED <<hook, outcome, tab, pressed>>

\* A start that found no session clears the asks of one that runs by then, and its
\* hooks wait on.
ForgetsHeld ==
  /\ running /\ \E c \in Call : ask[c] # "absent"
  /\ ask' = [c \in Call |-> "absent"]
  /\ answer' = [c \in Call |-> None]
  /\ UNCHANGED <<running, hook, outcome, tab, pressed>>

----------------------------------------------------------------------------
(* The tabs.                                                                *)

\* Asks: what is past its timeout is removed, with its answer ...
Expired(files) == [c \in Call |-> IF files[c] = "old" THEN "absent" ELSE files[c]]

AnswersLeft == [c \in Call |-> IF ask[c] = "old" THEN None ELSE answer[c]]

\* ... and of the rest the oldest is offered.
Held ==
  IF \E c \in Call : ask[c] = "held"
    THEN CHOOSE c \in Call : ask[c] = "held" /\ \A b \in 1..(c - 1) : ask[b] # "held"
    ELSE None

Lists ==
  /\ ask' = Expired(ask) /\ answer' = AnswersLeft
  /\ UNCHANGED <<running, hook, outcome, pressed>>

\* The hello carries the held call, and the ticker compares with it.
Opens(t) ==
  /\ ~tab[t].open
  /\ tab' = [tab EXCEPT ![t] = [Closed EXCEPT !.open = TRUE, !.shown = Held, !.last = Held]]
  /\ Lists

\* A press that was read is carried on; one that was not is gone with the socket.
Closes(t) ==
  /\ tab[t].open /\ tab[t].press = None
  /\ tab' = [tab EXCEPT ![t] = Closed]
  /\ UNCHANGED <<running, hook, ask, answer, outcome, pressed>>

\* Mutant: the ticker sends calls, and never that there is none.
MovedToCall(t) == Held \notin {tab[t].last, None}

\* The ticker sends what differs from what it sent.
Moved(t) == Held # tab[t].last

Tick(t) ==
  /\ tab[t].open
  /\ IF Moved(t)
       THEN tab' = [tab EXCEPT ![t].shown = Held, ![t].last = Held]
       ELSE UNCHANGED tab
  /\ Lists

\* A person presses a button of the pop-up.
Presses(t, d) ==
  /\ tab[t].open /\ tab[t].shown # None /\ tab[t].press = None
  /\ tab' = [tab EXCEPT ![t].press = [call |-> tab[t].shown, decision |-> d, checked |-> FALSE]]
  /\ pressed' = [pressed EXCEPT ![tab[t].shown] = @ \cup {d}]
  /\ UNCHANGED <<running, hook, ask, answer, outcome>>

\* Either way the tab is told that no call waits.
Cleared(t) == [tab EXCEPT ![t].press = None, ![t].shown = None]

\* AnswerAsk reads the ask: absent or past its timeout, the press is refused.
Checks(t) ==
  /\ tab[t].press # None /\ ~tab[t].press.checked
  /\ tab' = IF ask[tab[t].press.call] = "held"
              THEN [tab EXCEPT ![t].press.checked = TRUE]
              ELSE Cleared(t)
  /\ UNCHANGED <<running, hook, ask, answer, outcome, pressed>>

\* Mutant: an answer is for whichever call is held by then.
AnsweredNow(t) == IF Held = None THEN tab[t].press.call ELSE Held

\* The call a press answers: the one it names.
Answered(t) == tab[t].press.call

\* The answer is renamed into place.
Writes(t) ==
  /\ tab[t].press # None /\ tab[t].press.checked
  /\ answer' = [answer EXCEPT ![Answered(t)] = tab[t].press.decision]
  /\ tab' = Cleared(t)
  /\ UNCHANGED <<running, hook, ask, outcome, pressed>>

\* The disk is full, or ForgetAsks took the directory.
WriteFails(t) ==
  /\ tab[t].press # None /\ tab[t].press.checked
  /\ tab' = Cleared(t)
  /\ UNCHANGED <<running, hook, ask, answer, outcome, pressed>>

Hook(c) == TakeAnswer(c) \/ Leave(c)

Carries(t) == Checks(t) \/ Writes(t) \/ WriteFails(t)

GateNext ==
  \/ \E c \in Call : Raise(c) \/ Hook(c) \/ Kill(c) \/ Ages(c)
  \/ SessionEnds
  \/ SessionStarts
  \/ ForgetsHeld
  \/ \E t \in Tab : Opens(t) \/ Closes(t) \/ Tick(t) \/ Carries(t)
  \/ \E t \in Tab, d \in Decision : Presses(t, d)

----------------------------------------------------------------------------
(* Properties.                                                              *)

\* Files, hooks and pop-ups are of their kinds; a hook that waits is of a session
\* that runs, and a pop-up shows what its ticker sent or nothing.
GateTypeOK ==
  /\ running \in BOOLEAN
  /\ hook \in [Call -> HookState]
  /\ ask \in [Call -> AskFile]
  /\ answer \in [Call -> Decision \cup {None}]
  /\ outcome \in [Call -> Decision \cup {"dialog", "lost", None}]
  /\ tab \in [Tab -> TabState]
  /\ pressed \in [Call -> SUBSET Decision]
  /\ \A c \in Call : hook[c] \in {"waiting", "leaving"} => running
  /\ \A t \in Tab : tab[t].shown \in {None, tab[t].last}

\* A call is allowed or denied because somebody pressed that with this call before
\* them: not by a press that was meant for the call before it, that was refused, or
\* that another device made of another call (Answer: "a call is allowed because
\* somebody allowed it, denied because somebody denied it").
DecidedByPress ==
  \A c \in Call : outcome[c] \in Decision => outcome[c] \in pressed[c]

\* A call nobody holds any more leaves every open pop-up: answered elsewhere,
\* killed at its timeout or gone with its session, it does not stay over the
\* dialog the CLI drew in its place (the ticker; it once compared with a stamp of
\* file names, which a killed hook does not change).
GoneIsCleared ==
  LET Stale(t) == tab[t].open /\ tab[t].shown # None /\ ask[tab[t].shown] # "held"
  IN  \A t \in Tab : Stale(t) ~> ~Stale(t)
=============================================================================
