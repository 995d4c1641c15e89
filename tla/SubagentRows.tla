---------------------------- MODULE SubagentRows ----------------------------
(***************************************************************************)
(* The rows of a session's sub-agents, folded from the events its hooks    *)
(* logged (RecordHookEvent, apply and snapshot in                          *)
(* internal/session/subagents.go).                                         *)
(***************************************************************************)
EXTENDS Naturals, Sequences, FiniteSets

CONSTANTS
  Agent,    \* identifiers the CLI gives its sub-agents
  Type,     \* types of sub-agent
  Unset,    \* an empty field
  Window,    \* LaunchWindow, in ticks of the clock
  Payloads,  \* what the CLI tells its hooks
  MaxLogged, \* bound: events that are logged
  MaxClock   \* bound: ticks of the clock

VARIABLES
  clock,
  logged,   \* events logged so far
  table     \* their rows, and the launches nobody has claimed

rowVars == <<clock, logged, table>>

\* The launching tool, and any other.
Tool == {"Agent", "other"}

\* What the CLI tells a hook.
HookEvent == {"SubagentStart", "SubagentStop", "PreToolUse", "PostToolUse"}

Payload ==
  [event : HookEvent, agent : Agent \cup {Unset}, type : Type \cup {Unset},
   tool : Tool \cup {Unset}]

\* Starts and stops name a sub-agent.
ASSUME RowsAssumption ==
  /\ Window \in Nat /\ MaxLogged \in Nat /\ MaxClock \in Nat
  /\ Unset \notin Agent \cup Type \cup Tool
  /\ Payloads \subseteq
       {p \in Payload : p.event \in {"SubagentStart", "SubagentStop"} => p.agent # Unset}

\* What is kept of it.  Event n stands also for the task or the report it carries.
Event ==
  [kind : {"start", "stop", "launch", "done", "doing"}, id : Agent \cup {Unset},
   type : Type \cup {Unset}, tool : Tool \cup {Unset}, at : Nat, n : Nat \ {0}]

\* A launch is looked for before an identifier, which a nested launch carries too.
IsActivity(p) == p.agent # Unset /\ ~(p.tool = "Agent" /\ p.event = "PreToolUse")

KindOf(p) ==
  CASE p.event = "SubagentStart" -> "start"
    [] p.event = "SubagentStop" -> "stop"
    [] p.event = "PostToolUse" /\ IsActivity(p) -> "done"
    [] p.event = "PreToolUse" /\ IsActivity(p) -> "doing"
    [] p.event = "PreToolUse" /\ p.tool = "Agent" -> "launch"
    [] OTHER -> Unset

EventOf(p, now, n) ==
  [kind |-> KindOf(p), id |-> p.agent, type |-> p.type, tool |-> p.tool, at |-> now, n |-> n]

----------------------------------------------------------------------------
(* Rows and launches nobody has claimed.                                    *)

Row ==
  [type : Type \cup {Unset}, task : Nat, started : Nat, ended : BOOLEAN,
   doing : Tool \cup {Unset}, said : Nat, earlier : Nat, heard : Nat]

Launch == [task : Nat \ {0}, at : Nat]

Empty ==
  [rows |-> [a \in Agent |-> Unset], pending |-> [y \in Type \cup {Unset} |-> << >>]]

Seen(s, a) == a \in Agent /\ s.rows[a] # Unset

Runs(s, a) == Seen(s, a) /\ ~s.rows[a].ended

Stale(launch, at) == at > launch.at + Window

\* The queue without the launches at its head that nothing claimed in time.
Fresh(q, at) ==
  IF \E i \in DOMAIN q : ~Stale(q[i], at)
    THEN SubSeq(q, CHOOSE i \in DOMAIN q : /\ ~Stale(q[i], at)
                                           /\ \A j \in 1..(i - 1) : Stale(q[j], at), Len(q))
    ELSE << >>

\* A launch waits to be claimed; made inside a sub-agent, that one is in the tool.
Launched(s, e) ==
  [rows    |-> IF Runs(s, e.id)
                 THEN [s.rows EXCEPT ![e.id].doing = "Agent", ![e.id].heard = e.at]
                 ELSE s.rows,
   pending |-> [s.pending EXCEPT ![e.type] = Append(Fresh(@, e.at), [task |-> e.n, at |-> e.at])]]

\* A sub-agent seen before is resumed: what it said is its earlier report.
Resumed(s, e) ==
  LET r == s.rows[e.id]
  IN  [s EXCEPT !.rows[e.id] =
        [r EXCEPT !.earlier = IF r.said # 0 THEN r.said ELSE @, !.said = 0, !.started = e.at,
                  !.ended = FALSE, !.doing = Unset, !.heard = e.at]]

Claimed(q) == IF q = << >> THEN q ELSE Tail(q)

\* A new one claims the oldest launch of its type.
Started(s, e) ==
  LET q == Fresh(s.pending[e.type], e.at)
  IN  [rows    |-> [s.rows EXCEPT ![e.id] =
                      [type |-> e.type, task |-> IF q = << >> THEN 0 ELSE Head(q).task,
                       started |-> e.at, ended |-> FALSE, doing |-> Unset,
                       said |-> 0, earlier |-> 0, heard |-> e.at]],
       pending |-> [s.pending EXCEPT ![e.type] = Claimed(q)]]

Does(s, e) ==
  IF Runs(s, e.id)
    THEN [s EXCEPT !.rows[e.id].doing = e.tool, !.rows[e.id].heard = e.at]
    ELSE s

\* Only the tool it names.
Finishes(s, e) ==
  IF Seen(s, e.id)
    THEN [s EXCEPT !.rows[e.id].heard = e.at,
                   !.rows[e.id].doing = IF @ = e.tool THEN Unset ELSE @]
    ELSE s

\* Mutant: the earlier report stays when the run has ended.
StoppedKeeping(s, e) ==
  IF Seen(s, e.id)
    THEN [s EXCEPT !.rows[e.id] =
           [@ EXCEPT !.ended = TRUE, !.said = e.n, !.doing = Unset, !.heard = e.at]]
    ELSE s

\* Only a sub-agent that started has a row to end.
Stopped(s, e) ==
  IF Seen(s, e.id)
    THEN [s EXCEPT !.rows[e.id] =
           [@ EXCEPT !.ended = TRUE, !.said = e.n, !.earlier = 0, !.doing = Unset,
                     !.heard = e.at]]
    ELSE s

\* apply.
Apply(s, e) ==
  CASE e.kind = "launch" -> Launched(s, e)
    [] e.kind = "start" -> IF Seen(s, e.id) THEN Resumed(s, e) ELSE Started(s, e)
    [] e.kind = "doing" -> Does(s, e)
    [] e.kind = "done" -> Finishes(s, e)
    [] e.kind = "stop" -> Stopped(s, e)

----------------------------------------------------------------------------
(* The events, in the order they come to the log.                           *)

RowsInit == clock = 0 /\ logged = 0 /\ table = Empty

\* A hook logs what it was told; what is not ours is dropped.
Logs(p) ==
  /\ logged < MaxLogged /\ KindOf(p) # Unset
  /\ logged' = logged + 1
  /\ table' = Apply(table, EventOf(p, clock, logged + 1))
  /\ UNCHANGED clock

\* A hook that was slower than another logs an event older than that one's.
LogsLate(p) ==
  /\ clock > 0
  /\ logged < MaxLogged /\ KindOf(p) # Unset
  /\ logged' = logged + 1
  /\ table' = Apply(table, EventOf(p, clock - 1, logged + 1))
  /\ UNCHANGED clock

ClockTicks == clock < MaxClock /\ clock' = clock + 1 /\ UNCHANGED <<logged, table>>

\* ForgetSubagents.
TableCleared == table' = Empty /\ UNCHANGED <<clock, logged>>

RowsNext == (\E p \in Payloads : Logs(p) \/ LogsLate(p)) \/ ClockTicks \/ TableCleared

----------------------------------------------------------------------------
(* Properties.                                                              *)

\* Rows and queues are of their kinds.
RowsTypeOK ==
  /\ clock \in Nat /\ logged \in Nat
  /\ table \in [rows : [Agent -> Row \cup {Unset}], pending : [Type \cup {Unset} -> Seq(Launch)]]

\* However the events of hooks that run at once, and of runs that are resumed, come
\* to the log: a row that runs has no report of its own yet, and one that ended has
\* no earlier one (Subagent.Earlier: "Never set on a row that has ended") and is in
\* no tool.
ReportsFitRuns ==
  \A a \in Agent : Seen(table, a) =>
    IF table.rows[a].ended
      THEN table.rows[a].said # 0 /\ table.rows[a].earlier = 0 /\ table.rows[a].doing = Unset
      ELSE table.rows[a].said = 0
=============================================================================
