----------------------------- MODULE SessionLife -----------------------------
(***************************************************************************)
(* One project's terminal session: started, restored, stopped, lost with   *)
(* the machine, and taken by the update sweep (internal/session/session.go *)
(* and sweep.go, internal/store/sessions.go, internal/web/start.go,        *)
(* `mustur session`).                                                      *)
(*                                                                         *)
(* tmux says what is running; the table session_started says what was      *)
(* launched and not ended.  A page offers back the difference.  Every call *)
(* to tmux or the store is one step, and between two of one caller's the   *)
(* CLI, the poller, the sweep and other callers have theirs.               *)
(***************************************************************************)
EXTENDS Naturals

CONSTANTS
  Hand,         \* requests and commands of people under way at once
  Sweeper,      \* the goroutine of the update sweep
  Nothing,      \* no value
  MaxSessions  \* bound: sessions tmux creates under the name

ASSUME LifeAssumption == MaxSessions \in Nat /\ Sweeper \notin Hand

VARIABLES
  tmux,     \* the tmux session of the name, or Nothing
  row,      \* its row of session_started, or Nothing
  frame,    \* what the hub's poller has of it, or Nothing
  present,  \* somebody has it open, in a tab or in a terminal
  job,      \* caller -> where it has got to, or Nothing
  begun,    \* sessions created so far; each is known by its number
  written,  \* conversations that have a transcript on disk
  owed,     \* history: the last thing somebody brought about was a start, not a stop
  smooth    \* history: callers took turns, and no start or stop was cut short

lifeVars == <<tmux, row, frame, present, job, begun, written, owed, smooth>>

Caller  == Hand \cup {Sweeper}
Started == 1..MaxSessions
\* A conversation is named by the session that opened it; a command line
\* without --resume names none.
Target  == Started \cup {Nothing}

\* What the CLI shows: nothing yet, its empty prompt, or else a turn in flight
\* or a line typed and not sent.
Showing == {"booting", "waiting", "busy"}

Pane ==
  [n      : Started,
   mine   : BOOLEAN,   \* OwnedOption is set
   conv   : Started,   \* the conversation it holds
   shows  : Showing,
   update : BOOLEAN,   \* "Update installed, restart to update"
   moved  : BOOLEAN,   \* its body has changed since the poller last read it
   told   : BOOLEAN]   \* history: its CLI reported its conversation

\* `n` and `by` are history: the start that wrote the row and the session that
\* reported its conversation.
Remembered == [cmd : Target, cli : Target, n : Started, by : Target]

\* ready: the last frame announced an update and showed an empty prompt.
\* still: the body has not changed for Quiet.
Glimpse == [ready : BOOLEAN, still : BOOLEAN, ended : BOOLEAN]

\* Where a caller has got to.  cmd: the conversation its command line resumes.
\* n: the session it has created.  took is history, of the session it ended.
Doing ==
  [op   : {"start", "again", "stop", "sweep", "recall"},
   at   : {"alive", "new", "mark", "settle", "remember", "kill", "forget"},
   cmd  : Target,
   n    : Target,
   took : Target]

ASSUME LifeNone == Nothing \notin Nat \cup Pane \cup Remembered \cup Glimpse \cup Doing

Idle(h) == job[h] = Nothing

InTurn == \A g, h \in Caller : Idle(g) \/ Idle(h) \/ g = h

Rest(h) == job' = [job EXCEPT ![h] = Nothing]

Goes(h, step) == job' = [job EXCEPT ![h].at = step]

Alive == tmux # Nothing /\ tmux.mine

LifeInit ==
  /\ tmux = Nothing /\ row = Nothing /\ frame = Nothing
  /\ present = FALSE
  /\ job = [h \in Caller |-> Nothing]
  /\ begun = 0 /\ written = {}
  /\ owed = FALSE /\ smooth = TRUE

----------------------------------------------------------------------------
(* The table of sessions.                                                   *)

\* Mutant: the conversation of the row before is kept.
RowKeepingConversation(cmd, n) ==
  [cmd |-> cmd, n |-> n,
   cli |-> IF row = Nothing THEN Nothing ELSE row.cli,
   by  |-> IF row = Nothing THEN Nothing ELSE row.by]

\* RememberSession: a new start is a new conversation until its hook says
\* otherwise.
RowOf(cmd, n) == [cmd |-> cmd, cli |-> Nothing, n |-> n, by |-> Nothing]

\* Mutant: a report that finds no row makes one.
NotedOrMade(conv, n) ==
  IF row = Nothing THEN [cmd |-> Nothing, cli |-> conv, n |-> n, by |-> n]
                ELSE [row EXCEPT !.cli = conv, !.by = n]

\* NoteSessionCLI: updates and never inserts.
Noted(conv, n) == IF row = Nothing THEN Nothing ELSE [row EXCEPT !.cli = conv, !.by = n]

\* ResumeIfWritten: the conversation the command of row r comes back to.
Resumed(r) == IF r.cli # Nothing /\ r.cli \in written THEN r.cli ELSE r.cmd

----------------------------------------------------------------------------
(* The CLI, and people at a terminal or a tab.                              *)

\* The SessionStart hook, which the CLI waits for; a CLI without one reports
\* nothing.
CliStarted(reports) ==
  /\ tmux # Nothing /\ tmux.shows = "booting"
  /\ tmux' = [tmux EXCEPT !.shows = "waiting", !.moved = TRUE, !.told = reports]
  /\ row' = IF reports THEN Noted(tmux.conv, tmux.n) ELSE row
  /\ UNCHANGED <<frame, present, job, begun, written>>

TurnBegins ==
  /\ tmux # Nothing /\ tmux.shows \in {"waiting", "busy"}
  /\ tmux' = [tmux EXCEPT !.shows = "busy", !.moved = TRUE]
  /\ written' = written \cup {tmux.conv}
  /\ UNCHANGED <<row, frame, present, job, begun>>

\* The prompt is empty again: after a turn, or a line taken back.
BusyEnds(turned) ==
  /\ tmux # Nothing /\ tmux.shows = "busy"
  /\ tmux' = [tmux EXCEPT !.shows = "waiting", !.moved = @ \/ turned]
  /\ UNCHANGED <<row, frame, present, job, begun, written>>

\* The box a line is typed in is not part of the body.
Types ==
  /\ tmux # Nothing /\ tmux.shows = "waiting"
  /\ tmux' = [tmux EXCEPT !.shows = "busy"]
  /\ UNCHANGED <<row, frame, present, job, begun, written>>

Announces ==
  /\ tmux # Nothing /\ tmux.shows # "booting" /\ ~tmux.update
  /\ tmux' = [tmux EXCEPT !.update = TRUE]
  /\ UNCHANGED <<row, frame, present, job, begun, written>>

\* The CLI exits, or the machine takes it.
Dies ==
  /\ tmux # Nothing /\ tmux' = Nothing
  /\ UNCHANGED <<row, frame, present, job, begun, written>>

ComesOrGoes ==
  /\ present' = ~present
  /\ UNCHANGED <<tmux, row, frame, job, begun, written>>

----------------------------------------------------------------------------
(* The poller.                                                              *)

\* Mutant: every frame counts as a change, the turning spinner too.
StillUntilDrawn == FALSE

\* Only a body that moved starts the dwell again.
StillAfterRead == frame # Nothing /\ frame.still /\ ~tmux.moved

\* One reading of the pane.  The first needs adopt, which looks for owned
\* sessions; a session started again inside one poll keeps its poller.
Poll ==
  /\ tmux # Nothing
  /\ IF frame = Nothing THEN Alive ELSE ~frame.ended
  /\ frame' = [ready |-> tmux.update /\ tmux.shows = "waiting",
                still |-> StillAfterRead, ended |-> FALSE]
  /\ tmux' = [tmux EXCEPT !.moved = FALSE]
  /\ UNCHANGED <<row, present, job, begun, written>>

\* The capture fails and nothing is alive: the last frame stays, marked ended.
PollEnds ==
  /\ frame # Nothing /\ ~frame.ended /\ tmux = Nothing
  /\ frame' = [frame EXCEPT !.ended = TRUE]
  /\ UNCHANGED <<tmux, row, present, job, begun, written>>

\* The poller of a session that is gone is dropped, one that has ended replaced.
Adopt ==
  /\ frame # Nothing /\ (frame.ended \/ ~Alive)
  /\ frame' = Nothing
  /\ UNCHANGED <<tmux, row, present, job, begun, written>>

\* Half an hour in which the body did not move.
Dwell ==
  /\ frame # Nothing /\ ~frame.ended /\ ~frame.still
  /\ Alive /\ ~tmux.moved
  /\ frame' = [frame EXCEPT !.still = TRUE]
  /\ UNCHANGED <<tmux, row, present, job, begun, written>>

----------------------------------------------------------------------------
(* Start.                                                                   *)

Asks(h, op, cmd) ==
  job' = [job EXCEPT ![h] = [op |-> op, at |-> "alive", cmd |-> cmd, n |-> Nothing, took |-> Nothing]]

\* The start form and `mustur session start`.
StartByForm(h) ==
  /\ Idle(h) /\ Asks(h, "start", Nothing)
  /\ UNCHANGED <<tmux, row, frame, present, begun, written>>

\* The restore button: the row as read says what runs.
Restore(h) ==
  /\ Idle(h) /\ row # Nothing /\ Asks(h, "start", Resumed(row))
  /\ UNCHANGED <<tmux, row, frame, present, begun, written>>

\* One session to a project.
StartLooks(h) ==
  /\ ~Idle(h) /\ job[h].op \in {"start", "again"} /\ job[h].at = "alive"
  /\ IF Alive THEN Rest(h) ELSE Goes(h, "new")
  /\ UNCHANGED <<tmux, row, frame, present, begun, written>>

\* tmux new-session refuses a name that is taken, whoever took it.
NewSession(h) ==
  /\ ~Idle(h) /\ job[h].at = "new"
  /\ tmux = Nothing /\ begun < MaxSessions
  /\ begun' = begun + 1
  /\ tmux' = [n |-> begun', mine |-> FALSE,
              conv |-> IF job[h].cmd = Nothing THEN begun' ELSE job[h].cmd,
              shows |-> "booting", update |-> FALSE, moved |-> TRUE, told |-> FALSE]
  /\ job' = [job EXCEPT ![h].at = "mark", ![h].n = begun']
  /\ UNCHANGED <<row, frame, present, written>>

\* The name is taken, the directory is gone, tmux fails.
NewSessionFails(h) ==
  /\ ~Idle(h) /\ job[h].at = "new"
  /\ Rest(h)
  /\ UNCHANGED <<tmux, row, frame, present, begun, written>>

\* set-option OwnedOption: until it has run the session is nobody's.
Mark(h) ==
  /\ ~Idle(h) /\ job[h].at = "mark"
  /\ IF tmux = Nothing
       THEN Rest(h) /\ UNCHANGED tmux
       ELSE Goes(h, "settle") /\ tmux' = [tmux EXCEPT !.mine = TRUE]
  /\ UNCHANGED <<row, frame, present, begun, written>>

\* Watched for SettleFor; one that died by then is not written down.
Settle(h) ==
  /\ ~Idle(h) /\ job[h].at = "settle"
  /\ IF Alive THEN Goes(h, "remember") ELSE Rest(h)
  /\ UNCHANGED <<tmux, row, frame, present, begun, written>>

Remember(h) ==
  /\ ~Idle(h) /\ job[h].at = "remember"
  /\ row' = RowOf(job[h].cmd, job[h].n)
  /\ Rest(h)
  /\ UNCHANGED <<tmux, frame, present, begun, written>>

----------------------------------------------------------------------------
(* Stop, and the sweep.                                                     *)

StopBy(h) ==
  /\ Idle(h) /\ Asks(h, "stop", Nothing)
  /\ UNCHANGED <<tmux, row, frame, present, begun, written>>

\* Sweep and consider: a session nobody has open, announcing an update at an
\* empty prompt that has not moved for half an hour, by the poller's last frame.
SweepLooks ==
  /\ Idle(Sweeper)
  /\ Alive /\ ~present
  /\ frame # Nothing /\ frame.ready /\ frame.still
  /\ Asks(Sweeper, "recall", Nothing)
  /\ UNCHANGED <<tmux, row, frame, present, begun, written>>

\* restart reads the row first; with nothing written down it takes nothing.
SweepRecalls ==
  /\ ~Idle(Sweeper) /\ job[Sweeper].op = "recall"
  /\ IF row = Nothing THEN Rest(Sweeper) ELSE Asks(Sweeper, "sweep", Resumed(row))
  /\ UNCHANGED <<tmux, row, frame, present, begun, written>>

KillLooks(h) ==
  /\ ~Idle(h) /\ job[h].op \in {"stop", "sweep"} /\ job[h].at = "alive"
  /\ IF Alive THEN Goes(h, "kill") ELSE Rest(h)
  /\ UNCHANGED <<tmux, row, frame, present, begun, written>>

\* Stop forgets the session it ended; the sweep's Kill leaves it written down.
AfterKill(op) == IF op = "stop" THEN "forget" ELSE "alive"

\* The sweep's Kill is followed by its Start.
AfterwardsOf(op) == IF op = "sweep" THEN "again" ELSE op

\* History: the conversation of a session that reported it and has shown
\* nothing new since it was last read.
Known(pane) == IF pane.told /\ ~pane.moved THEN pane.conv ELSE Nothing

\* kill-session by name: it ends whatever has the name by now.
KillSession(h) ==
  /\ ~Idle(h) /\ job[h].at = "kill"
  /\ IF tmux = Nothing
       THEN Rest(h) /\ UNCHANGED tmux
       ELSE /\ tmux' = Nothing
            /\ job' = [job EXCEPT ![h].at = AfterKill(job[h].op),
                                  ![h].took = Known(tmux),
                                  ![h].op = AfterwardsOf(job[h].op)]
  /\ UNCHANGED <<row, frame, present, begun, written>>

Forget(h) ==
  /\ ~Idle(h) /\ job[h].at = "forget"
  /\ row' = Nothing
  /\ Rest(h)
  /\ UNCHANGED <<tmux, frame, present, begun, written>>

\* A caller ends where it is: tmux or the store does not answer, its process
\* dies, or the link of its request, whose context every later call carries.
Cut(h) ==
  /\ ~Idle(h)
  /\ Rest(h)
  /\ UNCHANGED <<tmux, row, frame, present, begun, written>>

\* A deploy or a crash of the server: the sweep and the poller begin anew.
Redeploys ==
  /\ job' = [job EXCEPT ![Sweeper] = Nothing]
  /\ frame' = Nothing
  /\ UNCHANGED <<tmux, row, present, begun, written>>

----------------------------------------------------------------------------

Carry(h) ==
  \/ StartLooks(h)
  \/ NewSession(h)
  \/ NewSessionFails(h)
  \/ Mark(h)
  \/ Settle(h)
  \/ Remember(h)
  \/ KillLooks(h)
  \/ KillSession(h)
  \/ Forget(h)

Sweeps == SweepLooks \/ SweepRecalls \/ Carry(Sweeper)

\* The two history variables.  A row is written where a start ends well.
History ==
  LET at(h, step) == ~Idle(h) /\ job[h].at = step
      began == \E h \in Caller : at(h, "remember") /\ job'[h] = Nothing
      ended == \E h \in Hand   : at(h, "kill") /\ job'[h] \notin {Nothing, job[h]}
  IN  /\ smooth' = (smooth /\ InTurn')
      /\ owed' = (smooth' /\ (owed \/ began) /\ ~ended)

LifeNext ==
  \/ /\ \/ \E reports \in BOOLEAN : CliStarted(reports)
        \/ TurnBegins
        \/ \E turned \in BOOLEAN : BusyEnds(turned)
        \/ Types
        \/ Announces
        \/ Dies
        \/ ComesOrGoes
        \/ Poll
        \/ PollEnds
        \/ Adopt
        \/ Dwell
        \/ \E h \in Hand : StartByForm(h) \/ Restore(h) \/ StopBy(h) \/ Carry(h)
        \/ Sweeps
     /\ History
  \/ /\ Cut(Sweeper) \/ Redeploys
     /\ UNCHANGED <<owed, smooth>>
  \/ /\ \E h \in Hand : Cut(h)
     /\ smooth' = FALSE /\ owed' = FALSE

LifeSpec == LifeInit /\ [][LifeNext]_lifeVars

\* The server's tickers run on: the poller's, the hub's and the sweep's.
FairLifeSpec ==
  /\ LifeSpec
  /\ WF_lifeVars(Poll /\ History) /\ WF_lifeVars(Adopt /\ History)
  /\ WF_lifeVars(Dwell /\ History) /\ WF_lifeVars(Sweeps /\ History)

----------------------------------------------------------------------------
(* Properties.                                                              *)

\* The steps of each kind of call.
Steps ==
  [start  |-> {"alive", "new", "mark", "settle", "remember"},
   again  |-> {"alive", "new", "mark", "settle", "remember"},
   stop   |-> {"alive", "kill", "forget"},
   sweep  |-> {"alive", "kill"},
   recall |-> {"alive"}]

\* A caller is at a step of its call, and people and the sweep make their own
\* calls.
StepOK(h, j) ==
  /\ j.at \in Steps[j.op]
  /\ h = Sweeper <=> j.op \in {"again", "sweep", "recall"}
  /\ j.at \in {"mark", "settle", "remember"} => j.n \in 1..begun

\* Rows, panes and frames are of sessions that were started.
LifeTypeOK ==
  /\ tmux \in Pane \cup {Nothing}
  /\ row \in Remembered \cup {Nothing}
  /\ frame \in Glimpse \cup {Nothing}
  /\ job \in [Caller -> Doing \cup {Nothing}]
  /\ \A h \in Caller : Idle(h) \/ StepOK(h, job[h])
  /\ begun \in 0..MaxSessions /\ written \subseteq Started
  /\ present \in BOOLEAN /\ owed \in BOOLEAN /\ smooth \in BOOLEAN

\* What is written down is what somebody started and nobody ended: deaths,
\* reboots, late reports of conversations, sweeps that fail half way or die with
\* the server, and restores take nothing off the list and put nothing on it, as
\* long as callers take turns ("a session the owner ended is finished and is not
\* offered back; a session that went with the machine is still remembered").
OfferedUntilEnded ==
  smooth /\ (\A h \in Caller : Idle(h)) => (owed <=> row # Nothing)

\* A restore never opens a conversation older than the session it restores,
\* however starts, stops, sweeps and hooks interleave (RememberSession: "keeping
\* the old one would offer a restore that resumed the wrong transcript").
NoStaleConversation ==
  row # Nothing => (row.cli # Nothing <=> row.by # Nothing) /\ (row.by # Nothing => row.by >= row.n)

Untaken == Alive /\ tmux.update /\ tmux.shows = "waiting" /\ ~present /\ row # Nothing

\* An idle session nobody has open does not sit for ever on an update it has
\* announced, unless sweeps fail or the server goes down over and over (the sweep;
\* a spinner that counted as a change kept the dwell from ever being reached).
UpdateTaken == <>[]Untaken => []<><<Cut(Sweeper) \/ Redeploys>>_lifeVars

\* A session the sweep takes comes back on its own conversation, if its CLI
\* said which it was and it has a transcript ("ends the session and starts it
\* again where it was, on its own conversation"), one call at a time and with
\* nothing new on its screen.  What the code means to do: the CLI's report may
\* come before Start has written the row, which it then does not find.
SweepKeepsConversation ==
  [][smooth' /\ ~Idle(Sweeper) /\ job[Sweeper].op = "again" /\ begun' = begun + 1
         /\ job[Sweeper].took \in written
       => tmux'.conv = job[Sweeper].took]_lifeVars
=============================================================================
