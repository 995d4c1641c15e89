----------------------------- MODULE Subagents -----------------------------
(***************************************************************************)
(* A session's log of sub-agents: hook processes append to it, the server  *)
(* keeps it folded up to where it has read (foldLog in                     *)
(* internal/session/subagents.go), a start of the session removes it, and  *)
(* a tab is sent the rows when they change (internal/web/sessions.go).     *)
(*                                                                         *)
(* The readers share a lock.  With the hooks, and with a start, they share *)
(* only the file.  Rows are what SubagentRows makes of a sequence of       *)
(* events; here they are that sequence.                                    *)
(***************************************************************************)
EXTENDS Naturals, Sequences

CONSTANTS
  Proc,       \* hook processes under way at once
  Inode,      \* of files there may be at once
  Nothing,    \* no value
  MaxEvents   \* bound: events the hooks have to log, numbered in order

ASSUME SubagentsAssumption == MaxEvents \in Nat

VARIABLES
  events,    \* events raised so far
  log,       \* the file, or Nothing
  proc,      \* hook process -> its event and the file it has open, or Nothing
  fold,      \* what the server keeps, or Nothing
  page       \* the tab: what it shows and what its socket has sent

logVars == <<events, log, proc, fold, page>>

EventNo == 1..MaxEvents

\* A file is its inode and, as one may be handed out again, when it was born: the
\* event it was made for.  `torn`: its last line is being written.
File == [inode : Inode, born : EventNo, lines : Seq(EventNo), torn : BOOLEAN]

ASSUME LogNone == Nothing \notin File

Writing == [event : EventNo, born : EventNo, inode : Inode, begun : BOOLEAN]

\* What is kept: the file, its first line or 0, and what was folded.
Fold == [inode : Inode, head : 0..MaxEvents, rows : Seq(EventNo)]

\* `stamp` and `sent` are what the socket compares with.  `at` is "idle" without a
\* socket, and "read" between the stamp and the rows.
PageStage == {"away", "idle", "open", "read"}

Away == [at |-> "away", shown |-> << >>, stamp |-> Nothing, sent |-> Nothing, failed |-> FALSE]

LogInit ==
  /\ events = 0
  /\ log = Nothing
  /\ proc = [h \in Proc |-> Nothing]
  /\ fold = Nothing
  /\ page = Away

HasLog == log # Nothing

----------------------------------------------------------------------------
(* The hooks.                                                               *)

Busy == {h \in Proc : proc[h] # Nothing}

\* A file that is made has an inode no other has, a removed one that is open too.
InodeFor == IF HasLog THEN {log.inode} ELSE Inode \ {proc[h].inode : h \in Busy}

NewFile(i) == [inode |-> i, born |-> events + 1, lines |-> << >>, torn |-> FALSE]

\* RecordHookEvent: the file is opened, and made if there is none.
HookOpens(h) ==
  /\ proc[h] = Nothing /\ events < MaxEvents
  /\ events' = events + 1
  /\ \E i \in InodeFor :
       /\ log' = IF HasLog THEN log ELSE NewFile(i)
       /\ proc' = [proc EXCEPT ![h] =
            [event |-> events', born |-> log'.born, inode |-> i, begun |-> FALSE]]
  /\ UNCHANGED <<fold, page>>

HasOpen(h) == HasLog /\ log.born = proc[h].born

\* One write: a reader may see its bytes land.  In a file that was removed, it is
\* lost.
HookWrites(h) ==
  /\ proc[h] # Nothing /\ ~proc[h].begun
  /\ IF HasOpen(h)
       THEN /\ ~log.torn
            /\ log' = [log EXCEPT !.torn = TRUE]
            /\ proc' = [proc EXCEPT ![h].begun = TRUE]
       ELSE proc' = [proc EXCEPT ![h] = Nothing] /\ UNCHANGED log
  /\ UNCHANGED <<events, fold, page>>

HookWritten(h) ==
  /\ proc[h] # Nothing /\ proc[h].begun
  /\ log' = IF HasOpen(h) THEN [log EXCEPT !.lines = Append(@, proc[h].event), !.torn = FALSE]
                        ELSE log
  /\ proc' = [proc EXCEPT ![h] = Nothing]
  /\ UNCHANGED <<events, fold, page>>

\* ForgetSubagents: the session starts; or a start that found none clears the log
\* of one that runs by then.
LogForgotten ==
  /\ HasLog /\ log' = Nothing
  /\ UNCHANGED <<events, proc, fold, page>>

----------------------------------------------------------------------------
(* The fold.                                                                *)

\* Mutant: the same inode is the same file.
SameInode == fold.inode = log.inode /\ Len(log.lines) >= Len(fold.rows)

\* same: the inode, no shorter, and its first line the one that was folded.
Same ==
  /\ fold.inode = log.inode /\ Len(log.lines) >= Len(fold.rows)
  /\ fold.head # 0 => log.lines[1] = fold.head

\* foldLog: as far as its lines go, what was appended is folded onto what was kept.
Read ==
  IF ~HasLog THEN Nothing
  ELSE LET kept == IF fold # Nothing /\ Same THEN fold.rows ELSE << >>
       IN  [inode |-> log.inode,
            head  |-> IF log.lines = << >> THEN 0 ELSE log.lines[1],
            rows  |-> kept \o SubSeq(log.lines, Len(kept) + 1, Len(log.lines))]

\* No rows and no log are told alike.
RowsOf(f) == IF f = Nothing THEN << >> ELSE f.rows

\* What there is to show.
Now == IF HasLog THEN log.lines ELSE << >>

----------------------------------------------------------------------------
(* The tab.                                                                 *)

\* The page is painted with the rows.
Paints ==
  /\ page.at = "away"
  /\ fold' = Read
  /\ page' = [Away EXCEPT !.at = "idle", !.shown = RowsOf(Read)]
  /\ UNCHANGED <<events, log, proc>>

\* The socket opens, and again when it was dropped: the hello carries no rows, and
\* the page keeps those it has.
Connects ==
  /\ page.at = "idle"
  /\ page' = [page EXCEPT !.at = "open", !.stamp = Nothing, !.sent = Nothing]
  /\ UNCHANGED <<events, log, proc, fold>>

SocketDrops ==
  /\ page.at \in {"open", "read"}
  /\ page' = [page EXCEPT !.at = "idle"]
  /\ UNCHANGED <<events, log, proc, fold>>

PageLeaves ==
  /\ page.at # "away" /\ page' = Away
  /\ UNCHANGED <<events, log, proc, fold>>

\* Mutant: the size alone.
SizeOf == IF HasLog THEN <<Len(log.lines), log.torn>> ELSE Nothing

\* SubagentStamp: size and time of change.
Stamp == IF HasLog THEN <<log.born, Len(log.lines), log.torn>> ELSE Nothing

\* The tick: rows are read if the stamp moved.
LooksAtLog ==
  /\ page.at = "open" /\ Stamp # page.stamp
  /\ page' = [page EXCEPT !.at = "read", !.stamp = Stamp]
  /\ UNCHANGED <<events, log, proc, fold>>

\* What the tab is sent: the rows, if they differ from those sent before.
Told(rows) ==
  [page EXCEPT !.at = "open", !.sent = rows, !.shown = IF rows # page.sent THEN rows ELSE @]

SendsRows ==
  /\ page.at = "read"
  /\ fold' = Read
  /\ page' = [Told(RowsOf(Read)) EXCEPT !.failed = FALSE]
  /\ UNCHANGED <<events, log, proc>>

\* The log cannot be read: the fold is forgotten and no rows are sent.
SendsNone ==
  /\ page.at = "read"
  /\ fold' = Nothing
  /\ page' = [Told(<< >>) EXCEPT !.failed = TRUE]
  /\ UNCHANGED <<events, log, proc>>

SocketTicks == LooksAtLog \/ SendsRows

LogNext ==
  \/ \E h \in Proc : HookOpens(h) \/ HookWrites(h) \/ HookWritten(h)
  \/ LogForgotten
  \/ Paints
  \/ Connects
  \/ SocketDrops
  \/ PageLeaves
  \/ SocketTicks
  \/ SendsNone

----------------------------------------------------------------------------
(* Properties.                                                              *)

\* The file, the hooks, the fold and the tab are of their kinds.
LogTypeOK ==
  /\ events \in 0..MaxEvents
  /\ log \in File \cup {Nothing}
  /\ proc \in [Proc -> Writing \cup {Nothing}]
  /\ fold \in Fold \cup {Nothing}
  /\ page.at \in PageStage /\ page.shown \in Seq(EventNo)

\* Whatever was appended, half written, removed and written anew since the last
\* reading, the next comes to what folding the log from its start would, and one
\* session's rows are never grafted onto another's (logFold.same: "a filesystem
\* can hand a freed inode straight back").
FoldIsWhole == HasLog => Read.rows = log.lines

\* A tab that stays open shows in the end what there is to show, if there is a log
\* and the last reading of it did not fail.
RowsReachTab ==
  <>[](page.at \in {"open", "read"} /\ HasLog /\ ~page.failed) => []<>(page.shown = Now)
=============================================================================
