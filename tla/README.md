# Mustur, modelled and proved

Mustur keeps a project's records (decisions, questions, findings, jots) in a
SQLite log, serves them to a phone, runs terminal sessions of coding agents in
tmux, delivers answers into them, and decides who may do which. This directory
holds TLA+ modules translated from its Go source, TLC configurations that check
them on small instances, and TLAPS proofs of most of what they check.
`PROJECT.json` maps each definition to the lines it models, and lists the
components, the hazards, the runs, a mutant for every property, the findings
and the theorems.

Checking a run: `tlc -config <X>.cfg <module>`. Checking proofs: `tlapm <module>.tla`.

## The system

| Part (source) | State | Operations | How it meets the others | Hard part |
|---|---|---|---|---|
| Record store (`internal/store/store.go`, `supersede.go`, `attach.go`, `schema.sql`) | the event log, `record_latest` kept by a trigger, attachments | Create, Append, AppendAll, AmendIf, Supersede, Rebuild, Attach, Forget | every other part reads and writes records through it, from several processes | check and write in two statements; versions; batches; replay |
| Question queue (`internal/question`, `cmd/mustur/questions.go`, `internal/web/questions.go`) | fields of a question's record; what a session's pane was typed | ask, surfaced, answer, withdraw, the page's answer form | Append; a delivery into tmux between read and write | a read that is old when written; a delivery that may or may not have arrived |
| Intake box (`internal/intake`, `internal/web/intake.go`, `records.go`, `cmd/mustur/reroute.go`) | findings with their destination, status and pictures | file, reroute, keep, move button, amend, pictures after a filing | Create, AmendIf, Supersede, Append | resends; moves over amends; pictures that arrive late |
| States and words of findings (`internal/status/status.go`, `cmd/mustur/main.go`) | the lists projects declare, findings' fields | declare a list, add, amend, file, move | the box files and moves; the gate checks | the list that counts is the one of the moment of the write |
| Renames (`internal/store/rename.go`, `cmd/mustur/rename.go`) | the log, rewritten | rename of identifiers and of every citation, with the repointing of the box | every citation; jots and amends in flight | spellings that are issued again; all or nothing |
| Importer (`internal/linkctrl`, `cmd/mustur/import.go`) | another project's checkout; the records made of it | `--apply`, `--repair` | CreateAll, amends, beside people | numbers that shift by a stub; a repair that is interrupted, or run another day |
| Accounts (`internal/account`, `internal/web/auth.go`, `accountpage.go`, `cmd/mustur/accounts.go`) | accounts, roles, invitations, passkeys, ceremonies, sessions | invite, register, sign in, add or remove a passkey, change a role, disable | decides who may post at all | several transactions to a request; last owners; one-use secrets |
| Agent tokens, guard (`internal/account/token.go`, `internal/web/guard.go`) | tokens; a request on its way through the guard | issue, revoke, each question the guard asks, the recheck of a stream | in front of every page and of the tool server | several reads of the store to one request; a request without end |
| Held jots (`internal/store/held.go`, `internal/web/held.go`) | held rows, beside the log | hold, move, approve, discard | approve calls intake.File | claim before filing; a resend that moves a row; a crash between |
| Session adapter (`internal/session/session.go`, `sweep.go`, `internal/store/sessions.go`, `internal/web/start.go`) | tmux sessions, the table of sessions to offer back | Start, restore, Stop, Kill, update sweep, the CLI's hook | questions are delivered into its panes; the sweep reads the hub's pollers | tmux changes by itself; facts read seconds before they are acted on; a Start is several calls |
| Hub and socket (`internal/session/screen.go`, `internal/web/sessions.go`) | pollers shared by tabs, a channel for each tab | Watch, Close, polling, broadcast, adoption, linger, frames | session adapter, update sweep | the last tab leaving; a channel that is full; a session that ends and starts inside one poll |
| Permission gate (`internal/session/gate.go`, `internal/web/sessions.go`) | ask and answer files, a tab's pop-up | ask, press, time out, list, clear | the hook of a CLI inside a session | an answer that arrives as its ask gives up; a hook that was killed |
| Delivery (`internal/session/deliver.go`, `prompt.go`, `session.go`) | none; reads and types into a pane | DeliverRelayed, Send, SendChoice | called by the question queue and the page | a dialog drawn between look and press; two senders at once |
| Sub-agents (`internal/session/subagents.go`, `internal/web/sessions.go`) | a log file, what was folded of it, a tab's rows | hooks append, the server folds, a start removes, a socket tells | a Start calls ForgetSubagents | events out of order; a file replaced on its old inode |
| Scratch notes, badge counts (`internal/store/scratch.go`, `internal/web/questions.go`) | scratch rows, a two-second cache | write, sweep, count | attachments of the store | a sweep in two statements; a count in flight |
| Readers and renderers (pane readers, export, audit, verify, pages) | none | functions of text or of the store | | |

## Modules

Record store

- `RecordMap` is what a reader of the store is promised: records by
  identifier; a step files records nobody knew, rewrites one, or replaces one by
  a new one. It is the abstract specification.
- `RecordLog` holds the tables (`log`, `latest`, `attachment`) and the store's
  transactions as operators on them: `CreateTx`, `AppendTx`, `AmendIfTx`,
  `SupersedeTx`, `AttachTx`, `ForgetTx`, the trigger (`Inserted`), the replay
  (`Replayed`) and the serial (`NextId`). `Questions`, `Intake` and `Rename` are
  built from these transactions.
- `RecordStore` lets clients call them in any order. `Append` is two steps,
  because its check and its INSERT are two statements without a transaction;
  `GetVersioned` and the write that carries its version are two steps. It is
  shown to implement `RecordMap` (`StoreIsAMap`, and the theorem
  `StoreImplementsMap`).

Users of the record store

- `QuestionQueue` is what a reader of the queue is promised: a question asked stays,
  and whoever writes it writes what one lawful move (surface, withdraw, answer by
  the rules) makes of something it has said, if not always of what it said last.
  `Questions` is shown to implement it (`QuestionsMoveLawfully`, and the theorem
  `QuestionsImplementQueue`), `past` being read off the log. That nobody answers
  its own question (`AskerNeverAnswers`) holds of whatever moves lawfully: the run
  checks the refinement, and the theorem `AnsweredByAnother` states the invariant.
- `Questions` EXTENDS `RecordLog`. A hand is a command or a request; it reads a
  question, may type into the session's pane and writes the record back whole.
  Between the steps of one hand come those of another. `Deliver` is one step with
  the outcomes the code tells apart: arrived and said so, arrived and not
  said so, did not arrive.
- `Intake` EXTENDS `RecordLog`. A jot is filed (look for a resend, then
  create), kept, moved (read, then Supersede with the version), amended by a
  command, and given pictures one by one. `Narrowed` and `Route` are the choice
  of a destination by what the text mentions.
- `Rename` EXTENDS `RecordLog`. A record is reduced to what it cites, spells
  inside other words, declares and routes. `RenameTx` is the transaction with
  all it refuses; beside it the box files in two steps, an amend straddles,
  pictures and notes are written.
- `StatusWords` is the index of the declared lists and what it accepts;
  `Findings` the commands, filings and moves that are checked by it.
- `Importer` turns a tree (cut into findings, log entries, questions, ADRs,
  milestone files, phases) into records in the two passes of the code, applies
  them, and repairs them record by record.
- `Upkeep` puts `Rename`, `Findings` and `Importer` side by side: they share no
  state here, and `side` says which of them a behaviour is of, so that their
  states add up and do not multiply.

Beside the record store

- `Accounts`: each call of the account store is one statement or transaction,
  so one step; a request makes several. `job[h]` is what request h does next.
- `HeldJots`: the same for the table of held jots. Filing is one step here,
  because `Intake` takes it apart.

Sessions

- `SessionLife`: one project's session. `tmux` is the session of the name as tmux
  has it (with what its CLI shows), `row` its row of `session_started`, `frame`
  what the hub's poller last read. Start is five steps (`StartLooks`, `NewSession`,
  `Mark`, `Settle`, `Remember`, with a refusal at each), Stop and the sweep's
  Kill two to three; the CLI, people and the poller step in between, and `Cut`
  ends a caller wherever it is.
- `Hub`: the map of pollers, each with its tabs, its count of holders, its
  linger timer and its goroutine; a tab goes through Watch in five steps, under
  one lock each, and then reads its channel. The tmux session ends and starts
  by itself.
- `Gate`: a call's hook, its ask file, its answer file and what the CLI took;
  a tab's pop-up and the press it carries, in the two halves of AnswerAsk.
- `Delivery`: hands that type into one pane, each tmux call a step of its own,
  while the CLI draws dialogs and the session ends and starts.
- `Subagents`: the log file with its inode, hooks that append (the bytes of a
  line land between two steps), the fold the server keeps and a tab's socket.
  `SubagentRows`: `Apply`, the rows that folding makes of the events.
- `Guard`: a request through each question of the guard, one read at a time,
  while tokens are issued, revoked and expire and people's roles change.
- `Session` puts the last five side by side, by `side` as in `Upkeep`.

`MC*` modules give the constants their values. `RecordLogProofs` holds lemmas on
the log's operators; `RecordStoreProofs` (with the theorems about `Upkeep`),
`QuestionsProofs`, `IntakeProofs`, `AccountsProofs`, `HeldJotsProofs`, `HubProofs`
(with those about `SessionLife`) and `SessionProofs` the theorems.

Conventions. A variable `job` (or `read`, `write`, `request`, a tab's stage)
holds what a caller has read and not yet used: that is where staleness lives. A
history variable is named as one in its comment and no action reads it. `alone`
(or `stopped` in `Rename`) is the history variable "no two hands have been
under way at once": some promises of the code hold only while requests take turns,
and are stated under it in a run where hands do overlap; what overlap does to
them is told under Findings. `blind` says that an amend wrote over a state it had not read.

## Runs

| Run | Configuration | What it shows |
|---|---|---|
| `record_store` | two clients, one prefix, two payloads, one picture, four rows of log, an import that leaves a gap | the cache is what the log derives; checked writes lose nothing; identifiers are issued once; the store is a map of records |
| `questions` | two hands, one agent, one text, one question, three rows; the writes of one hand may fail; fair hands | a recorded delivery is of this answer; a question let go closes the gate again only if it is needed and an overlapping surfacing wrote it back open; in turn an answer is replaced only with `--reanswer`; what the page took reaches the log; the queue is `QuestionQueue`, so the asker never answers for itself |
| `intake` | two hands, one jot, destinations box, app and archive (opted out), one picture, one status word, four rows, two tries of a write | stubs and successors stay one line of records until an amend overwrites blindly; moves carry what the jot said last; in turn, pictures end on the live record |
| `accounts` | Ann, who owns the project, Bob, who is new; two requests at once, two passkeys, two sessions, one ceremony, one invitation | owned projects keep an owner; an invitation admits once; passkeys land where they were begun; who is signed in holds one |
| `held` | a reader, two owners of two projects, one line, two rows, three requests | a jot is in one place and ends once; it is filed where its approver owns |
| `session_life` | one person at a time, the sweep, the poller, a CLI that dies, two sessions; fair tickers | what is offered back is what was started and not ended; a restore opens no conversation older than its session; an idle session takes its update |
| `hub` | one tab, two pollers, a channel of one frame, three drawings, two sessions; fair tickers and tabs on their way in | a tab that is open shows what its pane said last or has it queued, was cut off, or joined after its pane had spoken since the tab's own reading and waits for it to speak again; a pane that is held is read; a session that stays gets a poller |
| `session` | gate: two calls, one tab. Delivery: two hands, two dialogs, two sessions. Sub-agents: two hooks, three events, three inodes; two agents of two types, five events logged. Guard: one token, one connection, a clock of one tick | an answer the CLI takes was pressed for that call; a pop-up for a call that is gone is cleared; no answer falls into a dialog that stood when the pane was seen clear; hands paste their own text; a fold is what folding from the start would be; rows reach the tab and fit their runs; nobody is let in without a right; a stream ends with its token |
| `upkeep` | three prefixes, one note, one hand, four rows, one rename; two findings, two projects, two lists, three writes; seven trees, two days, one edit by another | links mean the record they were written about; a spelling names one record; the box files where it moved; findings pass the gate; milestone references survive renumbering and interrupted repairs; a repair spares what others wrote and keeps stamps, but for what is written while it amends that very record |
| `session_swept` (violation) | as `session_life`, no fairness | the sweep starts a session without the conversation its CLI reported |
| `hub_linger` (violation) | as `hub`, two drawings | the linger timer of a replaced poller takes its successor out of the map |
| `rename_declared` (violation) | the renames of `upkeep` | a rename that keeps a citing record but not the declaring one rewrites the declaration away |

### Bounds, and why they are enough

- `MaxEvents` bounds the log: 4 rows hold create, read by both clients, a write
  under one of them and a Supersede (two rows at once). In the intake run each
  write asks for room when it is made, so two moves, or a move and an amend, race
  at 4 rows, and a stub is written over. `questions` has 3: an ask, an answer and
  what the other hand writes over either; a hand may begin any number of times
  without writing. `Tries` is 2 where the code retries more: every try does the same.
- Two hands: each property here relates one request to what came between two of
  its steps, and one other request can put any single transaction there, and
  several one after the other. The held run has three, so that a row can be put
  back by one while two more want it.
- One invitation, one ceremony at a time, two passkeys and two sessions: the
  races are over one secret and over the last passkey. One project suffices for
  owners because roles of different projects do not meet except in a disable,
  which asks for each; the proofs drop all of these bounds.
- `MaxSessions`: a conversation, a poller, a delivery or a log is begun in one
  session and met, or not, by the next.
- The hub: two pollers are the one in the map and one it forgot. With one tab
  the channel fills at `Buffer` = 1 (8 in the code) within `MaxDraws` = 3
  drawings. Two tabs meet only in the count of holders and in being told alike;
  the proofs of `KeepsUp` and `HeldPaneIsPolled` are for any number of tabs. A
  third poller would be beyond the run, so `SessionsArePolled` excuses the model,
  and no code, where a session wants one and there is none to give
  (`Cramped`: both are taken and the map has none that runs). It does ask that
  the session a late linger timer took out of the map gets a poller again:
  the one left behind runs on for good and its successor is the second.
- `Session`: two calls tell "this call" from "another"; two dialogs are one that
  was seen and one that came after; three inodes are two that hooks still hold
  open and one that is free; five events are a launch, a start, a stop and a
  resume with one more out of place. `Window` is 0 and `MaxClock` 1, so that a launch is in time or stale.
- `Upkeep`: `MaxRows` is 4, as the log's bound is. One rename of one pair and one serial to a prefix: renames of two
  pairs whose spellings collide with each other are not exercised. Trees differ from one another
  in one thing each that the importer refuses or falls back on. Day 2 is "another day".
- Times are not numbers elsewhere: a window, an invitation or a session may end at any
  step. That allows more than a clock would.
- Deadlock is not checked where a bounded log or a spent supply of identifiers
  stops every hand.

### Fairness

- `questions`: weak fairness of `Carry`, the steps of a hand that has begun: the
  answer handler detaches itself from the request (`context.WithoutCancel`), a
  command runs on by itself, and the delivery is bounded by `DeliverTimeout`.
  Nothing is assumed of people: nobody has to ask, answer or press. A hand of
  `Failing` is owed nothing.
- `session_life`: weak fairness of `Poll`, `Adopt`, `Dwell` and `Sweeps`: three
  tickers of the server (`PollEvery`, `SuperviseEvery`, `SweepEvery`), and half
  an hour passing. Nothing is assumed of the CLI or of people. `UpdateTaken`
  excuses a server that restarts for ever, whose dwell never counts to half an
  hour, and sweeps whose calls to tmux fail for ever. It also asks for a row: the
  sweep takes nothing that is not written down.
- `hub`: weak fairness of the adoption tick, of each poller's ticker, of a timer
  that is armed, of a socket's loop and its idle timer, and of a tab on its way
  through Watch, which is one goroutine that waits for nobody.
- `session`: the pop-up's tick, the socket's tick that looks at the log and the
  recheck of a stream's token, each a ticker of the server. Hooks, tabs, people
  and the CLI owe nothing; `RowsReachTab` speaks of a tab that stays open and a
  log that can be read.
- The others state no fairness and no liveness.

## Proofs

All proofs are checked by tlapm, for any number of clients, persons, keys, rows,
tabs, calls and requests and for any length of log. Assumptions are the named
ones on the constants; TLC evaluates each of them in a run.

- `RecordStoreProofs`. `TypeCorrect`; `CacheCorrect` (the cache holds each
  record of the log at its newest event: by the trigger's upsert, and by
  `ReplayIsNoStep` for a rebuild); `CheckedWritesLoseNothing`;
  `IdentifiersIssuedOnce` (through `NextIdFresh`: the serial is past the highest
  the log has carried, so no event has it); `StoreImplementsMap` (initial states
  map to initial states and each step to a step of `RecordMap` or none; it needs
  the cache's invariant, because readers read the cache and writers check it).
- `QuestionsProofs`. A question's record is `Sound` (its answer is not its
  asker's own) and `Told` (a delivery it claims was typed into the pane). Neither is
  inductive alone: a hand may write back what it read long ago. `Due` says of
  each hand that what it is about to write is sound and told whatever has been
  written since, because the pane only grows. `TurnsTaken` says that while hands
  take turns what a hand holds is what the table has; `ReplacedOnPurpose` rests
  on it. `HeldAgainOnlyByStaleSurfacing` is an action property: the only write a
  hand may be due to make that leaves a question open is a surfacing (`Due`), so
  one that is not needed stays let go; and in turn it leaves the status it
  found, so a needed one comes back only after an overlap. `QuestionsImplementQueue` maps each
  step to a step of `QuestionQueue` or none: what a hand holds is one move from
  something the log says of its question (`JobsMove`), which the log, only growing,
  never takes back; a delivery changes nothing a reader is promised.
- `IntakeProofs`. The line of records (`Straight`) is inductive with what each
  hand holds (`Holds`: what it read was the table's row at the version it read,
  and is still if the version is), with identifiers created once, and with
  pictures that hang on records that are there. `TurnsTaken` gives the property
  of pictures. Each of the four theorems has the hypothesis `JotRecord \subseteq
  Rec`, that the store takes the box's records; the instance has `Rec` equal to
  `JotRecord`. It is a hypothesis and no named assumption because TLC would
  have to enumerate the set to evaluate it.
- `AccountsProofs`. `TypeOK` first. `OwnersRemain` is an action property: the
  comparison with `soleOwner` is in the transaction that writes, so nothing read
  earlier matters. `InvitationsSpentOnce` from `SpentCount` (how often an
  invitation was redeemed is what its row says). `SignedInHoldsPasskey` needs
  that a request about to start a session is for an account with a passkey
  (`SigningIn`), which needs that removal takes a spare one (`KeyKept`).
  `PasskeysWhereBegun` needs a chain: a ceremony begun with an invitation, and a
  request about to redeem it, are for the address it was written to
  (`CeremonyFor`, `Redeeming`), so the account a passkey is stored for is the
  one its ceremony was begun for (`Keying`).
- `HeldJotsProofs`. `HeldInOnePlace`: its conjuncts together are inductive, one
  claim at a time being what keeps two hands from carrying one row.
  `HeldFiledWhereOwned` needs that an approval let through stays rightful for
  the row whoever carries it or puts it back meanwhile (`Rightly`): a row keeps
  its words for life.
- `HubProofs`. `TabsKeepUp` and `ReadWhileHeld` are inductive together with three facts: a
  poller's count of holders is the number of tabs that hold it (so that none of
  them is collected), the pane of the map is read or has ended, and a tab on
  its way in has been sent nothing. A tab that joins is at what its pane said last
  unless the pane spoke between the tab's reading and its joining; `missed` remembers
  that until the next frame, and `TabsKeepUp` says nothing of the tab so long. The count is a cardinality, so the proof
  goes through lemmas on a tab that joins and one that leaves.
- `HubProofs`, of `SessionLife`. `LifeTypeCorrect` says besides of each caller that it
  has what its step needs. `NoStaleConversationEver`: the pane of tmux is of the
  session begun last, and a row's report is of a session no older than the row's
  (`RowFits`), which a Start written late could break and does not, because it
  clears the conversation. `OfferedUntilEndedAlways` rests on `TurnsKept`: as long
  as callers take turns and none is cut, one caller is under way, and what is owed
  is what the table has, but for a Stop between its kill and its forgetting.
- `RecordStoreProofs`, of renames in `Upkeep`. The invariant (`RenameInv`) says of
  every citation, in an event or in the hands of an amend, that the record it names
  is the one it was written about, or that some record declares the spelling
  retired there, now and after every amend under way (`Vouched`). A rename keeps it
  in three ways: it renames the citation with its record; it leaves a kept
  record's citation, which the check before `--apply` found plain text and whose
  declaring record is kept (`Scoped`, `Carriers`); or it meets a
  citation an earlier rename left, and lets it be (`EarlierSpared`). `LinksKeepMeaning`
  follows; `SpellingNamesOneRecord` because a rename never makes one record of
  two (`ToKeepsApart`) and leaves each record's events in their order;
  `BoxFilesWhereMoved` because one record routes and an amend under way carries its
  route (`OneBox`). The cache after a rename is a replay, so its newest rows are
  found by `ReplayIsNewest`. Each has the hypothesis `Text \subseteq Rec`, that the
  store takes the records; the instance has `Rec` equal to `Text`, and `Text`, like
  `JotRecord`, is more than TLC should enumerate for a named assumption.
- `RecordStoreProofs`, of findings in `Upkeep`. `FindingsPassAlways`: a write on its way
  was accepted as it stands by the lists it was judged by, whoever else writes before
  it lands (`OnItsWay`); a move that finds the version it read finds the data it read,
  versions being given once, so what it writes is that data carried
  (`CarriesWhatStands`). That carrying, filing and retiring need no check of their own is
  three lemmas about any lists in which the two words mean what the move counts on
  (`CarriedAccepted`, `UntriagedAccepted`, `RetiredAccepted`), and they rest on `PutSound`:
  writing one field of a record that spells each key once leaves the other as it was.
  The assumption is that lists and flags are sequences.
- `RecordStoreProofs`, of the importer in `Upkeep`. `CitationsKeepMeaning`: both passes rank the
  milestones that are given a place, so a citation rewritten by the rank is of
  the milestone the tree meant (`ReadingWithMeans`); a rank is injective
  (`RankInjective`), because every number ranks above the smaller ones; and all that
  is kept, planned or about to be amended was read from the same tree, which has
  the same citations on any day (`CitedAnyDay`). The assumption is that a checkout
  is finite and nothing in it has been rewritten (`TreeAssumption`).
  `OthersAreSpared` and `StampsStay` are action properties of what a repair
  looked at: it plans only records whose last writer is the importer, with the day
  the store has, and both are still so when it amends unless somebody wrote
  the record in between (`raced`).
- `SessionProofs`. The five parts share no state, so each invariant is kept by
  the other parts' steps at once, and one module proves about each:
  `PressDecides` (every answer file, and every press a tab carries, is among the
  presses made for its call); `OwnTexts` (a hand's buffer holds its own text or
  none); `SeenDialogsSpared` (a dialog drawn before a hand last saw the pane
  clear has gone by the time it types, because drawings are numbered in
  order); `FoldsWhole` (what is kept is a prefix of the log whenever inode and
  first line agree, because no two lines carry one event: a log made anew begins
  with an event the old one cannot have begun with); `RowsFitRuns` (`Apply` keeps
  each row fit, for any event); `LetInRightly` (what a request has had, it keeps
  while it lasts, and each question asks for what its caller has then).

Every invariant of a passing run, and every action property, is a theorem. Only
model-checked is liveness: `AnswerReachesRecord`, `UpdateTaken`,
`SessionsArePolled`, `GoneIsCleared`, `RowsReachTab`, `StreamEndsWithToken`.
Out of the prover's reach and left to TLC: liveness under fairness and ENABLED,
and induction over data.

## Findings

- A conversation forgotten (`session_swept`): Start writes the row after it has
  watched the session for `SettleFor`, the CLI reports its conversation as it
  starts, and a report that finds no row is dropped. The sweep, or a restore,
  then starts the session empty.
- A poller taken from under its tab (`hub_linger`): the linger timer's function
  deletes whatever pane the map has by then. `Watching` answers false for the
  tab that holds the new one, and the update sweep may restart a session
  somebody has open.
- A declaration rewritten away (`rename_declared`): the check of kept records
  asks the declarations as they stand before the rename, which then rewrites
  the declaring record like any other unless it is kept too.

What the models also show, each a counterexample when the property beside it is
stated without the condition it has:

Questions and the box

- A surfacing takes an answer back: `mustur surfaced`, and the second half of
  `mustur ask`, write back the whole record they read (questions.go:400). One that reads
  before an answer or a withdrawal and writes after it leaves the question open and
  unanswered, though "MarkSurfaced ... says nothing about whether it was answered"
  (question.go:340); a needed one holds the gate again (`HeldAgainOnlyByOverlap` says
  that nothing else makes it, and that one not needed never comes back).
- Two answers that overlap are both typed and both written, the later over the
  earlier without `--reanswer`: both checks come before either write
  (`AnswerChangedOnPurpose` is under `alone`).
- `mustur amend` reads, merges and appends with no version, so a record
  superseded in between makes its claim again beside its replacement
  (`LineOfRecords` is under `~blind`).
- Two resends of a jot that overlap both look before either creates, and make
  two records. A picture stored after a move stays on the stub. A Keep is
  undone by a move.
- Two sends of one held line make two rows. A held row that is moved between
  check and claim is taken by an owner of where it no longer points.

Accounts and the guard

- A sign-in that looked its account up before a disable leaves a session after
  it. The session is refused while the account is disabled, and good again when
  it is enabled.
- The guard reads the session and the role one after the other; a right had at
  the first and lost at the second, or the other way about, is what
  `LetInByRight` says "at some moment" for. Sockets and streams of browsers are
  not rechecked, only those of tokens. A GET with a revoked token is sent to
  sign in, not refused.

Sessions

- A Start whose link drops (it runs on the request's context) after it marked the
  session leaves one that runs with no row, against sweep.go:191 ("A session Mustur
  started always has a row"); cut before the mark, it leaves one that neither
  Start (tmux refuses the name) nor Stop (not ours) can touch.
- The sweep asks the poller for `Furniture` and `Quiet` without asking whether it
  has ended, so until `adopt` replaces it the frame of a session that is gone may
  have the next one taken. It acts on facts a poll old.
- An answer pressed as its hook leaves passes the check and is then written
  beside no ask: the file answers nobody and stays until the next start. After a refused press the page
  clears the pop-up without forgetting what it was last told, and shows it
  again only when something changes.
- A dialog drawn between the look and the paste takes an answer's text and its
  Enter: `NeverIntoSeenDialog` says only that it was not there at the look.
- A frame said between a tab's own reading and its joining the channels
  (screen.go:222) does not reach that tab. A drawing is in the next frame; an end
  has no next, and leaves the tab waiting for its idle timer (`missed` in `KeepsUp`).
- A tab that reconnects to a session whose log is gone is sent no empty list and
  keeps the rows it had.

Upkeep

- `Rename` assumes what the command asks for, a service that is stopped: a jot
  or an amend under way may write the old spelling after it (`stopped`).
- A record that a rename kept, because it cites the old spelling as plain text, is
  not safe from the next one. If the spelling has been issued again and is renamed
  again, the kept citation is rewritten with the rest and then leads to the
  other record; and if the record that declares the retirement is itself renamed
  away from, or the kept one rewritten, plain text becomes a link. `carried` therefore
  asks of every rename that the records it declares retirements in are kept, and those an
  earlier one kept let be (`EarlierSpared`). It takes two renames and a filing
  between them, more than the run's bound of one serial: found by the proof.
- With two routing records for one prefix, repointing one leaves the other filing
  there. The run has one routing record, the box's.
- A repair looks at a record's history and appends over it in another transaction
  (linkctrl.go:162 and :199): what somebody writes in between is overwritten, against
  "A record anybody else has written since the import is left alone" (linkctrl.go:136),
  and a day they gave it with it (`raced` in `RepairSparesOthers` and `StampStays`).
- Stub milestones and ADRs without a date carry the day they are made without
  saying so, and a repair on another day stamps them anew, against
  linkctrl.go:181; `StampStays` speaks of records that say so. A milestone's
  reference to its phase dangles when a repair is interrupted before the phases
  are created.

Read and not modelled: the account page asks whether the presser owns a project
and writes in another transaction (accountpage.go:609); a registration that dies
between Redeem and AddCredential leaves an account with its role and no passkey
(auth.go:434); a poller of an ended session answers for a new one
(screen.go:436); the scratch sweep deletes pictures and then notes
(scratch.go:100); a count in flight when the badge cache is forgotten
(questions.go:876), for which the code holds one lock across the count.

## What is left out

- Scratch notes and badge counts: two statements, and a lock; each a few lines
  whose order the code fixes.
- `internal/store`: Append as a create racing a seed (`SeedId` may be given;
  `IssuedOnce` is stated for a store nobody seeds); migration at Open. Renames
  are checked in their own run, not inside `RecordStore`'s, whose identifiers are fixed.
- Questions: options, wording, notes on an answer.
- Intake: amend's `--replace` and `--drop`, `Deliberate` filings (no code outside
  tests sets it), changes to the registry of destinations, the order of two
  findings filed in the same second, matching of words in a text (`Mentions` is
  given).
- Findings: `FindingsPass` judges by the lists as the write read them, not by those
  of now, and says nothing of a list without the two words a move counts on, nor of
  a finding such a list let pass before (`judged`).
- The importer: the lists a project declares are part of the tree, and stay as they are
  from the import to the last repair, although each run reads them from the store; a
  milestone in two phase tables falls to the smaller (the code visits them in no order).
- Findings and renames: trimming and wording of refusals; how an identifier is
  found in a text (a record's citations are given). The importer: how Markdown
  is cut into cells, titles, sections and links.
- Accounts: a passkey's counter and label, `last_seen`, `grant_removed`, the
  cryptography. Tokens: the secret and its hash.
- `SessionLife`: one project, so a listing answers about one name; a hook is one
  step of a CLI that is alive; a typed line and a turn are both `busy`; people
  who come and go do so unseen between two looks; the command line but for
  `--resume`; directories, the systemd scope, sizes.
- Sessions: which calls are gated and how they are summarised, the hooks'
  command line, the order of rows, what a frame shows (a drawing is a number).
- Export, audit, verify, pane readers, Markdown and pages: functions of the
  store or of text, with no state of their own; what pane readers conclude is an
  input of `SessionLife`, `Hub` and `Delivery`. The JavaScript client.

What would come next: two pairs to a rename; two tabs in the run of the hub; the
scratch sweep in the run of `HeldJots`; an abstract custody of held jots that
`HeldJots` implements.
