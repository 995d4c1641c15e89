----------------------------- MODULE Delivery -----------------------------
(***************************************************************************)
(* Typing into the pane of one session: an answer delivered to the session *)
(* that asked (internal/session/deliver.go), and a message from a tab      *)
(* (Send, SendChoice and SendKey in session.go and prompt.go, readInput in *)
(* internal/web/sessions.go).                                              *)
(*                                                                         *)
(* Each call to tmux is a step.  Between two of them the CLI draws and     *)
(* takes away dialogs, the session ends and another starts, and another    *)
(* hand types: the server and the `mustur` commands hold no common lock.   *)
(***************************************************************************)
EXTENDS Naturals, Sequences

CONSTANTS
  Hand,       \* texts to be typed, each by a request or a command of its own
  Nobody,     \* no value
  MaxDialogs, \* bound: dialogs the CLI draws, numbered in order
  MaxSessions \* bound: sessions of the name, numbered in order

ASSUME DeliveryAssumption == MaxDialogs \in Nat /\ MaxSessions \in Nat

VARIABLES
  session,   \* the session's number; `up` says whether it lives
  up,
  dialog,    \* what the pane is showing over the composer, or Nobody
  drawn,     \* dialogs drawn so far
  box,       \* what the composer holds: the texts put in it, in order
  buffer,    \* tmux's buffers, by the hand that named them
  job,       \* hand -> how far it has got
  put,       \* history: what was typed or pasted, with whose it was
  hit        \* history: the dialogs that took a text, its Enter or its key

deliveryVars == <<session, up, dialog, drawn, box, buffer, job, put, hit>>

\* The session survey, and every other prompt.
Kind == {"survey", "prompt"}

Dialog == [n : 1..MaxDialogs, kind : Kind]

\* A delivery looks at the pane, may dismiss a survey and look again, and sends;
\* a tab sends.
Step == {"look", "key", "gone", "ready", "insert", "enter", "typed", "not"}

\* `looked`: the dialogs drawn when the pane was last seen to be clear, or to show
\* the survey that is then dismissed.  `blind`: it could not be read.
Job ==
  [op : {"answer", "message"}, at : Step, looked : 0..MaxDialogs,
   blind : BOOLEAN, lines : BOOLEAN]

ASSUME DeliveryNobody == Nobody \notin Hand /\ Nobody \notin Job /\ Nobody \notin Dialog

Idle(h) == job[h] = Nobody

DeliveryInit ==
  /\ session = 0 /\ up = FALSE
  /\ dialog = Nobody /\ drawn = 0
  /\ box = << >>
  /\ buffer = [h \in Hand |-> Nobody]
  /\ job = [h \in Hand |-> Nobody]
  /\ put = {} /\ hit = {}

----------------------------------------------------------------------------
(* The pane.                                                                *)

DrawsDialog(kind) ==
  /\ up /\ dialog = Nobody /\ drawn < MaxDialogs
  /\ drawn' = drawn + 1
  /\ dialog' = [n |-> drawn', kind |-> kind]
  /\ UNCHANGED <<session, up, box, buffer, job, put, hit>>

\* Somebody answers it at the terminal, or it goes by itself.
DialogGoes ==
  /\ dialog # Nobody
  /\ dialog' = Nobody
  /\ UNCHANGED <<session, up, drawn, box, buffer, job, put, hit>>

SessionGoes ==
  /\ up /\ up' = FALSE
  /\ dialog' = Nobody /\ box' = << >>
  /\ UNCHANGED <<session, drawn, buffer, job, put, hit>>

SessionComes ==
  /\ ~up /\ session < MaxSessions
  /\ up' = TRUE /\ session' = session + 1
  /\ UNCHANGED <<dialog, drawn, box, buffer, job, put, hit>>

\* A dialog takes what is typed over it.
Hit(h) == [n |-> dialog.n, by |-> h, looked |-> job[h].looked, blind |-> job[h].blind]

----------------------------------------------------------------------------
(* A delivery looks before it types.                                        *)

Goes(h, step) == job' = [job EXCEPT ![h].at = step]

Refuses(h) == Goes(h, "not")

\* Answer and message; the text may be of several lines.
Begin(h, op, lines) ==
  /\ Idle(h)
  /\ job' = [job EXCEPT ![h] =
       [op |-> op, at |-> IF op = "answer" THEN "look" ELSE "ready", looked |-> 0,
        blind |-> FALSE, lines |-> lines]]
  /\ UNCHANGED <<session, up, dialog, drawn, box, buffer, put, hit>>

\* Seen clear.
Clear(h) == job' = [job EXCEPT ![h].at = "ready", ![h].looked = drawn]

\* Alive, then Dialog: a survey is dismissed, any other dialog refused.
Look(h) ==
  /\ ~Idle(h) /\ job[h].at = "look"
  /\ \/ ~up /\ Refuses(h)
     \/ up /\ dialog = Nobody /\ Clear(h)
     \/ /\ up /\ dialog # Nobody /\ dialog.kind = "survey"
        /\ job' = [job EXCEPT ![h].at = "key", ![h].looked = drawn]
     \/ up /\ dialog # Nobody /\ dialog.kind # "survey" /\ Refuses(h)
  /\ UNCHANGED <<session, up, dialog, drawn, box, buffer, put, hit>>

\* A pane that cannot be read is typed into.
LookFails(h) ==
  /\ ~Idle(h) /\ job[h].at = "look" /\ up
  /\ job' = [job EXCEPT ![h].at = "ready", ![h].blind = TRUE]
  /\ UNCHANGED <<session, up, dialog, drawn, box, buffer, put, hit>>

\* dismissSurvey, SendChoice: the key goes to whatever is there by now.
Dismiss(h) ==
  /\ ~Idle(h) /\ job[h].at = "key"
  /\ IF ~up THEN Refuses(h) /\ UNCHANGED <<dialog, box, hit>>
     ELSE /\ Goes(h, "gone")
          /\ dialog' = Nobody
          /\ IF dialog = Nobody
               THEN box' = Append(box, h) /\ UNCHANGED hit
               ELSE /\ UNCHANGED box
                    /\ hit' = IF dialog.kind = "survey" THEN hit
                              ELSE hit \cup {Hit(h)}
  /\ UNCHANGED <<session, up, drawn, buffer, put>>

\* The row names no Dismiss, or tmux does not take the key.
DismissFails(h) ==
  /\ ~Idle(h) /\ job[h].at = "key"
  /\ Refuses(h)
  /\ UNCHANGED <<session, up, dialog, drawn, box, buffer, put, hit>>

\* Mutant: a survey whose key was pressed is taken to be gone.
GoneUnseen == TRUE

\* The read after the key has to find the pane clear.
SeenGone == up /\ dialog = Nobody

\* It is read until it is clear, shows something else, or surveyGoneWait is over;
\* a survey still there, or a read that fails, is waited for.
AwaitGone(h) ==
  /\ ~Idle(h) /\ job[h].at = "gone"
  /\ SeenGone \/ (dialog # Nobody /\ dialog.kind # "survey")
  /\ IF SeenGone THEN Clear(h) ELSE Refuses(h)
  /\ UNCHANGED <<session, up, dialog, drawn, box, buffer, put, hit>>

GivesUp(h) ==
  /\ ~Idle(h) /\ job[h].at = "gone"
  /\ Refuses(h)
  /\ UNCHANGED <<session, up, dialog, drawn, box, buffer, put, hit>>

----------------------------------------------------------------------------
(* Send: the text, then Enter.                                              *)

\* Mutant: sends to one session share a buffer.
SharedBuffer(h) == CHOOSE x \in Hand : TRUE

\* nextBuffer: a name per send and process.
BufferOf(h) == h

\* Alive; a text of several lines goes into a buffer.
Ready(h) ==
  /\ ~Idle(h) /\ job[h].at = "ready"
  /\ IF ~up THEN Refuses(h) /\ UNCHANGED buffer
     ELSE /\ Goes(h, "insert")
          /\ buffer' = IF job[h].lines THEN [buffer EXCEPT ![BufferOf(h)] = h] ELSE buffer
  /\ UNCHANGED <<session, up, dialog, drawn, box, put, hit>>

\* The text that goes in.
Text(h) == IF job[h].lines THEN buffer[BufferOf(h)] ELSE h

\* paste-buffer -d, or send-keys -l: into the composer, or into a dialog.
Insert(h) ==
  /\ ~Idle(h) /\ job[h].at = "insert"
  /\ buffer' = IF job[h].lines THEN [buffer EXCEPT ![BufferOf(h)] = Nobody] ELSE buffer
  /\ IF ~up \/ Text(h) = Nobody
       THEN Refuses(h) /\ UNCHANGED <<box, put, hit>>
       ELSE /\ Goes(h, "enter")
            /\ IF dialog = Nobody
                 THEN /\ box' = Append(box, Text(h))
                      /\ put' = put \cup {[by |-> h, text |-> Text(h), sent |-> FALSE]}
                      /\ UNCHANGED hit
                 ELSE hit' = hit \cup {Hit(h)} /\ UNCHANGED <<box, put>>
  /\ UNCHANGED <<session, up, dialog, drawn>>

EnterFails(h) == Refuses(h)

\* Enter submits all the composer holds, or presses what the dialog has selected.
Enter(h) ==
  /\ ~Idle(h) /\ job[h].at = "enter"
  /\ IF ~up THEN EnterFails(h) /\ UNCHANGED <<dialog, box, put, hit>>
     ELSE /\ Goes(h, "typed")
          /\ IF dialog = Nobody
               THEN /\ box' = << >>
                    /\ put' = {[p EXCEPT !.sent = @ \/ \E i \in DOMAIN box : box[i] = p.text] : p \in put}
                    /\ UNCHANGED <<dialog, hit>>
               ELSE /\ dialog' = Nobody /\ hit' = hit \cup {Hit(h)}
                    /\ UNCHANGED <<box, put>>
  /\ UNCHANGED <<session, up, drawn, buffer>>

\* tmux fails or the delivery's time is over: what is in the composer stays there,
\* and the buffer is dropped.
Breaks(h) ==
  /\ ~Idle(h) /\ job[h].at \in {"ready", "insert", "enter"}
  /\ Refuses(h)
  /\ buffer' = [buffer EXCEPT ![BufferOf(h)] = Nobody]
  /\ UNCHANGED <<session, up, dialog, drawn, box, put, hit>>

DeliveryNext ==
  \/ \E kind \in Kind : DrawsDialog(kind)
  \/ DialogGoes
  \/ SessionGoes
  \/ SessionComes
  \/ \E h \in Hand, op \in {"answer", "message"}, lines \in BOOLEAN : Begin(h, op, lines)
  \/ \E h \in Hand :
       \/ Look(h) \/ LookFails(h) \/ Dismiss(h) \/ DismissFails(h)
       \/ AwaitGone(h) \/ GivesUp(h) \/ Ready(h) \/ Insert(h) \/ Enter(h)
       \/ Breaks(h)

----------------------------------------------------------------------------
(* Properties.                                                              *)

\* What is shown, typed and under way is of its kind, and nothing is shown over a
\* session that is gone.
DeliveryTypeOK ==
  /\ session \in 0..MaxSessions /\ up \in BOOLEAN
  /\ dialog \in Dialog \cup {Nobody} /\ drawn \in 0..MaxDialogs
  /\ box \in Seq(Hand)
  /\ buffer \in [Hand -> Hand \cup {Nobody}]
  /\ job \in [Hand -> Job \cup {Nobody}]
  /\ put \subseteq [by : Hand, text : Hand, sent : BOOLEAN]
  /\ ~up => dialog = Nobody /\ box = << >>

\* A dialog that an answer's text, Enter or key falls into was drawn after the
\* delivery last saw the pane clear: never one that was there to be seen, however
\* the survey, its dismissal and other hands come between (Deliver: "Never into a
\* pane that is showing a dialog").
NeverIntoSeenDialog ==
  \A x \in hit : job[x.by].op = "answer" /\ ~x.blind => x.n > x.looked

\* Whatever is typed at once, each hand puts in its own text, and once (Send: "Two
\* sends to the same session used to share one buffer: the second set-buffer
\* overwrote the first, the first paste delivered the wrong text").
OwnText == \A p \in put : p.by = p.text
=============================================================================
