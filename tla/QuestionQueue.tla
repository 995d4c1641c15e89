---------------------------- MODULE QuestionQueue ----------------------------
(***************************************************************************)
(* What the queue of questions promises its readers, with the commands,    *)
(* the requests, the sessions and the log hidden.  A question once asked   *)
(* stays.  Whoever writes it writes what one lawful move makes of          *)
(* something the question has said: not always of what it said last, for   *)
(* a writer may have read it a while ago, and then the moves in between    *)
(* are lost.  But a question never says what no writer saw: no two writes  *)
(* are mixed, and none goes around the rules on who may answer.            *)
(***************************************************************************)

CONSTANTS Ids, Askers, Sayings, Unsaid

VARIABLES
  now,   \* question -> what it says
  past   \* question -> all it has said

Asked(by) ==
  [status |-> "open", surfaced |-> FALSE, askedBy |-> by, answer |-> Unsaid, relayed |-> FALSE]

MayBeSaid(q) == {said \in Sayings : said.by = q.askedBy => said.elsewhere}

AnsweredBy(q, said) ==
  [q EXCEPT !.status = "answered", !.answer = said, !.relayed = @ \/ said.elsewhere]

Moves(q) ==
  {[q EXCEPT !.surfaced = TRUE], [q EXCEPT !.status = "withdrawn"]}
    \cup {AnsweredBy(q, said) : said \in MayBeSaid(q)}

Init ==
  /\ now = [i \in {} |-> Unsaid]
  /\ past = [i \in {} |-> {}]

New == DOMAIN now' \ DOMAIN now

Ask(i, by) ==
  /\ i \in Ids
  /\ now' = [j \in DOMAIN now \cup {i} |-> IF j = i THEN Asked(by) ELSE now[j]]
  /\ past' = [j \in DOMAIN past \cup {i} |-> IF j = i THEN {Asked(by)} ELSE past[j]]

Move(i, r) ==
  /\ \E q \in past[i] : r \in Moves(q)
  /\ now' = [now EXCEPT ![i] = r]
  /\ past' = [past EXCEPT ![i] = @ \cup {r}]

Next ==
  \/ \E i \in New, by \in Askers : Ask(i, by)
  \/ \E i \in DOMAIN now : \E q \in past[i] : \E r \in Moves(q) : Move(i, r)

Spec == Init /\ [][Next]_<<now, past>>
=============================================================================
