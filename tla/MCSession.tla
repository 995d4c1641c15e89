----------------------------- MODULE MCSession -----------------------------
(* Two calls and one tab; two texts, two dialogs and two sessions; two hooks *)
(* and three events; two sub-agents, launched as two types and started as    *)
(* one; one token and one request.                                           *)
EXTENDS Session

CONSTANTS a1, a2, y1, y2

MCPayloads ==
  [event : {"PreToolUse"}, agent : {Unset, a1}, type : {y1, y2}, tool : {"Agent"}]
    \cup [event : {"PostToolUse"}, agent : {a1}, type : {Unset}, tool : {"Agent"}]
    \cup [event : {"SubagentStart"}, agent : {a1, a2}, type : {y1}, tool : {Unset}]
    \cup [event : {"SubagentStop"}, agent : {a1}, type : {Unset}, tool : {Unset}]
=============================================================================
