---------------------------- MODULE MCQuestions ----------------------------
(***************************************************************************)
(* One prefix, one agent and the owner, two hands and one text: answers    *)
(* differ in who gave them and where.                                      *)
(***************************************************************************)
EXTENDS Questions

CONSTANTS P, agent, h1, h2, yes

\* Every value a question's fields can take.
MCRec == Question
=============================================================================
