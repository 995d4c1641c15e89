------------------------------ MODULE Session ------------------------------
(***************************************************************************)
(* What happens at one session besides its life and its screen: the calls  *)
(* it holds for an answer (Gate), the texts typed into its pane            *)
(* (Delivery), the log of its sub-agents on its way to a tab (Subagents),  *)
(* the rows made of it (SubagentRows), and the guard its page is behind    *)
(* (Guard).  The five share no state.  A behaviour is one of one of them,  *)
(* so that their states add up and do not multiply.                        *)
(***************************************************************************)
EXTENDS Gate, Delivery, Subagents, SubagentRows, Guard

VARIABLE side   \* which of the five moves

vars == <<side, gateVars, deliveryVars, logVars, rowVars, guardVars>>

Init ==
  /\ GateInit /\ DeliveryInit /\ LogInit /\ RowsInit /\ GuardInit
  /\ side \in {"gate", "pane", "log", "rows", "guard"}

Next ==
  /\ UNCHANGED side
  /\ \/ side = "gate" /\ GateNext /\ UNCHANGED <<deliveryVars, logVars, rowVars, guardVars>>
     \/ side = "pane" /\ DeliveryNext /\ UNCHANGED <<gateVars, logVars, rowVars, guardVars>>
     \/ side = "log" /\ LogNext /\ UNCHANGED <<gateVars, deliveryVars, rowVars, guardVars>>
     \/ side = "rows" /\ RowsNext /\ UNCHANGED <<gateVars, deliveryVars, logVars, guardVars>>
     \/ side = "guard" /\ GuardNext /\ UNCHANGED <<gateVars, deliveryVars, logVars, rowVars>>

Spec == Init /\ [][Next]_vars

\* The sockets' tickers run on, and the watch over a running request's token.
FairSpec ==
  /\ Spec
  /\ \A t \in Tab :
       WF_vars(side = "gate" /\ Tick(t) /\ UNCHANGED <<side, deliveryVars, logVars, rowVars, guardVars>>)
  /\ WF_vars(side = "log" /\ SocketTicks /\ UNCHANGED <<side, gateVars, deliveryVars, rowVars, guardVars>>)
  /\ \A c \in Conn :
       WF_vars(side = "guard" /\ Recheck(c) /\ UNCHANGED <<side, gateVars, deliveryVars, logVars, rowVars>>)

\* Each is in states of its kinds.
TypeOK == GateTypeOK /\ DeliveryTypeOK /\ LogTypeOK /\ RowsTypeOK /\ GuardTypeOK
=============================================================================
