------------------------------ MODULE ObiToApb ------------------------------
(***************************************************************************)
(* obi_to_apb_intf: the bridge between an OBI subordinate port and an APB  *)
(* manager port.  addr, we, wdata and req are fed through (PSEL = req);    *)
(* the FSM supplies PENABLE, gates PREADY into gnt, and answers in the     *)
(* cycle after the grant from registers that sample PRDATA and PSLVERR at  *)
(* every edge.                                                             *)
(***************************************************************************)
EXTENDS BusTypes, BridgeFsm

VARIABLES
  state,  \* state_q
  data,   \* rdata register
  err     \* err register

bridgeVars == <<state, data, err>>

BridgeTypeOK == state \in States /\ data \in Data /\ err \in BOOLEAN

BridgeInit == state = "SETUP" /\ data = 0 /\ err = FALSE

gnt(pready) == Grants(state, pready)
rvalid == Responds(state)

\* Deviation the runs detect: read data that is not sampled in the cycle of
\* the grant.
BridgeEdgeLateData(req_i, pready, prdata, pslverr) ==
  /\ state' = NextState(state, req_i, pready)
  /\ data' = IF pready THEN data ELSE prdata
  /\ err' = pslverr

BridgeEdge(req_i, pready, prdata, pslverr) ==
  /\ state' = NextState(state, req_i, pready)
  /\ data' = prdata
  /\ err' = pslverr

=============================================================================
