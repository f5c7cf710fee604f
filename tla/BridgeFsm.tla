----------------------------- MODULE BridgeFsm -----------------------------
(* The state machine of obi_to_apb_intf as functions of its state register, *)
(* so that a model can hold one bridge (ObiToApb) or one per subsystem      *)
(* (SocIsolation).                                                          *)

States == {"SETUP", "ACCESS", "HANDSHAKE"}

\* Deviations the runs detect: no handshake state after the grant, and a
\* handshake that goes back to ACCESS without looking at the request.
NextStateNoHandshake(s, req_i, pready) ==
  IF (s = "SETUP" /\ req_i) \/ (s = "ACCESS" /\ ~pready) THEN "ACCESS" ELSE "SETUP"

NextStateHandshakeToAccess(s, req_i, pready) ==
  CASE s = "SETUP"     -> IF req_i THEN "ACCESS" ELSE "SETUP"
    [] s = "ACCESS"    -> IF pready THEN "HANDSHAKE" ELSE "ACCESS"
    [] s = "HANDSHAKE" -> "ACCESS"

\* state_d, from state_q and the request and PREADY of the cycle.
NextState(s, req_i, pready) ==
  CASE s = "SETUP"     -> IF req_i THEN "ACCESS" ELSE "SETUP"
    [] s = "ACCESS"    -> IF pready THEN "HANDSHAKE" ELSE "ACCESS"
    [] s = "HANDSHAKE" -> IF req_i THEN "ACCESS" ELSE "SETUP"

\* gnt feeds PREADY through in the access phase; rvalid is the handshake.
Grants(s, pready) == s = "ACCESS" /\ pready
Responds(s) == s = "HANDSHAKE"

=============================================================================
