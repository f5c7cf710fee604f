---------------------------- MODULE ApbConsumer ----------------------------
(***************************************************************************)
(* The consumer driver, which plays an APB subordinate: each of its items  *)
(* is the answer to one request.                                           *)
(***************************************************************************)
EXTENDS ApbDrivers

Consumer == "consumer"
ConsumerItem == item[current_item[Consumer]]

ResponseReset == PREADY' = FALSE /\ PSLVERR' = FALSE /\ PRDATA' = X

\* Awaiting PSEL in the ReadOnly phase, and then the next edge, is awaiting
\* an edge with PSEL before it.
WakesConsumer ==
  \/ ReleasedByEdge(Consumer)
  \/ process[Consumer] = "align" /\ PSEL
  \/ process[Consumer] = "withdraw"

\* Deviation the runs detect: data that is driven whatever the request.
AnswerNoData ==
  /\ Resume(Consumer)
  /\ process[Consumer] = "align"
  /\ PREADY' = TRUE /\ PSLVERR' = ConsumerItem.slverr
  /\ process' = [process EXCEPT ![Consumer] = "withdraw"]
  /\ UNCHANGED <<rst, seen, dying, reading, sequencerVars, requestVars, PRDATA>>

Answer ==
  /\ Resume(Consumer)
  /\ process[Consumer] = "align"
  /\ PREADY' = TRUE /\ PSLVERR' = ConsumerItem.slverr
  /\ PRDATA' = IF seen.apb.op.we THEN PRDATA ELSE ConsumerItem.data
  /\ process' = [process EXCEPT ![Consumer] = "withdraw"]
  /\ UNCHANGED <<rst, seen, dying, reading, sequencerVars, requestVars>>

Withdraw ==
  /\ Resume(Consumer)
  /\ process[Consumer] = "withdraw"
  /\ ResponseReset
  /\ process' = [process EXCEPT ![Consumer] = "get"]
  /\ ItemDone(Consumer)
  /\ UNCHANGED <<rst, seen, dying, reading, item, item_queue, responses, requestVars>>

KillConsumer ==
  /\ KillProcess(Consumer)
  /\ ResponseReset
  /\ UNCHANGED requestVars

ConsumerInit == PREADY = FALSE /\ PSLVERR = FALSE /\ PRDATA = X

=============================================================================
