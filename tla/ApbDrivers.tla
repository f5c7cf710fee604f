----------------------------- MODULE ApbDrivers -----------------------------
(***************************************************************************)
(* The APB drivers: the base driver, which gets the items and is killed by *)
(* a reset, and its producer, which plays the bus manager.  The three      *)
(* tasks of a driver share its process: drive_transaction awaits the end   *)
(* of a reset and starts it, handle_reset kills it.                        *)
(***************************************************************************)
EXTENDS ApbInterface, UvmSequencer

CONSTANTS
  ApbPorts,           \* the APB drivers there are
  enable_masked_data  \* cfg knob: bytes without a strobe are driven as 0

VARIABLE
  process  \* process[d]: what the process of driver d awaits; "reset": it has none

Alive(d) == process[d] # "reset"

\* The driver's tasks that an edge resumes: drive_transaction, when the reset
\* is over, and the process, when the edge is what it awaits.
ReleasedByEdge(d) == process[d] = "reset" /\ rst = "1"

KilledByEdge == {d \in ApbPorts : Alive(d) /\ rst = "0"}

StartProcess(d) ==
  /\ Resume(d)
  /\ process[d] = "reset"
  /\ process' = [process EXCEPT ![d] = "get"]
  /\ UNCHANGED <<rst, seen, dying, reading, sequencerVars, requestVars, responseVars>>

\* Takes the next item; drive_pins begins by awaiting an edge.
GetItem(d) ==
  /\ EdgeTasksDone
  /\ process[d] = "get"
  /\ GetNextItem(d)
  /\ process' = [process EXCEPT ![d] = "align"]
  /\ UNCHANGED <<cocotbVars, requestVars, responseVars>>

\* Deviation the runs detect: a kill that leaves the item with the driver.
KillProcessKeepItem(d) ==
  /\ Kill(d)
  /\ process' = [process EXCEPT ![d] = "reset"]
  /\ UNCHANGED <<rst, seen, reading, sequencerVars>>

\* The item under way is ended without a response.
KillProcess(d) ==
  /\ Kill(d)
  /\ process' = [process EXCEPT ![d] = "reset"]
  /\ ItemDone(d)
  /\ UNCHANGED <<rst, seen, reading, item, item_queue, responses>>

-----------------------------------------------------------------------------
(* The producer.                                                            *)
Producer == "producer"
ProducerItem == item[current_item[Producer]]

RequestReset == PSEL' = FALSE /\ PENABLE' = FALSE /\ op' = NoOp

WakesProducer ==
  \/ ReleasedByEdge(Producer)
  \/ process[Producer] \in {"align", "enable"}
  \/ process[Producer] = "ready" /\ PREADY

\* The bytes of the word that are not strobed are driven as 0.
DrivenData(i) == IF enable_masked_data /\ ~i.strb THEN 0 ELSE i.data

DriveSetup ==
  /\ Resume(Producer)
  /\ process[Producer] = "align"
  /\ PSEL' = TRUE /\ PENABLE' = FALSE
  /\ op' = [we |-> ProducerItem.we, addr |-> ProducerItem.addr,
            wdata |-> IF ProducerItem.we THEN DrivenData(ProducerItem) ELSE op.wdata]
  /\ process' = [process EXCEPT ![Producer] = "enable"]
  /\ UNCHANGED <<rst, seen, dying, reading, sequencerVars, responseVars>>

\* Deviation the runs detect: PSEL is a pulse.
DriveEnablePulsing ==
  /\ Resume(Producer)
  /\ process[Producer] = "enable"
  /\ PENABLE' = TRUE /\ PSEL' = FALSE
  /\ process' = [process EXCEPT ![Producer] = "ready"]
  /\ UNCHANGED <<rst, seen, dying, reading, sequencerVars, op, responseVars>>

DriveEnable ==
  /\ Resume(Producer)
  /\ process[Producer] = "enable"
  /\ PENABLE' = TRUE
  /\ process' = [process EXCEPT ![Producer] = "ready"]
  /\ UNCHANGED <<rst, seen, dying, reading, sequencerVars, PSEL, op, responseVars>>

\* Deviation the runs detect: a request that is not withdrawn.
CompleteHolding ==
  /\ Resume(Producer)
  /\ process[Producer] = "ready"
  /\ process' = [process EXCEPT ![Producer] = "get"]
  /\ ItemDone(Producer)
  /\ UNCHANGED <<rst, seen, dying, reading, item, item_queue, responses,
                 requestVars, responseVars>>

\* The data of a read goes into the item itself, the error flag only into the
\* response, which nobody takes: of all of them the last is kept.
Complete ==
  /\ Resume(Producer)
  /\ process[Producer] = "ready"
  /\ RequestReset
  /\ process' = [process EXCEPT ![Producer] = "get"]
  /\ item' = [item EXCEPT ![current_item[Producer]] =
                IF @.we THEN @ ELSE [@ EXCEPT !.data = seen.apb.rdata]]
  /\ responses' = [responses EXCEPT ![Producer] = <<[slverr |-> seen.apb.slverr]>>]
  /\ ItemDone(Producer)
  /\ UNCHANGED <<rst, seen, dying, reading, item_queue, responseVars>>

KillProducer ==
  /\ KillProcess(Producer)
  /\ RequestReset
  /\ UNCHANGED responseVars

DriversInit ==
  /\ process = [d \in ApbPorts |-> "reset"]
  /\ PSEL = FALSE /\ PENABLE = FALSE /\ op = NoOp

=============================================================================
