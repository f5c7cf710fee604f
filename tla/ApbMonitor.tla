----------------------------- MODULE ApbMonitor -----------------------------
(***************************************************************************)
(* The monitor of an APB agent: it captures a transfer at the edge that    *)
(* ends it and broadcasts it at the next one, unless a reset kills its     *)
(* loop in between.                                                        *)
(***************************************************************************)
EXTENDS ApbInterface

Monitor == "apb_monitor"

VARIABLES
  monitor,  \* what the loop awaits: "off", "transfer" or "write"
  captured  \* the item it has filled and not written

monitorVars == <<monitor, captured>>

MonitorInit == monitor = "off" /\ captured = NoOp

\* Deviation the runs detect: PREADY is not waited for.
TransferringEarly(s) == s.enable

Transferring(s) == s.enable /\ s.ready

WakesMonitor ==
  \/ monitor = "off" /\ rst = "1"
  \/ monitor = "transfer" /\ Transferring(ApbSignals)
  \/ monitor = "write"

KillsMonitor == monitor # "off" /\ rst = "0"

Transfer(s) ==
  [we |-> s.op.we, addr |-> s.op.addr,
   data |-> IF s.op.we THEN s.op.wdata ELSE s.rdata, slverr |-> s.slverr]

\* monitor_observe_pins, up to its next await.
Observe ==
  IF Transferring(seen.apb)
  THEN monitor' = "write" /\ captured' = Transfer(seen.apb)
  ELSE monitor' = "transfer" /\ captured' = NoOp

\* The loop is started, or goes round after the item has been written.
RunMonitor ==
  /\ Resume(Monitor)
  /\ IF monitor = "transfer"
     THEN monitor' = "write" /\ captured' = Transfer(seen.apb)
     ELSE Observe

KillMonitor ==
  /\ Kill(Monitor)
  /\ monitor' = "off" /\ captured' = NoOp

=============================================================================
