---------------------------- MODULE GbusMonitor ----------------------------
(* The monitor of a gbus agent: at every edge, in the ReadOnly phase, it    *)
(* broadcasts the value of its bus if that has changed.                     *)
EXTENDS GbusAgent

CONSTANT Watched  \* the bus it watches

BusMonitor == "gbus_monitor"

VARIABLES
  watching,       \* is its loop running
  previous_value  \* "none" until it has seen the bus

watchVars == <<watching, previous_value>>

WatchInit == watching = FALSE /\ previous_value = None

\* monitor_transaction: the reset is over.
StartWatching ==
  /\ Resume(BusMonitor)
  /\ watching' = TRUE
  /\ UNCHANGED <<rst, seen, dying, reading, previous_value>>

\* Deviation the runs detect: the change is written but not remembered.
ObserveBusForgetting ==
  /\ EdgeTasksDone
  /\ BusMonitor \in reading
  /\ reading' = reading \ {BusMonitor}
  /\ previous_value' = IF previous_value = None THEN bus[Watched] ELSE previous_value
  /\ UNCHANGED <<rst, seen, awake, dying, watching>>

\* Writes an item if the value is another than the one before.
ObserveBus ==
  /\ EdgeTasksDone
  /\ BusMonitor \in reading
  /\ reading' = reading \ {BusMonitor}
  /\ previous_value' = bus[Watched]
  /\ UNCHANGED <<rst, seen, awake, dying, watching>>

\* What it has seen last stays with it over the reset.
StopWatching ==
  /\ Kill(BusMonitor)
  /\ watching' = FALSE
  /\ UNCHANGED <<rst, seen, reading, previous_value>>

=============================================================================
