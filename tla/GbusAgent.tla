----------------------------- MODULE GbusAgent -----------------------------
(***************************************************************************)
(* The generic bus agents: a driver that drives a bus or samples it at the *)
(* clock edge after it got the item, and a monitor of what the bus shows.  *)
(* They await the edges of the reset itself, where the APB agents look at  *)
(* it at every clock edge, and a killed driver keeps its item.             *)
(***************************************************************************)
EXTENDS Cocotb, UvmSequencer, Integers

CONSTANT Buses  \* the gbus agents, each named after its driver

VARIABLES
  bus,     \* bus[g]: the signal of agent g
  driving  \* what its driver awaits; "failed": nothing any more

gbusVars == <<bus, driving>>

GbusInit ==
  /\ bus = [g \in Buses |-> 0]
  /\ driving = [g \in Buses |-> "release"]

GbusAlive(g) == driving[g] \in {"item", "align"}

WakesGbus == {g \in Buses : driving[g] = "align"}
ReleasesGbus == {g \in Buses : driving[g] = "release"}
KillsGbus == {g \in Buses : GbusAlive(g)}

\* The reset is over: the process calls get_next_item.
StartGbus(g) ==
  /\ Resume(g)
  /\ driving[g] = "release"
  /\ driving' = [driving EXCEPT ![g] = IF MayGet(g) THEN "item" ELSE "failed"]
  /\ UNCHANGED <<rst, seen, dying, reading, sequencerVars, bus>>

GetGbusItem(g) ==
  /\ EdgeTasksDone
  /\ driving[g] = "item"
  /\ GetNextItem(g)
  /\ driving' = [driving EXCEPT ![g] = "align"]
  /\ UNCHANGED <<cocotbVars, bus>>

\* Deviations the runs detect: a response with what the bus showed before
\* it was driven, and a request that is forgotten before it is ended.
HandleRequestStale(g) ==
  LET i == item[current_item[g]] IN
  /\ Resume(g)
  /\ driving[g] = "align"
  /\ bus' = [bus EXCEPT ![g] = IF i.cmd = "DRIVE" THEN i.value ELSE @]
  /\ responses' = [responses EXCEPT ![g] = Append(@, [i EXCEPT !.value = seen.bus[g]])]
  /\ ItemDone(g)
  /\ driving' = [driving EXCEPT ![g] = "item"]
  /\ UNCHANGED <<rst, seen, dying, reading, item, item_queue>>

HandleRequestNotDone(g) ==
  LET i == item[current_item[g]] IN
  /\ Resume(g)
  /\ driving[g] = "align"
  /\ bus' = [bus EXCEPT ![g] = IF i.cmd = "DRIVE" THEN i.value ELSE @]
  /\ driving' = [driving EXCEPT ![g] = "item"]
  /\ UNCHANGED <<rst, seen, dying, reading, sequencerVars>>

\* The response is a clone of the item, with the value driven or sampled.
HandleRequest(g) ==
  LET i == item[current_item[g]] IN
  /\ Resume(g)
  /\ driving[g] = "align"
  /\ bus' = [bus EXCEPT ![g] = IF i.cmd = "DRIVE" THEN i.value ELSE @]
  /\ responses' = [responses EXCEPT ![g] = Append(@,
       IF i.cmd = "DRIVE" THEN i ELSE [i EXCEPT !.value = seen.bus[g]])]
  /\ ItemDone(g)
  /\ driving' = [driving EXCEPT ![g] = "item"]
  /\ UNCHANGED <<rst, seen, dying, reading, item, item_queue>>

\* Deviations the runs detect: a driver that is not started again, and a bus
\* that is released.
KillGbusForGood(g) ==
  /\ Kill(g)
  /\ driving' = [driving EXCEPT ![g] = "failed"]
  /\ bus' = [bus EXCEPT ![g] = 0]
  /\ UNCHANGED <<rst, seen, reading, sequencerVars>>

KillGbusReleasing(g) ==
  /\ Kill(g)
  /\ driving' = [driving EXCEPT ![g] = "release"]
  /\ bus' = [bus EXCEPT ![g] = None]
  /\ UNCHANGED <<rst, seen, reading, sequencerVars>>

\* Neither the item nor the sequence that waits for it is ended.
KillGbus(g) ==
  /\ Kill(g)
  /\ driving' = [driving EXCEPT ![g] = "release"]
  /\ bus' = [bus EXCEPT ![g] = 0]
  /\ UNCHANGED <<rst, seen, reading, sequencerVars>>

\* cl_gbus_do_seq: the sequence takes the first response there is.
EndGbusSeq(g, c) ==
  /\ EdgeTasksDone
  /\ Ended(c) /\ responses[g] # <<>>
  /\ responses' = [responses EXCEPT ![g] = Tail(@)]
  /\ item' = [item EXCEPT ![c] = Head(responses[g])]
  /\ UNCHANGED <<item_queue, current_item>>

=============================================================================
