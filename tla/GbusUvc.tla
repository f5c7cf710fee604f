------------------------------ MODULE GbusUvc ------------------------------
(***************************************************************************)
(* The generic bus agents on their own, under any sequences and with a     *)
(* reset between any two clock edges, also a pulse between two of them.    *)
(***************************************************************************)
EXTENDS GbusMonitor

CONSTANTS
  PortOf,  \* PortOf[c]: the sequencer that sequence c runs on
  Items    \* the items the sequences may send

Values == {0} \cup {i.value : i \in Items}
Commands == [cmd : {"DRIVE", "SAMPLE"}, value : Values]

ASSUME GbusUvcAssumption ==
  /\ Watched \in Buses /\ Ports = Buses
  /\ BusMonitor \notin Buses
  /\ PortOf \in [Clients -> Ports]
  /\ Items \subseteq Commands

VARIABLE cut  \* history: drivers killed with an item under way

vars == <<cocotbVars, sequencerVars, gbusVars, watchVars, cut>>

Init ==
  /\ CocotbInit /\ SequencerInit
  /\ GbusInit /\ WatchInit
  /\ seen = [bus |-> bus]
  /\ cut = {}

-----------------------------------------------------------------------------
Only(t, wakes) == IF wakes THEN {t} ELSE {}

\* Time goes on once no task can run any more.
Quiet ==
  /\ EdgeTasksDone /\ reading = {}
  /\ \A g \in Buses : driving[g] = "item" => item_queue[g] = <<>>
  /\ \A c \in Clients : stage[c] # "finished"

Clk ==
  /\ Quiet
  /\ seen' = [bus |-> bus]
  /\ awake' = WakesGbus
  /\ reading' = Only(BusMonitor, watching)
  /\ UNCHANGED <<rst, dying, sequencerVars, gbusVars, watchVars, cut>>

AssertReset ==
  /\ Quiet /\ rst # "0"
  /\ rst' = "0"
  /\ dying' = KillsGbus \cup Only(BusMonitor, watching)
  /\ UNCHANGED <<seen, awake, reading, sequencerVars, gbusVars, watchVars, cut>>

ReleaseReset ==
  /\ Quiet /\ rst = "0"
  /\ rst' = "1"
  /\ awake' = ReleasesGbus \cup Only(BusMonitor, ~watching)
  /\ UNCHANGED <<seen, dying, reading, sequencerVars, gbusVars, watchVars, cut>>

\* A sequence sends its next item, whenever it likes.
Send(c) ==
  /\ EdgeTasksDone
  /\ \E i \in Items : StartItem(PortOf[c], c, i)
  /\ UNCHANGED <<cocotbVars, gbusVars, watchVars, cut>>

EndSeq(c) ==
  /\ EndGbusSeq(PortOf[c], c)
  /\ UNCHANGED <<cocotbVars, gbusVars, watchVars, cut>>

DriverRun(g) ==
  /\ StartGbus(g) \/ GetGbusItem(g) \/ HandleRequest(g)
  /\ UNCHANGED <<watchVars, cut>>

DriverKilled(g) ==
  /\ KillGbus(g)
  /\ cut' = IF current_item[g] = None THEN cut ELSE cut \cup {g}
  /\ UNCHANGED watchVars

Watch ==
  /\ StartWatching \/ StopWatching \/ ObserveBus
  /\ UNCHANGED <<sequencerVars, gbusVars, cut>>

Tasks ==
  \/ \E g \in Buses : DriverRun(g) \/ DriverKilled(g)
  \/ Watch
  \/ \E c \in Clients : EndSeq(c)

Next ==
  \/ Clk \/ AssertReset \/ ReleaseReset
  \/ Tasks
  \/ \E c \in Clients : Send(c)

Spec == Init /\ [][Next]_vars

\* The simulator runs the tasks and the clock.
FairSpec == Spec /\ WF_vars(Tasks) /\ WF_vars(Clk)

-----------------------------------------------------------------------------
TypeOK ==
  /\ rst \in {"z", "0", "1"}
  /\ seen \in [bus : [Buses -> Values]]
  /\ awake \subseteq Buses \cup {BusMonitor}
  /\ dying \subseteq Buses \cup {BusMonitor}
  /\ reading \subseteq {BusMonitor}
  /\ item \in [Clients -> Commands \cup {None}]
  /\ SequencerTypeOK
  /\ responses \in [Ports -> Seq(Commands)]
  /\ bus \in [Buses -> Values]
  /\ driving \in [Buses -> {"release", "item", "align", "failed"}]
  /\ watching \in BOOLEAN
  /\ previous_value \in {None} \cup Values

(* A gbus driver that a reset kills does not end the item under way.  Only  *)
(* then does its next get_next_item raise an error, which stops it; every   *)
(* other item is ended before the next one is asked for.                    *)
FailsOnlyAfterCut ==
  \A g \in Buses \ cut :
    /\ driving[g] # "failed"
    /\ current_item[g] # None <=> driving[g] = "align"

(* A sequence takes the first response there is; it is the one to its own   *)
(* item although several sequences share the driver, resets or not.         *)
OwnResponse ==
  [][ \A c \in Clients :
        stage[c] = "finished" /\ stage'[c] = "idle" =>
          /\ item'[c].cmd = item[c].cmd
          /\ item[c].cmd = "DRIVE" => item'[c].value = item[c].value ]_vars

(* Every value a driver gives the watched bus, other than the reset value,  *)
(* is seen by the monitor before the next one is driven, though both tasks  *)
(* are resumed by the same edges in any order.                              *)
MonitorFollowsBus ==
  [][ bus'[Watched] # bus[Watched] /\ rst = "1" /\ watching =>
        bus[Watched] \in {0, previous_value} ]_vars

(* Once the resets have stopped, every item a sequence sends is finished,   *)
(* unless a reset had cut its driver before.                                *)
ItemsFinish ==
  <>[](rst = "1") =>
    \A c \in Clients :
      stage[c] = "queued" ~> stage[c] = "idle" \/ PortOf[c] \in cut

-----------------------------------------------------------------------------
(* The inductive invariant of the proofs.  A driver that is to handle a      *)
(* request has one.                                                          *)
DriverInv == \A g \in Buses : driving[g] = "align" => current_item[g] # None

ItemInv == \A c \in Clients : stage[c] # "idle" => item[c] \in Commands

Answers(r, i) == r.cmd = i.cmd /\ (i.cmd = "DRIVE" => r.value = i.value)

\* A response is there exactly while the sequence it is for has not taken it.
ResponseInv ==
  /\ \A c, d \in Clients :
       stage[c] = "finished" /\ stage[d] = "finished" /\ PortOf[c] = PortOf[d] => c = d
  /\ \A c \in Clients : stage[c] = "finished" =>
       /\ Len(responses[PortOf[c]]) = 1
       /\ Answers(responses[PortOf[c]][1], item[c])
  /\ \A p \in Ports : responses[p] # <<>> =>
       \E c \in Clients : stage[c] = "finished" /\ PortOf[c] = p
  /\ \A g \in Buses : g \in awake /\ driving[g] = "align" => responses[g] = <<>>

\* In a reset the watched driver is stopped; without one nothing kills it.
ResetInv ==
  /\ dying # {} => rst = "0"
  /\ rst # "1" => Watched \notin awake /\ (GbusAlive(Watched) => Watched \in dying)
  /\ driving[Watched] \in {"release", "failed"} => bus[Watched] = 0

\* A value of the watched bus that may be driven over has been seen.
ObservedInv ==
  /\ watching /\ BusMonitor \notin reading => bus[Watched] \in {0, previous_value}
  /\ Watched \in awake /\ driving[Watched] = "align" =>
       /\ BusMonitor \notin awake
       /\ watching => BusMonitor \in reading /\ bus[Watched] \in {0, previous_value}
  /\ BusMonitor \in awake => bus[Watched] = 0

IInv ==
  /\ TypeOK /\ FailsOnlyAfterCut
  /\ SequencerInv(PortOf) /\ DriverInv /\ ItemInv /\ ResponseInv
  /\ ResetInv /\ ObservedInv

=============================================================================
