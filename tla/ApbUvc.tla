------------------------------- MODULE ApbUvc -------------------------------
(***************************************************************************)
(* The APB verification components on their own: a producer and a consumer *)
(* agent back to back and the monitor of one of them, under any sequences  *)
(* and with a reset between any two clock edges.                           *)
(***************************************************************************)
EXTENDS ApbConsumer, ApbMonitor

CONSTANTS
  PortOf,    \* PortOf[c]: the sequencer that sequence c runs on
  ItemsOf    \* ItemsOf[p]: the items its sequences may send

ASSUME ApbUvcAssumption ==
  /\ Ports = {Producer, Consumer} /\ ApbPorts = Ports
  /\ PortOf \in [Clients -> Ports]
  /\ ItemsOf \in [Ports -> SUBSET ApbItems]
  /\ X \notin Addr

VARIABLES
  ledger,    \* history: transfers completed and not written by the monitor yet
  offer      \* history: the answer of the consumer that is to be taken

history == <<ledger, offer>>
apbVars == <<process, requestVars, responseVars, monitorVars>>
vars == <<cocotbVars, sequencerVars, apbVars, history>>

NoOffer == [op |-> NoOp, data |-> X, slverr |-> FALSE]

Init ==
  /\ CocotbInit /\ SequencerInit
  /\ DriversInit /\ ConsumerInit /\ MonitorInit
  /\ seen = [apb |-> ApbSignals]
  /\ ledger = <<>> /\ offer = NoOffer

-----------------------------------------------------------------------------
Only(t, wakes) == IF wakes THEN {t} ELSE {}

\* Time goes on once no task can run any more.
Quiet ==
  /\ EdgeTasksDone
  /\ \A d \in ApbPorts : process[d] = "get" => item_queue[d] = <<>>
  /\ \A c \in Clients : stage[c] # "finished"

Clk ==
  /\ Quiet
  /\ seen' = [apb |-> ApbSignals]
  /\ awake' = Only(Producer, WakesProducer) \cup Only(Consumer, WakesConsumer)
                \cup Only(Monitor, WakesMonitor)
  /\ dying' = KilledByEdge \cup Only(Monitor, KillsMonitor)
  /\ UNCHANGED <<rst, reading, sequencerVars, apbVars, history>>

\* The tasks of these agents look at the reset at the clock edges only.
ChangeReset ==
  /\ Quiet
  /\ rst' = IF rst = "0" THEN "1" ELSE "0"
  /\ UNCHANGED <<seen, awake, dying, reading, sequencerVars, apbVars, history>>

\* A sequence sends its next item, whenever it likes.
Send(c) ==
  /\ EdgeTasksDone
  /\ \E i \in ItemsOf[PortOf[c]] : StartItem(PortOf[c], c, i)
  /\ UNCHANGED <<cocotbVars, apbVars, history>>

\* It drops the item that is finished.
EndSeq(c) ==
  /\ EdgeTasksDone
  /\ Ended(c)
  /\ item' = [item EXCEPT ![c] = None]
  /\ UNCHANGED <<item_queue, current_item, responses, cocotbVars, apbVars, history>>

-----------------------------------------------------------------------------
Handshake ==
  /\ \E d \in ApbPorts : StartProcess(d) \/ GetItem(d)
  /\ UNCHANGED <<monitorVars, history>>

ProducerSetup ==
  /\ DriveSetup \/ DriveEnable
  /\ UNCHANGED <<monitorVars, history>>

ProducerComplete ==
  /\ Complete
  /\ ledger' = IF monitor = "off" THEN ledger ELSE Append(ledger, Transfer(seen.apb))
  /\ offer' = NoOffer
  /\ UNCHANGED monitorVars

ProducerKilled == KillProducer /\ UNCHANGED <<monitorVars, history>>

ConsumerAnswer ==
  /\ Answer
  /\ offer' = [op |-> seen.apb.op, data |-> ConsumerItem.data,
               slverr |-> ConsumerItem.slverr]
  /\ UNCHANGED <<monitorVars, ledger>>

ConsumerRest ==
  /\ Withdraw \/ KillConsumer
  /\ UNCHANGED <<monitorVars, history>>

MonitorRun ==
  /\ RunMonitor
  /\ ledger' = IF monitor = "write" THEN Tail(ledger) ELSE ledger
  /\ UNCHANGED <<rst, seen, dying, reading, sequencerVars, process, requestVars,
                 responseVars, offer>>

MonitorKilled ==
  /\ KillMonitor
  /\ ledger' = <<>>
  /\ UNCHANGED <<rst, seen, reading, sequencerVars, process, requestVars,
                 responseVars, offer>>

Tasks ==
  \/ Handshake
  \/ ProducerSetup \/ ProducerComplete \/ ProducerKilled
  \/ ConsumerAnswer \/ ConsumerRest
  \/ MonitorRun \/ MonitorKilled
  \/ \E c \in Clients : EndSeq(c)

Next ==
  \/ Clk \/ ChangeReset
  \/ Tasks
  \/ \E c \in Clients : Send(c)

Spec == Init /\ [][Next]_vars

\* The simulator runs the tasks and the clock, and the consumer's sequences
\* go on supplying answers.
FairSpec ==
  /\ Spec
  /\ WF_vars(Tasks) /\ WF_vars(Clk)
  /\ \A c \in Clients : PortOf[c] = Consumer => WF_vars(Send(c))

-----------------------------------------------------------------------------
\* The last part: a task is only resumed by what it awaits.
ApbStates == {"reset", "get", "align", "enable", "ready", "withdraw"}

TypeOK ==
  /\ rst \in {"z", "0", "1"}
  /\ process \in [ApbPorts -> ApbStates]
  /\ SequencerTypeOK
  /\ awake \subseteq Ports \cup {Monitor}
  /\ dying \subseteq awake \cup Ports \cup {Monitor}
  /\ reading = {}
  /\ monitor \in {"off", "transfer", "write"}
  /\ PSEL \in BOOLEAN /\ PENABLE \in BOOLEAN
  /\ op \in [we : BOOLEAN, addr : Addr \cup {X}, wdata : Data \cup {X}]
  /\ PREADY \in BOOLEAN /\ PSLVERR \in BOOLEAN /\ PRDATA \in Data \cup {X}
  /\ \A d \in awake \cap ApbPorts :
       process[d] # "get" /\ (process[d] = "reset" => rst = "1")

(* cl_apb_base_driver ends the item of the process it kills, "Ends any      *)
(* active items": a driver that asks for an item has none, whatever edge    *)
(* the reset comes at, and get_next_item never raises an error.             *)
NoSequenceError ==
  \A d \in ApbPorts :
    process[d] \in {"reset", "get"} /\ EdgeTasksDone => current_item[d] = None

(* The bus protocol, "drive and monitor signals following the APB           *)
(* protocol": a transfer has a setup phase of one cycle, then an access     *)
(* phase that keeps the request stable until PREADY, and is withdrawn after *)
(* it.  Only a reset breaks it off.                                         *)
ApbProtocol ==
  [][ Clk /\ process[Producer] # "reset" =>
        LET was == seen.apb IN
        /\ PENABLE => was.sel
        /\ was.sel /\ ~(was.enable /\ was.ready) => PSEL /\ PENABLE /\ op = was.op
        /\ was.enable /\ was.ready => ~PSEL ]_vars

(* The producer's response is the answer the consumer gave to this very     *)
(* request, with its data and its error flag, and no answer is taken twice. *)
AnswersItsRequest ==
  [][ ProducerComplete =>
        /\ offer # NoOffer
        /\ offer.op = op /\ responses'[Producer][1].slverr = offer.slverr
        /\ op.we \/ item'[current_item[Producer]].data = offer.data ]_vars

(* The monitor has at any time captured exactly the transfers the producer  *)
(* has completed and it has not yet written, with their data, unless a      *)
(* reset killed it.                                                         *)
MonitorSeesTransfers ==
  EdgeTasksDone => ledger = IF monitor = "write" THEN <<captured>> ELSE <<>>

(* Once the resets have stopped, every item that a sequence sends to the    *)
(* producer is finished.                                                    *)
ItemsFinish ==
  <>[](rst = "1") =>
    \A c \in Clients :
      PortOf[c] = Producer /\ stage[c] = "queued" ~> stage[c] = "idle"

-----------------------------------------------------------------------------
(* The inductive invariant of the proofs.  A driver has an item from the     *)
(* moment it has got one to the moment it ends it.                           *)
DriverInv ==
  \A d \in ApbPorts : process[d] \in {"reset", "get"} <=> current_item[d] = None

ItemInv ==
  /\ item \in [Clients -> ApbItems \cup {None}]
  /\ \A c \in Clients : stage[c] \in {"queued", "sent"} => item[c] \in ApbItems
  /\ DOMAIN responses = Ports

SignalsInv ==
  /\ seen \in [apb : [sel : BOOLEAN, enable : BOOLEAN,
                      op : [we : BOOLEAN, addr : Addr \cup {X}, wdata : Data \cup {X}],
                      ready : BOOLEAN, slverr : BOOLEAN, rdata : Data \cup {X}]]
  /\ PSEL <=> process[Producer] \in {"enable", "ready"}
  /\ PENABLE <=> process[Producer] = "ready"
  /\ PREADY <=> process[Consumer] = "withdraw"
  /\ PSEL => op.we = ProducerItem.we /\ op.addr \in Addr

\* The next request signals follow from those at the last edge.
RequestFollows ==
  LET was == seen.apb IN
  /\ PENABLE => was.sel
  /\ was.sel /\ ~(was.enable /\ was.ready) => PSEL /\ PENABLE /\ op = was.op
  /\ was.enable /\ was.ready => ~PSEL

\* Until it runs, the producer leaves the bus as the edge has seen it.
RequestInv ==
  IF Producer \in awake
  THEN /\ seen.apb.sel <=> PSEL
       /\ seen.apb.enable <=> PENABLE
       /\ seen.apb.op = op
       /\ process[Producer] = "ready" => seen.apb.ready
  ELSE process[Producer] # "reset" => RequestFollows

Offered(slverr, rdata) ==
  /\ offer.op = op /\ slverr = offer.slverr
  /\ op.we \/ rdata = offer.data

\* An answer is given to the request on the bus and to no other, and the edge
\* that has seen it is the one that takes it.
AnswerInv ==
  /\ Consumer \in awake /\ process[Consumer] = "align" => seen.apb.sel /\ ~seen.apb.ready
  /\ Consumer \notin awake /\ process[Consumer] = "withdraw" =>
       /\ seen.apb.sel /\ ~seen.apb.ready
       /\ process[Producer] # "reset" => PSEL /\ Offered(PSLVERR, PRDATA)
  /\ Producer \in awake /\ process[Producer] = "ready" =>
       Offered(seen.apb.slverr, seen.apb.rdata)

\* Producer and monitor are started and killed by the same edges, in any order.
ResetInv ==
  LET stopped == process[Producer] = "reset" /\ Producer \notin awake
      off == monitor = "off" /\ Monitor \notin awake IN
  /\ dying # {} => rst = "0"
  /\ Producer \in dying => Monitor \in dying \/ off
  /\ Monitor \in dying \/ off => Producer \in dying \/ stopped
  /\ Monitor \in awake /\ monitor = "off" =>
       process[Producer] \in {"reset", "get"} /\ ~seen.apb.enable

Completing == Producer \in awake /\ process[Producer] = "ready"
Unwritten == IF monitor = "write" THEN <<captured>> ELSE <<>>

\* The ledger lags behind the monitor or runs ahead of it by the one transfer
\* that ends at this edge.
LedgerInv ==
  Monitor \notin dying =>
    /\ monitor = "off" => ledger = <<>>
    /\ monitor # "off" /\ Monitor \in awake =>
         /\ monitor = "transfer" => Transferring(seen.apb)
         /\ ledger = IF Completing \/ ~Transferring(seen.apb) THEN Unwritten
                     ELSE Append(Unwritten, Transfer(seen.apb))
    /\ monitor # "off" /\ Monitor \notin awake =>
         IF Completing
         THEN ledger = <<>> /\ monitor = "write" /\ captured = Transfer(seen.apb)
         ELSE ledger = Unwritten

IInv ==
  /\ TypeOK /\ SequencerInv(PortOf) /\ DriverInv /\ ItemInv
  /\ SignalsInv /\ RequestInv /\ AnswerInv
  /\ ResetInv /\ LedgerInv

=============================================================================
