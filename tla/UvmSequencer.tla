---------------------------- MODULE UvmSequencer ----------------------------
(***************************************************************************)
(* The handshake of pyuvm between sequences and the driver of a sequencer. *)
(* A sequence queues its item with start_item, the driver takes it with    *)
(* get_next_item, on which the sequence completes it with finish_item; the *)
(* driver ends it with item_done, on which the sequence goes on.           *)
(***************************************************************************)
EXTENDS Sequences, Naturals

CONSTANTS
  Ports,    \* the sequencers, each named after the one driver connected to it
  Clients,  \* the sequences, each with one item at a time
  None

ASSUME UvmSequencerAssumption == None \notin Clients

VARIABLES
  item,          \* item[c]: the item of sequence c
  stage,         \* stage[c]: how far it is
  item_queue,    \* item_queue[p]: the sequences waiting in start_item
  current_item,  \* current_item[p]: the sequence whose item the driver has
  responses      \* responses[p]: what get_response has not taken yet

sequencerVars == <<item, stage, item_queue, current_item, responses>>

Stages == {"idle", "queued", "sent", "finished"}

SequencerInit ==
  /\ item = [c \in Clients |-> None]
  /\ stage = [c \in Clients |-> "idle"]
  /\ item_queue = [p \in Ports |-> <<>>]
  /\ current_item = [p \in Ports |-> None]
  /\ responses = [p \in Ports |-> <<>>]

StartItem(p, c, i) ==
  /\ stage[c] = "idle"
  /\ item' = [item EXCEPT ![c] = i]
  /\ stage' = [stage EXCEPT ![c] = "queued"]
  /\ item_queue' = [item_queue EXCEPT ![p] = Append(@, c)]
  /\ UNCHANGED <<current_item, responses>>

\* A driver that has not ended its item gets a UVMSequenceError instead.
MayGet(p) == current_item[p] = None

GetNextItem(p) ==
  /\ MayGet(p) /\ item_queue[p] # <<>>
  /\ LET c == Head(item_queue[p]) IN
       /\ current_item' = [current_item EXCEPT ![p] = c]
       /\ stage' = [stage EXCEPT ![c] = "sent"]
  /\ item_queue' = [item_queue EXCEPT ![p] = Tail(@)]
  /\ UNCHANGED <<item, responses>>

\* Without an item, a UVMSequenceError the only caller without one discards.
ItemDone(p) ==
  /\ stage' = [c \in Clients |->
                 IF c = current_item[p] THEN "finished" ELSE stage[c]]
  /\ current_item' = [current_item EXCEPT ![p] = None]

Ended(c) ==
  /\ stage[c] = "finished"
  /\ stage' = [stage EXCEPT ![c] = "idle"]

-----------------------------------------------------------------------------
SequencerTypeOK ==
  /\ stage \in [Clients -> Stages]
  /\ item_queue \in [Ports -> Seq(Clients)]
  /\ current_item \in [Ports -> Clients \cup {None}]

(* The inductive invariant of the handshake, for sequences c that run on    *)
(* port[c].  A queue holds the queued items of its own sequences, each once. *)
QueueInv(port) ==
  \A p \in Ports : \A k \in 1 .. Len(item_queue[p]) :
    /\ stage[item_queue[p][k]] = "queued"
    /\ port[item_queue[p][k]] = p
    /\ \A l \in 1 .. Len(item_queue[p]) :
         item_queue[p][l] = item_queue[p][k] => l = k

\* A driver has the item of a sequence of its own, which waits for its end.
CurrentInv(port) ==
  \A p \in Ports : current_item[p] # None =>
    stage[current_item[p]] = "sent" /\ port[current_item[p]] = p

SequencerInv(port) == SequencerTypeOK /\ QueueInv(port) /\ CurrentInv(port)

=============================================================================
