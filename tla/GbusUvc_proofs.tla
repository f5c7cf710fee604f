--------------------------- MODULE GbusUvc_proofs ---------------------------
(* Proofs about GbusUvc, for any buses, any sequences on them and any       *)
(* items, and a reset between any two clock edges.                          *)
EXTENDS GbusUvc, TLAPS

USE UvmSequencerAssumption

-----------------------------------------------------------------------------
(* The handshake of pyuvm: each of its steps keeps SequencerInv, for any    *)
(* sequencers and any sequences, sequence c on sequencer port[c].           *)

(* At the beginning nothing is queued and no driver has an item. *)
LEMMA SequencerInitKeeps ==
  ASSUME NEW port, SequencerInit PROVE SequencerInv(port)
<1>1. SequencerTypeOK
  BY DEF SequencerInit, SequencerTypeOK, Stages
<1>2. QueueInv(port)
  BY DEF SequencerInit, QueueInv
<1>3. CurrentInv(port)
  BY DEF SequencerInit, CurrentInv
<1> QED BY <1>1, <1>2, <1>3 DEF SequencerInv

(* An item is queued behind those of other sequences. *)
LEMMA StartItemKeeps ==
  ASSUME NEW port \in [Clients -> Ports], SequencerInv(port),
         NEW c \in Clients, NEW i, StartItem(port[c], c, i)
  PROVE  SequencerInv(port)'
<1> DEFINE p == port[c]
           Q == item_queue[p]
<1>1. /\ stage \in [Clients -> Stages] /\ item_queue \in [Ports -> Seq(Clients)]
      /\ current_item \in [Ports -> Clients \cup {None}]
      /\ p \in Ports /\ Q \in Seq(Clients)
  BY DEF SequencerInv, SequencerTypeOK
<1>2. /\ stage[c] = "idle"
      /\ stage' = [stage EXCEPT ![c] = "queued"]
      /\ item_queue' = [item_queue EXCEPT ![p] = Append(@, c)]
      /\ current_item' = current_item
  BY DEF StartItem
<1>3. SequencerTypeOK'
  <2>1. stage' \in [Clients -> Stages]
    BY <1>1, <1>2 DEF Stages
  <2>2. Append(Q, c) \in Seq(Clients)
    BY <1>1
  <2>3. item_queue' \in [Ports -> Seq(Clients)]
    BY <1>1, <1>2, <2>2
  <2> QED BY <1>1, <1>2, <2>1, <2>3 DEF SequencerTypeOK
<1>4. QueueInv(port)'
  <2> SUFFICES ASSUME NEW q \in Ports, NEW k \in 1 .. Len(item_queue'[q])
               PROVE  /\ stage'[item_queue'[q][k]] = "queued"
                      /\ port[item_queue'[q][k]] = q
                      /\ \A l \in 1 .. Len(item_queue'[q]) :
                           item_queue'[q][l] = item_queue'[q][k] => l = k
    BY DEF QueueInv
  <2>1. CASE q # p
    <3>1. item_queue'[q] = item_queue[q] /\ item_queue[q] \in Seq(Clients)
      BY <1>1, <1>2, <2>1
    <3> QED BY <1>1, <1>2, <2>1, <3>1 DEF SequencerInv, QueueInv
  <2>2. CASE q = p
    <3>1. item_queue'[q] = Append(Q, c)
      BY <1>1, <1>2, <2>2
    <3>2. /\ Len(Append(Q, c)) = Len(Q) + 1 /\ Len(Q) \in Nat
          /\ Append(Q, c)[Len(Q) + 1] = c
          /\ \A l \in 1 .. Len(Q) : Append(Q, c)[l] = Q[l] /\ Q[l] \in Clients
      BY <1>1
    <3>3. \A l \in 1 .. Len(Q) : /\ stage[Q[l]] = "queued" /\ port[Q[l]] = p
                                 /\ Q[l] # c
      BY <1>1, <1>2 DEF SequencerInv, QueueInv
    <3>4. \A l, m \in 1 .. Len(Q) : Q[l] = Q[m] => l = m
      BY <1>1 DEF SequencerInv, QueueInv
    <3> HIDE DEF Q
    <3>5. \A l \in 1 .. Len(Q) + 1 : l = Len(Q) + 1 \/ l \in 1 .. Len(Q)
      BY <3>2
    <3>6. \A l \in 1 .. Len(Q) + 1 :
            stage'[Append(Q, c)[l]] = "queued" /\ port[Append(Q, c)[l]] = p
      BY <1>1, <1>2, <3>2, <3>3, <3>5
    <3>7. \A l, m \in 1 .. Len(Q) + 1 : Append(Q, c)[l] = Append(Q, c)[m] => l = m
      BY <3>2, <3>3, <3>4, <3>5
    <3> QED BY <2>2, <3>1, <3>2, <3>6, <3>7
  <2> QED BY <2>1, <2>2
<1>5. CurrentInv(port)'
  BY <1>1, <1>2 DEF SequencerInv, CurrentInv
<1> QED BY <1>3, <1>4, <1>5 DEF SequencerInv

(* A driver without an item gets the first of its queue. *)
LEMMA GetNextItemKeeps ==
  ASSUME NEW port \in [Clients -> Ports], SequencerInv(port),
         NEW p \in Ports, GetNextItem(p)
  PROVE  /\ SequencerInv(port)'
         /\ current_item[p] = None /\ current_item'[p] \in Clients
         /\ \A q \in Ports : q # p => current_item'[q] = current_item[q]
         /\ port[current_item'[p]] = p /\ stage[current_item'[p]] = "queued"
         /\ stage' = [stage EXCEPT ![current_item'[p]] = "sent"]
<1> DEFINE Q == item_queue[p]
           c == Head(Q)
<1>1. /\ stage \in [Clients -> Stages] /\ item_queue \in [Ports -> Seq(Clients)]
      /\ current_item \in [Ports -> Clients \cup {None}] /\ Q \in Seq(Clients)
  BY DEF SequencerInv, SequencerTypeOK
<1>2. /\ current_item[p] = None /\ Q # <<>>
      /\ current_item' = [current_item EXCEPT ![p] = c]
      /\ stage' = [stage EXCEPT ![c] = "sent"]
      /\ item_queue' = [item_queue EXCEPT ![p] = Tail(@)]
  BY DEF GetNextItem, MayGet
<1>3. /\ Len(Q) \in Nat /\ 1 \in 1 .. Len(Q) /\ c = Q[1] /\ c \in Clients
      /\ Tail(Q) \in Seq(Clients) /\ Len(Tail(Q)) = Len(Q) - 1
      /\ \A k \in 1 .. Len(Tail(Q)) : Tail(Q)[k] = Q[k + 1] /\ k + 1 \in 1 .. Len(Q)
  BY <1>1, <1>2
<1>4. stage[c] = "queued" /\ port[c] = p
  BY <1>3 DEF SequencerInv, QueueInv
<1>5. SequencerTypeOK'
  BY <1>1, <1>2, <1>3 DEF SequencerTypeOK, Stages
<1>6. QueueInv(port)'
  <2> SUFFICES ASSUME NEW q \in Ports, NEW k \in 1 .. Len(item_queue'[q])
               PROVE  /\ stage'[item_queue'[q][k]] = "queued"
                      /\ port[item_queue'[q][k]] = q
                      /\ \A l \in 1 .. Len(item_queue'[q]) :
                           item_queue'[q][l] = item_queue'[q][k] => l = k
    BY DEF QueueInv
  <2>1. CASE q # p
    <3>1. item_queue'[q] = item_queue[q] /\ item_queue[q] \in Seq(Clients)
      BY <1>1, <1>2, <2>1
    <3>2. item_queue[q][k] \in Clients /\ port[item_queue[q][k]] = q
      BY <3>1 DEF SequencerInv, QueueInv
    <3> QED BY <1>1, <1>2, <1>4, <2>1, <3>1, <3>2 DEF SequencerInv, QueueInv
  <2>2. CASE q = p
    <3>1. item_queue'[q] = Tail(Q)
      BY <1>1, <1>2, <2>2
    <3>2. \A l, m \in 1 .. Len(Q) : Q[l] = Q[m] => l = m
      BY DEF SequencerInv, QueueInv
    <3>3. \A l \in 1 .. Len(Q) :
            stage[Q[l]] = "queued" /\ port[Q[l]] = p /\ Q[l] \in Clients
      <4>1. QueueInv(port)
        BY DEF SequencerInv
      <4>2. \A l \in 1 .. Len(Q) : stage[Q[l]] = "queued" /\ port[Q[l]] = p
        BY <4>1 DEF QueueInv
      <4> QED BY <1>1, <4>2
    <3> HIDE DEF Q
    <3>4. \A l \in 1 .. Len(Tail(Q)) : Q[l + 1] # Q[1]
      BY <1>3, <3>2
    <3>5. \A l \in 1 .. Len(Tail(Q)) : stage'[Q[l + 1]] = "queued"
      BY <1>1, <1>2, <1>3, <3>3, <3>4
    <3>6. \A l, m \in 1 .. Len(Tail(Q)) : Tail(Q)[l] = Tail(Q)[m] => l = m
      <4> TAKE l, m \in 1 .. Len(Tail(Q))
      <4> HAVE Tail(Q)[l] = Tail(Q)[m]
      <4>1. Q[l + 1] = Q[m + 1] /\ l + 1 \in 1 .. Len(Q) /\ m + 1 \in 1 .. Len(Q)
        BY <1>3
      <4>2. l + 1 = m + 1
        BY <3>2, <4>1
      <4> QED BY <1>3, <4>2
    <3> QED BY <1>3, <2>2, <3>1, <3>3, <3>5, <3>6
  <2> QED BY <2>1, <2>2
<1>7. CurrentInv(port)'
  <2>1. \A q \in Ports : q # p /\ current_item[q] # None =>
          current_item[q] # c /\ current_item[q] \in Clients
    BY <1>1, <1>4 DEF SequencerInv, CurrentInv
  <2> QED BY <1>1, <1>2, <1>3, <1>4, <2>1 DEF SequencerInv, CurrentInv
<1> QED BY <1>1, <1>2, <1>3, <1>4, <1>5, <1>6, <1>7 DEF SequencerInv

(* The driver ends its item, if it has one: its sequence and no other.  *)
LEMMA ItemDoneKeeps ==
  ASSUME NEW port \in [Clients -> Ports], SequencerInv(port),
         NEW p \in Ports, ItemDone(p), item_queue' = item_queue
  PROVE  /\ SequencerInv(port)'
         /\ current_item'[p] = None
         /\ \A q \in Ports : q # p => current_item'[q] = current_item[q]
         /\ \A d \in Clients :
              stage'[d] = IF d = current_item[p] THEN "finished" ELSE stage[d]
<1> DEFINE c == current_item[p]
<1>1. /\ stage \in [Clients -> Stages] /\ item_queue \in [Ports -> Seq(Clients)]
      /\ current_item \in [Ports -> Clients \cup {None}]
  BY DEF SequencerInv, SequencerTypeOK
<1>2. /\ stage' = [d \in Clients |-> IF d = c THEN "finished" ELSE stage[d]]
      /\ current_item' = [current_item EXCEPT ![p] = None]
  BY DEF ItemDone
<1>3. c # None => stage[c] = "sent" /\ port[c] = p
  BY DEF SequencerInv, CurrentInv
<1> HIDE DEF c
<1>4. SequencerTypeOK'
  <2>1. stage' \in [Clients -> Stages]
    BY <1>1, <1>2 DEF Stages
  <2> QED BY <1>1, <1>2, <2>1 DEF SequencerTypeOK
<1>5. QueueInv(port)'
  <2>1. \A q \in Ports : \A k \in 1 .. Len(item_queue[q]) :
          item_queue[q][k] # c /\ item_queue[q][k] \in Clients
    BY <1>1, <1>3 DEF SequencerInv, QueueInv
  <2>2. \A q \in Ports : \A k \in 1 .. Len(item_queue[q]) :
          stage'[item_queue[q][k]] = stage[item_queue[q][k]]
    BY <1>2, <2>1
  <2> QED BY <2>2 DEF SequencerInv, QueueInv
<1>6. CurrentInv(port)'
  <2>1. \A q \in Ports : q # p /\ current_item[q] # None =>
          current_item[q] # c /\ current_item[q] \in Clients
    BY <1>1, <1>3 DEF SequencerInv, CurrentInv
  <2> QED BY <1>1, <1>2, <2>1 DEF SequencerInv, CurrentInv
<1> QED BY <1>1, <1>2, <1>4, <1>5, <1>6 DEF SequencerInv, c

(* A sequence goes on that no driver and no queue has. *)
LEMMA EndedKeeps ==
  ASSUME NEW port \in [Clients -> Ports], SequencerInv(port),
         NEW c \in Clients, Ended(c), UNCHANGED <<item_queue, current_item>>
  PROVE  SequencerInv(port)'
<1>1. /\ stage \in [Clients -> Stages] /\ item_queue \in [Ports -> Seq(Clients)]
      /\ current_item \in [Ports -> Clients \cup {None}]
      /\ stage[c] = "finished" /\ stage' = [stage EXCEPT ![c] = "idle"]
  BY DEF SequencerInv, SequencerTypeOK, Ended
<1>2. SequencerTypeOK'
  BY <1>1 DEF SequencerTypeOK, Stages
<1>3. QueueInv(port)'
  <2>1. \A q \in Ports : \A k \in 1 .. Len(item_queue[q]) :
          item_queue[q][k] # c /\ item_queue[q][k] \in Clients
    BY <1>1 DEF SequencerInv, QueueInv
  <2> QED BY <1>1, <2>1 DEF SequencerInv, QueueInv
<1>4. CurrentInv(port)'
  BY <1>1 DEF SequencerInv, CurrentInv
<1> QED BY <1>2, <1>3, <1>4 DEF SequencerInv

(* The steps that do not concern the sequencers. *)
LEMMA OthersKeep ==
  ASSUME NEW port, SequencerInv(port), UNCHANGED <<stage, item_queue, current_item>>
  PROVE  SequencerInv(port)'
<1>1. SequencerTypeOK' /\ CurrentInv(port)'
  BY DEF SequencerInv, SequencerTypeOK, CurrentInv
<1>2. QueueInv(port)'
  BY DEF SequencerInv, QueueInv
<1> QED BY <1>1, <1>2 DEF SequencerInv

-----------------------------------------------------------------------------
USE GbusUvcAssumption

(* An item is a command with a value. *)
LEMMA CommandFields ==
  ASSUME NEW i \in Commands
  PROVE  /\ i.cmd \in {"DRIVE", "SAMPLE"} /\ i.value \in Values
         /\ \A v \in Values : /\ [i EXCEPT !.value = v] \in Commands
                              /\ [i EXCEPT !.value = v].cmd = i.cmd
BY DEF Commands

LEMMA InitInv == Init => IInv
<1> SUFFICES ASSUME Init PROVE IInv
  OBVIOUS
<1> USE DEF Init, CocotbInit, SequencerInit, GbusInit, WatchInit
<1>1. TypeOK
  <2>1. 0 \in Values
    BY DEF Values
  <2>2. /\ bus \in [Buses -> Values] /\ seen \in [bus : [Buses -> Values]]
        /\ driving \in [Buses -> {"release", "item", "align", "failed"}]
    BY <2>1
  <2>3. /\ item_queue \in [Ports -> Seq(Clients)]
        /\ responses \in [Ports -> Seq(Commands)]
    OBVIOUS
  <2>4. stage \in [Clients -> Stages]
    BY DEF Stages
  <2> QED BY <2>2, <2>3, <2>4 DEF TypeOK, SequencerTypeOK
<1>2. FailsOnlyAfterCut
  BY DEF FailsOnlyAfterCut
<1>3. SequencerInv(PortOf)
  BY SequencerInitKeeps
<1>4. DriverInv /\ ItemInv
  BY DEF DriverInv, ItemInv
<1>5. ResponseInv
  BY DEF ResponseInv
<1>6. ResetInv /\ ObservedInv
  BY DEF ResetInv, ObservedInv, GbusAlive
<1> QED BY <1>1, <1>2, <1>3, <1>4, <1>5, <1>6 DEF IInv

(* The three steps of the simulator leave sequencers and drivers alone. *)
LEMMA ClkInv == ASSUME IInv, Clk PROVE IInv'
<1> USE DEF Clk, sequencerVars, gbusVars, watchVars, WakesGbus, Only, Quiet,
            EdgeTasksDone
<1>1. TypeOK'
  BY DEF IInv, TypeOK, SequencerTypeOK
<1>2. FailsOnlyAfterCut'
  BY DEF IInv, FailsOnlyAfterCut
<1>3. SequencerInv(PortOf)'
  BY OthersKeep DEF IInv
<1>4. DriverInv' /\ ItemInv'
  BY DEF IInv, DriverInv, ItemInv
<1>5. ResponseInv'
  <2>1. \A p \in Ports : responses[p] = <<>>
    BY DEF IInv, ResponseInv
  <2> QED BY <2>1 DEF IInv, ResponseInv
<1>6. ResetInv'
  BY DEF IInv, ResetInv, GbusAlive
<1>7. ObservedInv'
  BY DEF IInv, ObservedInv
<1> QED BY <1>1, <1>2, <1>3, <1>4, <1>5, <1>6, <1>7 DEF IInv

LEMMA AssertResetInv == ASSUME IInv, AssertReset PROVE IInv'
<1> USE DEF AssertReset, sequencerVars, gbusVars, watchVars, KillsGbus, Only,
            Quiet, EdgeTasksDone
<1>1. TypeOK'
  BY DEF IInv, TypeOK, SequencerTypeOK
<1>2. FailsOnlyAfterCut'
  BY DEF IInv, FailsOnlyAfterCut
<1>3. SequencerInv(PortOf)'
  BY OthersKeep DEF IInv
<1>4. DriverInv' /\ ItemInv'
  BY DEF IInv, DriverInv, ItemInv
<1>5. ResponseInv'
  BY DEF IInv, ResponseInv
<1>6. ResetInv'
  BY DEF IInv, ResetInv, GbusAlive
<1>7. ObservedInv'
  BY DEF IInv, ObservedInv
<1> QED BY <1>1, <1>2, <1>3, <1>4, <1>5, <1>6, <1>7 DEF IInv

LEMMA ReleaseResetInv == ASSUME IInv, ReleaseReset PROVE IInv'
<1> USE DEF ReleaseReset, sequencerVars, gbusVars, watchVars, ReleasesGbus, Only,
            Quiet, EdgeTasksDone
<1>1. TypeOK'
  BY DEF IInv, TypeOK, SequencerTypeOK
<1>2. FailsOnlyAfterCut'
  BY DEF IInv, FailsOnlyAfterCut
<1>3. SequencerInv(PortOf)'
  BY OthersKeep DEF IInv
<1>4. DriverInv' /\ ItemInv'
  BY DEF IInv, DriverInv, ItemInv
<1>5. ResponseInv'
  BY DEF IInv, ResponseInv
<1>6. ResetInv'
  BY DEF IInv, ResetInv, GbusAlive
<1>7. ObservedInv'
  <2>1. bus[Watched] = 0
    BY DEF IInv, TypeOK, ResetInv, GbusAlive
  <2> QED BY <2>1 DEF IInv, ObservedInv
<1> QED BY <1>1, <1>2, <1>3, <1>4, <1>5, <1>6, <1>7 DEF IInv

(* A new item is queued behind those of other sequences. *)
LEMMA SendInv == ASSUME IInv, NEW c \in Clients, Send(c) PROVE IInv'
<1>1. PICK i \in Items : StartItem(PortOf[c], c, i)
  BY DEF Send
<1>2. /\ UNCHANGED <<cocotbVars, gbusVars, watchVars, cut>> /\ i \in Commands
  BY DEF Send
<1>3. /\ item \in [Clients -> Commands \cup {None}] /\ stage \in [Clients -> Stages]
      /\ stage[c] = "idle"
      /\ item' = [item EXCEPT ![c] = i]
      /\ stage' = [stage EXCEPT ![c] = "queued"]
      /\ UNCHANGED <<current_item, responses>>
  BY <1>1 DEF StartItem, IInv, TypeOK, SequencerTypeOK
<1> USE DEF cocotbVars, gbusVars, watchVars
<1>4. SequencerInv(PortOf)'
  BY <1>1, StartItemKeeps DEF IInv
<1>5. TypeOK'
  BY <1>2, <1>3, <1>4 DEF IInv, TypeOK, SequencerInv
<1>6. FailsOnlyAfterCut'
  BY <1>2, <1>3 DEF IInv, FailsOnlyAfterCut
<1>7. DriverInv' /\ ItemInv'
  BY <1>2, <1>3 DEF IInv, DriverInv, ItemInv
<1>8. ResponseInv'
  <2>1. \A d \in Clients : stage'[d] = "finished" <=> stage[d] = "finished"
    BY <1>3
  <2>2. \A d \in Clients : stage[d] = "finished" => item'[d] = item[d]
    BY <1>3
  <2> QED BY <1>2, <1>3, <2>1, <2>2 DEF IInv, ResponseInv
<1>9. ResetInv' /\ ObservedInv'
  BY <1>2, <1>3 DEF IInv, ResetInv, ObservedInv, GbusAlive
<1> QED BY <1>4, <1>5, <1>6, <1>7, <1>8, <1>9 DEF IInv

(* A sequence takes the one response of its driver, which is its own. *)
LEMMA EndSeqInv == ASSUME IInv, NEW c \in Clients, EndSeq(c) PROVE IInv'
<1> DEFINE p == PortOf[c]
<1>1. /\ EdgeTasksDone /\ UNCHANGED <<cocotbVars, gbusVars, watchVars, cut>>
      /\ Ended(c) /\ stage[c] = "finished" /\ stage' = [stage EXCEPT ![c] = "idle"]
      /\ responses[p] # <<>>
      /\ responses' = [responses EXCEPT ![p] = Tail(@)]
      /\ item' = [item EXCEPT ![c] = Head(responses[p])]
      /\ UNCHANGED <<item_queue, current_item>> /\ p \in Ports
  BY DEF EndSeq, EndGbusSeq, Ended
<1>2. /\ item \in [Clients -> Commands \cup {None}] /\ stage \in [Clients -> Stages]
      /\ responses \in [Ports -> Seq(Commands)] /\ responses[p] \in Seq(Commands)
  BY <1>1 DEF IInv, TypeOK, SequencerTypeOK
<1>3. /\ Len(responses[p]) = 1
      /\ Head(responses[p]) \in Commands
      /\ Tail(responses[p]) = <<>>
  <2>1. Len(responses[p]) = 1
    BY <1>1 DEF IInv, ResponseInv
  <2> QED BY <1>1, <1>2, <2>1
<1> USE DEF cocotbVars, gbusVars, watchVars
<1>4. SequencerInv(PortOf)'
  BY <1>1, EndedKeeps DEF IInv
<1>5. TypeOK'
  <2>1. /\ item' \in [Clients -> Commands \cup {None}]
        /\ responses' \in [Ports -> Seq(Commands)]
    BY <1>1, <1>2, <1>3
  <2> QED BY <1>1, <1>4, <2>1 DEF IInv, TypeOK, SequencerInv
<1>6. FailsOnlyAfterCut'
  BY <1>1 DEF IInv, FailsOnlyAfterCut
<1>7. DriverInv' /\ ItemInv'
  BY <1>1, <1>2, <1>3 DEF IInv, DriverInv, ItemInv
<1>8. ResponseInv'
  <2>1. \A d \in Clients : /\ stage'[d] = "finished" <=> stage[d] = "finished" /\ d # c
                           /\ d # c => item'[d] = item[d]
    BY <1>1, <1>2
  <2>2. \A d \in Clients : stage'[d] = "finished" => PortOf[d] # p
    BY <1>1, <2>1 DEF IInv, ResponseInv
  <2>3. /\ responses'[p] = <<>>
        /\ \A q \in Ports : q # p => responses'[q] = responses[q]
    BY <1>1, <1>2, <1>3
  <2>4. PortOf[c] = p
    OBVIOUS
  <2> QED BY <1>1, <2>1, <2>2, <2>3, <2>4 DEF IInv, ResponseInv, EdgeTasksDone
<1>9. ResetInv' /\ ObservedInv'
  BY <1>1 DEF IInv, ResetInv, ObservedInv, GbusAlive
<1> QED BY <1>4, <1>5, <1>6, <1>7, <1>8, <1>9 DEF IInv

(* A driver asks for its first item, and stops if a reset had cut the last. *)
LEMMA StartGbusInv ==
  ASSUME IInv, NEW g \in Buses, StartGbus(g), UNCHANGED <<watchVars, cut>>
  PROVE IInv'
<1> USE DEF StartGbus, Resume, sequencerVars, watchVars
<1>1. /\ driving \in [Buses -> {"release", "item", "align", "failed"}]
      /\ driving' \in [Buses -> {"release", "item", "align", "failed"}]
      /\ driving[g] = "release" /\ driving'[g] \in {"item", "failed"}
      /\ \A h \in Buses : h # g => driving'[h] = driving[h]
  BY DEF IInv, TypeOK
<1>2. TypeOK'
  BY <1>1 DEF IInv, TypeOK, SequencerTypeOK
<1>3. FailsOnlyAfterCut'
  BY <1>1 DEF IInv, FailsOnlyAfterCut, MayGet
<1>4. SequencerInv(PortOf)'
  BY OthersKeep DEF IInv
<1>5. DriverInv' /\ ItemInv'
  BY <1>1 DEF IInv, DriverInv, ItemInv
<1>6. ResponseInv'
  BY <1>1 DEF IInv, ResponseInv
<1>7. ResetInv'
  BY <1>1 DEF IInv, ResetInv, GbusAlive, TypeOK
<1>8. ObservedInv'
  BY <1>1 DEF IInv, ObservedInv
<1> QED BY <1>2, <1>3, <1>4, <1>5, <1>6, <1>7, <1>8 DEF IInv

(* A driver that has no item gets the first of its queue. *)
LEMMA GetGbusItemInv ==
  ASSUME IInv, NEW g \in Buses, GetGbusItem(g), UNCHANGED <<watchVars, cut>>
  PROVE IInv'
<1>1. /\ EdgeTasksDone /\ driving[g] = "item" /\ GetNextItem(g)
      /\ driving' = [driving EXCEPT ![g] = "align"]
      /\ UNCHANGED <<item, responses, cocotbVars, bus, watchVars, cut>>
  BY DEF GetGbusItem, GetNextItem
<1>2. /\ stage \in [Clients -> Stages]
      /\ driving \in [Buses -> {"release", "item", "align", "failed"}]
  BY DEF IInv, TypeOK, SequencerTypeOK
<1>3. /\ SequencerInv(PortOf)'
      /\ current_item[g] = None /\ current_item'[g] \in Clients
      /\ \A h \in Ports : h # g => current_item'[h] = current_item[h]
      /\ stage[current_item'[g]] = "queued"
      /\ stage' = [stage EXCEPT ![current_item'[g]] = "sent"]
  BY <1>1, GetNextItemKeeps DEF IInv
<1> USE DEF cocotbVars, watchVars
<1>4. TypeOK'
  BY <1>1, <1>2, <1>3 DEF IInv, TypeOK, SequencerInv
<1>5. FailsOnlyAfterCut'
  BY <1>1, <1>2, <1>3 DEF IInv, FailsOnlyAfterCut
<1>6. DriverInv' /\ ItemInv'
  BY <1>1, <1>2, <1>3 DEF IInv, DriverInv, ItemInv
<1>7. ResponseInv'
  <2>1. \A d \in Clients : stage'[d] = "finished" <=> stage[d] = "finished"
    BY <1>2, <1>3
  <2> QED BY <1>1, <2>1 DEF IInv, ResponseInv, EdgeTasksDone
<1>8. ResetInv'
  BY <1>1, <1>2 DEF IInv, ResetInv, GbusAlive, EdgeTasksDone
<1>9. ObservedInv'
  BY <1>1 DEF IInv, ObservedInv, EdgeTasksDone
<1> QED BY <1>3, <1>4, <1>5, <1>6, <1>7, <1>8, <1>9 DEF IInv

(* A driver ends its item: the sequence it is of gets the response to it,   *)
(* and the value the monitor has not seen yet is driven over by nobody.     *)
LEMMA HandleRequestInv ==
  ASSUME IInv, NEW g \in Buses, HandleRequest(g), UNCHANGED <<watchVars, cut>>
  PROVE  IInv'
<1> DEFINE c == current_item[g]
           i == item[c]
           r == IF i.cmd = "DRIVE" THEN i ELSE [i EXCEPT !.value = seen.bus[g]]
<1>1. /\ Resume(g) /\ driving[g] = "align"
      /\ bus' = [bus EXCEPT ![g] = IF i.cmd = "DRIVE" THEN i.value ELSE @]
      /\ responses' = [responses EXCEPT ![g] = Append(@, r)]
      /\ ItemDone(g)
      /\ driving' = [driving EXCEPT ![g] = "item"]
      /\ UNCHANGED <<rst, seen, dying, reading, item, item_queue,
                     watching, previous_value, cut>>
  BY DEF HandleRequest, watchVars
<1>2. /\ bus \in [Buses -> Values]
      /\ current_item \in [Ports -> Clients \cup {None}]
      /\ driving \in [Buses -> {"release", "item", "align", "failed"}]
      /\ responses \in [Ports -> Seq(Commands)] /\ seen.bus \in [Buses -> Values]
      /\ g \in awake /\ awake' = awake \ {g}
  BY <1>1 DEF IInv, TypeOK, SequencerTypeOK, Resume
<1>3. c \in Clients /\ stage[c] = "sent" /\ PortOf[c] = g
  BY <1>1, <1>2 DEF IInv, DriverInv, SequencerInv, CurrentInv
<1>4. i \in Commands
  BY <1>3 DEF IInv, ItemInv
<1>5. r \in Commands /\ Answers(r, i) /\ i.value \in Values
  BY <1>2, <1>4, CommandFields DEF Answers
<1>6. responses[g] = <<>>
  BY <1>1, <1>2 DEF IInv, ResponseInv
<1> HIDE DEF r, i
<1>7. /\ responses'[g] = Append(<<>>, r)
      /\ \A p \in Ports : p # g => responses'[p] = responses[p]
      /\ responses' \in [Ports -> Seq(Commands)]
  BY <1>1, <1>2, <1>5, <1>6
<1>8. Len(responses'[g]) = 1 /\ responses'[g][1] = r /\ responses'[g] # <<>>
  BY <1>5, <1>7
<1>9. /\ SequencerInv(PortOf)' /\ current_item'[g] = None
      /\ \A h \in Ports : h # g => current_item'[h] = current_item[h]
      /\ \A d \in Clients : stage'[d] = IF d = c THEN "finished" ELSE stage[d]
  BY <1>1, ItemDoneKeeps DEF IInv
<1> HIDE DEF c
<1>10. TypeOK'
  <2>1. bus' \in [Buses -> Values]
    BY <1>1, <1>2, <1>5
  <2>2. driving' \in [Buses -> {"release", "item", "align", "failed"}]
    BY <1>1, <1>2
  <2> QED BY <1>1, <1>2, <1>7, <1>9, <2>1, <2>2 DEF IInv, TypeOK, SequencerInv
<1>11. FailsOnlyAfterCut'
  BY <1>1, <1>2, <1>9 DEF IInv, FailsOnlyAfterCut
<1>12. DriverInv'
  BY <1>1, <1>2, <1>9 DEF IInv, DriverInv
<1>13. ItemInv'
  BY <1>1, <1>3, <1>9 DEF IInv, ItemInv
<1>14. ResponseInv'
  <2>1. \A d \in Clients : stage[d] = "finished" => PortOf[d] # g
    BY <1>6 DEF IInv, ResponseInv
  <2>2. \A d, e \in Clients :
          stage'[d] = "finished" /\ stage'[e] = "finished" /\ PortOf[d] = PortOf[e] => d = e
    BY <1>3, <1>9, <2>1 DEF IInv, ResponseInv
  <2>3. \A d \in Clients : stage'[d] = "finished" =>
          /\ Len(responses'[PortOf[d]]) = 1
          /\ Answers(responses'[PortOf[d]][1], item'[d])
    <3> SUFFICES ASSUME NEW d \in Clients, stage'[d] = "finished"
                 PROVE  /\ Len(responses'[PortOf[d]]) = 1
                        /\ Answers(responses'[PortOf[d]][1], item'[d])
      OBVIOUS
    <3>1. CASE d = c
      BY <1>1, <1>3, <1>5, <1>8, <3>1 DEF i
    <3>2. CASE d # c
      BY <1>1, <1>7, <1>9, <2>1, <3>2 DEF IInv, ResponseInv
    <3> QED BY <3>1, <3>2
  <2>4. \A p \in Ports : responses'[p] # <<>> =>
          \E d \in Clients : stage'[d] = "finished" /\ PortOf[d] = p
    <3> SUFFICES ASSUME NEW p \in Ports, responses'[p] # <<>>
                 PROVE  \E d \in Clients : stage'[d] = "finished" /\ PortOf[d] = p
      OBVIOUS
    <3>1. CASE p = g
      BY <1>3, <1>9, <3>1
    <3>2. CASE p # g
      <4>1. PICK d \in Clients : stage[d] = "finished" /\ PortOf[d] = p
        BY <1>7, <3>2 DEF IInv, ResponseInv
      <4>2. stage'[d] = "finished"
        BY <1>9, <4>1
      <4> QED BY <4>1, <4>2
    <3> QED BY <3>1, <3>2
  <2>5. \A h \in Buses : h \in awake' /\ driving'[h] = "align" => responses'[h] = <<>>
    BY <1>1, <1>2, <1>7 DEF IInv, ResponseInv
  <2> QED BY <2>2, <2>3, <2>4, <2>5 DEF ResponseInv
<1>15. ResetInv'
  BY <1>1, <1>2 DEF IInv, ResetInv, GbusAlive
<1>16. ObservedInv'
  <2>1. CASE g = Watched
    BY <1>1, <1>2, <2>1 DEF IInv, ObservedInv
  <2>2. CASE g # Watched
    <3>1. bus'[Watched] = bus[Watched] /\ driving'[Watched] = driving[Watched]
      BY <1>1, <1>2, <2>2
    <3> QED BY <1>1, <1>2, <2>2, <3>1 DEF IInv, ObservedInv
  <2> QED BY <2>1, <2>2
<1> QED BY <1>9, <1>10, <1>11, <1>12, <1>13, <1>14, <1>15, <1>16 DEF IInv

(* A reset stops a driver, which keeps the item it has and clears its bus. *)
LEMMA DriverKilledInv == ASSUME IInv, NEW g \in Buses, DriverKilled(g) PROVE IInv'
<1>1. /\ g \in dying /\ dying' = dying \ {g} /\ awake' = awake \ {g}
      /\ driving' = [driving EXCEPT ![g] = "release"]
      /\ bus' = [bus EXCEPT ![g] = 0]
      /\ cut' = IF current_item[g] = None THEN cut ELSE cut \cup {g}
      /\ UNCHANGED <<rst, seen, reading, item, stage, item_queue, current_item,
                     responses, watching, previous_value>>
  BY DEF DriverKilled, KillGbus, Kill, sequencerVars, watchVars
<1>2. /\ bus \in [Buses -> Values]
      /\ driving \in [Buses -> {"release", "item", "align", "failed"}]
  BY DEF IInv, TypeOK
<1>3. TypeOK'
  <2>1. 0 \in Values
    BY DEF Values
  <2> QED BY <1>1, <1>2, <2>1 DEF IInv, TypeOK, SequencerTypeOK
<1>4. FailsOnlyAfterCut'
  BY <1>1, <1>2 DEF IInv, FailsOnlyAfterCut
<1>5. SequencerInv(PortOf)'
  BY <1>1, OthersKeep DEF IInv
<1>6. DriverInv' /\ ItemInv'
  BY <1>1, <1>2 DEF IInv, DriverInv, ItemInv
<1>7. ResponseInv'
  BY <1>1, <1>2 DEF IInv, ResponseInv
<1>8. ResetInv'
  BY <1>1, <1>2 DEF IInv, ResetInv, GbusAlive
<1>9. ObservedInv'
  BY <1>1, <1>2 DEF IInv, ObservedInv
<1> QED BY <1>3, <1>4, <1>5, <1>6, <1>7, <1>8, <1>9 DEF IInv

(* The monitor leaves sequencers, drivers and buses alone. *)
LEMMA WatchInv == ASSUME IInv, Watch PROVE IInv'
<1> USE DEF sequencerVars, gbusVars
<1>1. CASE StartWatching
  <2> USE <1>1 DEF Watch, StartWatching, Resume
  <2>1. TypeOK'
    BY DEF IInv, TypeOK, SequencerTypeOK
  <2>2. FailsOnlyAfterCut'
    BY DEF IInv, FailsOnlyAfterCut
  <2>3. SequencerInv(PortOf)'
    BY OthersKeep DEF IInv
  <2>4. DriverInv' /\ ItemInv'
    BY DEF IInv, DriverInv, ItemInv
  <2>5. ResponseInv'
    BY DEF IInv, ResponseInv
  <2>6. ResetInv'
    BY DEF IInv, ResetInv, GbusAlive
  <2>7. ObservedInv'
    BY DEF IInv, ObservedInv
  <2> QED BY <2>1, <2>2, <2>3, <2>4, <2>5, <2>6, <2>7 DEF IInv
<1>2. CASE StopWatching
  <2> USE <1>2 DEF Watch, StopWatching, Kill
  <2>1. TypeOK'
    BY DEF IInv, TypeOK, SequencerTypeOK
  <2>2. FailsOnlyAfterCut'
    BY DEF IInv, FailsOnlyAfterCut
  <2>3. SequencerInv(PortOf)'
    BY OthersKeep DEF IInv
  <2>4. DriverInv' /\ ItemInv'
    BY DEF IInv, DriverInv, ItemInv
  <2>5. ResponseInv'
    BY DEF IInv, ResponseInv
  <2>6. ResetInv'
    BY DEF IInv, ResetInv, GbusAlive
  <2>7. ObservedInv'
    BY DEF IInv, ObservedInv
  <2> QED BY <2>1, <2>2, <2>3, <2>4, <2>5, <2>6, <2>7 DEF IInv
<1>3. CASE ObserveBus
  <2> USE <1>3 DEF Watch, ObserveBus, EdgeTasksDone
  <2>1. TypeOK'
    BY DEF IInv, TypeOK, SequencerTypeOK
  <2>2. FailsOnlyAfterCut'
    BY DEF IInv, FailsOnlyAfterCut
  <2>3. SequencerInv(PortOf)'
    BY OthersKeep DEF IInv
  <2>4. DriverInv' /\ ItemInv'
    BY DEF IInv, DriverInv, ItemInv
  <2>5. ResponseInv'
    BY DEF IInv, ResponseInv
  <2>6. ResetInv'
    BY DEF IInv, ResetInv, GbusAlive
  <2>7. ObservedInv'
    BY DEF IInv, ObservedInv
  <2> QED BY <2>1, <2>2, <2>3, <2>4, <2>5, <2>6, <2>7 DEF IInv
<1> QED BY <1>1, <1>2, <1>3 DEF Watch

LEMMA StepInv == IInv /\ [Next]_vars => IInv'
<1> SUFFICES ASSUME IInv, [Next]_vars PROVE IInv'
  OBVIOUS
<1>1. CASE Clk
  BY <1>1, ClkInv
<1>2. CASE AssertReset
  BY <1>2, AssertResetInv
<1>3. CASE ReleaseReset
  BY <1>3, ReleaseResetInv
<1>4. ASSUME NEW g \in Buses, DriverRun(g) PROVE IInv'
  BY <1>4, StartGbusInv, GetGbusItemInv, HandleRequestInv DEF DriverRun
<1>5. ASSUME NEW g \in Buses, DriverKilled(g) PROVE IInv'
  BY <1>5, DriverKilledInv
<1>6. CASE Watch
  BY <1>6, WatchInv
<1>7. ASSUME NEW c \in Clients, EndSeq(c) PROVE IInv'
  BY <1>7, EndSeqInv
<1>8. ASSUME NEW c \in Clients, Send(c) PROVE IInv'
  BY <1>8, SendInv
<1>9. CASE UNCHANGED vars
  <2> USE <1>9 DEF vars, cocotbVars, sequencerVars, gbusVars, watchVars
  <2>1. SequencerInv(PortOf)'
    BY OthersKeep DEF IInv
  <2> QED BY <2>1 DEF IInv, TypeOK, SequencerInv, FailsOnlyAfterCut, DriverInv,
             ItemInv,
             ResponseInv, ResetInv, ObservedInv, GbusAlive
<1> QED BY <1>1, <1>2, <1>3, <1>4, <1>5, <1>6, <1>7, <1>8, <1>9 DEF Next, Tasks

-----------------------------------------------------------------------------
(* The strengthening that the following theorems rest on is an invariant. *)
THEOREM Invariance == Spec => []IInv
BY InitInv, StepInv, PTL DEF Spec

(* Queues, items, responses and the values on the buses keep their types. *)
THEOREM TypeCorrect == Spec => []TypeOK
<1>1. IInv => TypeOK
  BY DEF IInv
<1> QED BY <1>1, Invariance, PTL

(* A driver stops for good only if a reset had cut it off its item. *)
THEOREM StopsOnlyAfterCut == Spec => []FailsOnlyAfterCut
<1>1. IInv => FailsOnlyAfterCut
  BY DEF IInv
<1> QED BY <1>1, Invariance, PTL

(* A step that ends a sequence is the one in which it takes its response. *)
LEMMA OnlyEndSeqEnds ==
  ASSUME IInv, Next, NEW c \in Clients, stage[c] = "finished", stage'[c] = "idle"
  PROVE  EndSeq(c)
<1>0. stage \in [Clients -> Stages] /\ item_queue \in [Ports -> Seq(Clients)]
  BY DEF IInv, TypeOK, SequencerTypeOK
<1>1. ~Clk /\ ~AssertReset /\ ~ReleaseReset /\ ~Watch
  BY DEF Clk, AssertReset, ReleaseReset, Watch, sequencerVars
<1>2. ASSUME NEW g \in Buses, DriverRun(g) \/ DriverKilled(g) PROVE FALSE
  BY <1>0, <1>2 DEF DriverRun, DriverKilled, StartGbus, GetGbusItem, GetNextItem,
     HandleRequest, ItemDone, KillGbus, sequencerVars
<1>3. ASSUME NEW d \in Clients, Send(d) PROVE FALSE
  BY <1>0, <1>3 DEF Send, StartItem
<1>4. ASSUME NEW d \in Clients, EndSeq(d) PROVE d = c
  BY <1>0, <1>4 DEF EndSeq, EndGbusSeq, Ended
<1> QED BY <1>1, <1>2, <1>3, <1>4 DEF Next, Tasks

(* The response a sequence takes is the one to its own item. *)
THEOREM ResponsesReachTheirSequence == Spec => OwnResponse
<1> DEFINE Own == \A c \in Clients :
             stage[c] = "finished" /\ stage'[c] = "idle" =>
               /\ item'[c].cmd = item[c].cmd
               /\ item[c].cmd = "DRIVE" => item'[c].value = item[c].value
<1>1. IInv /\ [Next]_vars => [Own]_vars
  <2> SUFFICES ASSUME IInv, Next, NEW c \in Clients,
                      stage[c] = "finished", stage'[c] = "idle"
               PROVE  /\ item'[c].cmd = item[c].cmd
                      /\ item[c].cmd = "DRIVE" => item'[c].value = item[c].value
    OBVIOUS
  <2>1. EndSeq(c)
    BY OnlyEndSeqEnds
  <2>2. item'[c] = Head(responses[PortOf[c]])
    BY <2>1 DEF EndSeq, EndGbusSeq, IInv, TypeOK
  <2>3. /\ responses[PortOf[c]] \in Seq(Commands)
        /\ Len(responses[PortOf[c]]) = 1
        /\ Answers(responses[PortOf[c]][1], item[c])
    BY DEF IInv, TypeOK, ResponseInv
  <2>4. Head(responses[PortOf[c]]) = responses[PortOf[c]][1]
    BY <2>3
  <2> QED BY <2>2, <2>3, <2>4 DEF Answers
<1> QED BY <1>1, Invariance, PTL DEF Spec, OwnResponse

(* No value of the watched bus is driven over unseen. *)
THEOREM NothingUnseen == Spec => MonitorFollowsBus
<1> DEFINE Seen == bus'[Watched] # bus[Watched] /\ rst = "1" /\ watching =>
                     bus[Watched] \in {0, previous_value}
<1>1. IInv /\ [Next]_vars => [Seen]_vars
  <2> SUFFICES ASSUME IInv, Next, bus'[Watched] # bus[Watched], rst = "1", watching
               PROVE  bus[Watched] \in {0, previous_value}
    OBVIOUS
  <2>0. bus \in [Buses -> Values]
    BY DEF IInv, TypeOK
  <2>1. ~Clk /\ ~AssertReset /\ ~ReleaseReset /\ ~Watch
    BY DEF Clk, AssertReset, ReleaseReset, Watch, gbusVars
  <2>2. ASSUME NEW g \in Buses, DriverRun(g) PROVE bus[Watched] \in {0,
  previous_value}
    <3>1. HandleRequest(g) /\ g = Watched
      BY <2>0, <2>2 DEF DriverRun, StartGbus, GetGbusItem, HandleRequest
    <3> QED BY <3>1 DEF HandleRequest, Resume, IInv, ObservedInv
  <2>3. ASSUME NEW g \in Buses, DriverKilled(g) PROVE FALSE
    BY <2>3 DEF DriverKilled, KillGbus, Kill, IInv, ResetInv
  <2>4. ASSUME NEW c \in Clients, EndSeq(c) \/ Send(c) PROVE FALSE
    BY <2>4 DEF EndSeq, Send, gbusVars
  <2> QED BY <2>1, <2>2, <2>3, <2>4 DEF Next, Tasks
<1> QED BY <1>1, Invariance, PTL DEF Spec, MonitorFollowsBus

=============================================================================
