---------------------------- MODULE ApbUvc_proofs ----------------------------
(* Proofs about ApbUvc, for any addresses, data, sequences and items, and a *)
(* reset between any two clock edges.                                       *)
EXTENDS ApbUvc, TLAPS, SequenceTheorems

USE UvmSequencerAssumption

-----------------------------------------------------------------------------
(* The handshake of pyuvm: each of its steps keeps SequencerInv, for any    *)
(* sequencers and any sequences, sequence c on sequencer port[c].           *)

(* At the beginning nothing is queued and no driver has an item. *)
LEMMA SequencerInitKeeps ==
  ASSUME NEW port, SequencerInit PROVE SequencerInv(port)
<1>1. SequencerTypeOK
  BY DEF SequencerInit, SequencerTypeOK, Stages
<1>2. QueueInv(port)
  BY DEF SequencerInit, QueueInv
<1>3. CurrentInv(port)
  BY DEF SequencerInit, CurrentInv
<1> QED BY <1>1, <1>2, <1>3 DEF SequencerInv

(* An item is queued behind those of other sequences. *)
LEMMA StartItemKeeps ==
  ASSUME NEW port \in [Clients -> Ports], SequencerInv(port),
         NEW c \in Clients, NEW i, StartItem(port[c], c, i)
  PROVE  SequencerInv(port)'
<1> DEFINE p == port[c]
           Q == item_queue[p]
<1>1. /\ stage \in [Clients -> Stages] /\ item_queue \in [Ports -> Seq(Clients)]
      /\ current_item \in [Ports -> Clients \cup {None}]
      /\ p \in Ports /\ Q \in Seq(Clients)
  BY DEF SequencerInv, SequencerTypeOK
<1>2. /\ stage[c] = "idle"
      /\ stage' = [stage EXCEPT ![c] = "queued"]
      /\ item_queue' = [item_queue EXCEPT ![p] = Append(@, c)]
      /\ current_item' = current_item
  BY DEF StartItem
<1>3. SequencerTypeOK'
  <2>1. stage' \in [Clients -> Stages]
    BY <1>1, <1>2 DEF Stages
  <2>2. Append(Q, c) \in Seq(Clients)
    BY <1>1
  <2>3. item_queue' \in [Ports -> Seq(Clients)]
    BY <1>1, <1>2, <2>2
  <2> QED BY <1>1, <1>2, <2>1, <2>3 DEF SequencerTypeOK
<1>4. QueueInv(port)'
  <2> SUFFICES ASSUME NEW q \in Ports, NEW k \in 1 .. Len(item_queue'[q])
               PROVE  /\ stage'[item_queue'[q][k]] = "queued"
                      /\ port[item_queue'[q][k]] = q
                      /\ \A l \in 1 .. Len(item_queue'[q]) :
                           item_queue'[q][l] = item_queue'[q][k] => l = k
    BY DEF QueueInv
  <2>1. CASE q # p
    <3>1. item_queue'[q] = item_queue[q] /\ item_queue[q] \in Seq(Clients)
      BY <1>1, <1>2, <2>1
    <3> QED BY <1>1, <1>2, <2>1, <3>1 DEF SequencerInv, QueueInv
  <2>2. CASE q = p
    <3>1. item_queue'[q] = Append(Q, c)
      BY <1>1, <1>2, <2>2
    <3>2. /\ Len(Append(Q, c)) = Len(Q) + 1 /\ Len(Q) \in Nat
          /\ Append(Q, c)[Len(Q) + 1] = c
          /\ \A l \in 1 .. Len(Q) : Append(Q, c)[l] = Q[l] /\ Q[l] \in Clients
      BY <1>1
    <3>3. \A l \in 1 .. Len(Q) : /\ stage[Q[l]] = "queued" /\ port[Q[l]] = p
                                 /\ Q[l] # c
      BY <1>1, <1>2 DEF SequencerInv, QueueInv
    <3>4. \A l, m \in 1 .. Len(Q) : Q[l] = Q[m] => l = m
      BY <1>1 DEF SequencerInv, QueueInv
    <3> HIDE DEF Q
    <3>5. \A l \in 1 .. Len(Q) + 1 : l = Len(Q) + 1 \/ l \in 1 .. Len(Q)
      BY <3>2
    <3>6. \A l \in 1 .. Len(Q) + 1 :
            stage'[Append(Q, c)[l]] = "queued" /\ port[Append(Q, c)[l]] = p
      BY <1>1, <1>2, <3>2, <3>3, <3>5
    <3>7. \A l, m \in 1 .. Len(Q) + 1 : Append(Q, c)[l] = Append(Q, c)[m] => l = m
      BY <3>2, <3>3, <3>4, <3>5
    <3> QED BY <2>2, <3>1, <3>2, <3>6, <3>7
  <2> QED BY <2>1, <2>2
<1>5. CurrentInv(port)'
  BY <1>1, <1>2 DEF SequencerInv, CurrentInv
<1> QED BY <1>3, <1>4, <1>5 DEF SequencerInv

(* A driver without an item gets the first of its queue. *)
LEMMA GetNextItemKeeps ==
  ASSUME NEW port \in [Clients -> Ports], SequencerInv(port),
         NEW p \in Ports, GetNextItem(p)
  PROVE  /\ SequencerInv(port)'
         /\ current_item[p] = None /\ current_item'[p] \in Clients
         /\ \A q \in Ports : q # p => current_item'[q] = current_item[q]
         /\ port[current_item'[p]] = p /\ stage[current_item'[p]] = "queued"
         /\ stage' = [stage EXCEPT ![current_item'[p]] = "sent"]
<1> DEFINE Q == item_queue[p]
           c == Head(Q)
<1>1. /\ stage \in [Clients -> Stages] /\ item_queue \in [Ports -> Seq(Clients)]
      /\ current_item \in [Ports -> Clients \cup {None}] /\ Q \in Seq(Clients)
  BY DEF SequencerInv, SequencerTypeOK
<1>2. /\ current_item[p] = None /\ Q # <<>>
      /\ current_item' = [current_item EXCEPT ![p] = c]
      /\ stage' = [stage EXCEPT ![c] = "sent"]
      /\ item_queue' = [item_queue EXCEPT ![p] = Tail(@)]
  BY DEF GetNextItem, MayGet
<1>3. /\ Len(Q) \in Nat /\ 1 \in 1 .. Len(Q) /\ c = Q[1] /\ c \in Clients
      /\ Tail(Q) \in Seq(Clients) /\ Len(Tail(Q)) = Len(Q) - 1
      /\ \A k \in 1 .. Len(Tail(Q)) : Tail(Q)[k] = Q[k + 1] /\ k + 1 \in 1 .. Len(Q)
  BY <1>1, <1>2
<1>4. stage[c] = "queued" /\ port[c] = p
  BY <1>3 DEF SequencerInv, QueueInv
<1>5. SequencerTypeOK'
  BY <1>1, <1>2, <1>3 DEF SequencerTypeOK, Stages
<1>6. QueueInv(port)'
  <2> SUFFICES ASSUME NEW q \in Ports, NEW k \in 1 .. Len(item_queue'[q])
               PROVE  /\ stage'[item_queue'[q][k]] = "queued"
                      /\ port[item_queue'[q][k]] = q
                      /\ \A l \in 1 .. Len(item_queue'[q]) :
                           item_queue'[q][l] = item_queue'[q][k] => l = k
    BY DEF QueueInv
  <2>1. CASE q # p
    <3>1. item_queue'[q] = item_queue[q] /\ item_queue[q] \in Seq(Clients)
      BY <1>1, <1>2, <2>1
    <3>2. item_queue[q][k] \in Clients /\ port[item_queue[q][k]] = q
      BY <3>1 DEF SequencerInv, QueueInv
    <3> QED BY <1>1, <1>2, <1>4, <2>1, <3>1, <3>2 DEF SequencerInv, QueueInv
  <2>2. CASE q = p
    <3>1. item_queue'[q] = Tail(Q)
      BY <1>1, <1>2, <2>2
    <3>2. \A l, m \in 1 .. Len(Q) : Q[l] = Q[m] => l = m
      BY DEF SequencerInv, QueueInv
    <3>3. \A l \in 1 .. Len(Q) :
            stage[Q[l]] = "queued" /\ port[Q[l]] = p /\ Q[l] \in Clients
      <4>1. QueueInv(port)
        BY DEF SequencerInv
      <4>2. \A l \in 1 .. Len(Q) : stage[Q[l]] = "queued" /\ port[Q[l]] = p
        BY <4>1 DEF QueueInv
      <4> QED BY <1>1, <4>2
    <3> HIDE DEF Q
    <3>4. \A l \in 1 .. Len(Tail(Q)) : Q[l + 1] # Q[1]
      BY <1>3, <3>2
    <3>5. \A l \in 1 .. Len(Tail(Q)) : stage'[Q[l + 1]] = "queued"
      BY <1>1, <1>2, <1>3, <3>3, <3>4
    <3>6. \A l, m \in 1 .. Len(Tail(Q)) : Tail(Q)[l] = Tail(Q)[m] => l = m
      <4> TAKE l, m \in 1 .. Len(Tail(Q))
      <4> HAVE Tail(Q)[l] = Tail(Q)[m]
      <4>1. Q[l + 1] = Q[m + 1] /\ l + 1 \in 1 .. Len(Q) /\ m + 1 \in 1 .. Len(Q)
        BY <1>3
      <4>2. l + 1 = m + 1
        BY <3>2, <4>1
      <4> QED BY <1>3, <4>2
    <3> QED BY <1>3, <2>2, <3>1, <3>3, <3>5, <3>6
  <2> QED BY <2>1, <2>2
<1>7. CurrentInv(port)'
  <2>1. \A q \in Ports : q # p /\ current_item[q] # None =>
          current_item[q] # c /\ current_item[q] \in Clients
    BY <1>1, <1>4 DEF SequencerInv, CurrentInv
  <2> QED BY <1>1, <1>2, <1>3, <1>4, <2>1 DEF SequencerInv, CurrentInv
<1> QED BY <1>1, <1>2, <1>3, <1>4, <1>5, <1>6, <1>7 DEF SequencerInv

(* The driver ends its item, if it has one: its sequence and no other.  *)
LEMMA ItemDoneKeeps ==
  ASSUME NEW port \in [Clients -> Ports], SequencerInv(port),
         NEW p \in Ports, ItemDone(p), item_queue' = item_queue
  PROVE  /\ SequencerInv(port)'
         /\ current_item'[p] = None
         /\ \A q \in Ports : q # p => current_item'[q] = current_item[q]
         /\ \A d \in Clients :
              stage'[d] = IF d = current_item[p] THEN "finished" ELSE stage[d]
<1> DEFINE c == current_item[p]
<1>1. /\ stage \in [Clients -> Stages] /\ item_queue \in [Ports -> Seq(Clients)]
      /\ current_item \in [Ports -> Clients \cup {None}]
  BY DEF SequencerInv, SequencerTypeOK
<1>2. /\ stage' = [d \in Clients |-> IF d = c THEN "finished" ELSE stage[d]]
      /\ current_item' = [current_item EXCEPT ![p] = None]
  BY DEF ItemDone
<1>3. c # None => stage[c] = "sent" /\ port[c] = p
  BY DEF SequencerInv, CurrentInv
<1> HIDE DEF c
<1>4. SequencerTypeOK'
  <2>1. stage' \in [Clients -> Stages]
    BY <1>1, <1>2 DEF Stages
  <2> QED BY <1>1, <1>2, <2>1 DEF SequencerTypeOK
<1>5. QueueInv(port)'
  <2>1. \A q \in Ports : \A k \in 1 .. Len(item_queue[q]) :
          item_queue[q][k] # c /\ item_queue[q][k] \in Clients
    BY <1>1, <1>3 DEF SequencerInv, QueueInv
  <2>2. \A q \in Ports : \A k \in 1 .. Len(item_queue[q]) :
          stage'[item_queue[q][k]] = stage[item_queue[q][k]]
    BY <1>2, <2>1
  <2> QED BY <2>2 DEF SequencerInv, QueueInv
<1>6. CurrentInv(port)'
  <2>1. \A q \in Ports : q # p /\ current_item[q] # None =>
          current_item[q] # c /\ current_item[q] \in Clients
    BY <1>1, <1>3 DEF SequencerInv, CurrentInv
  <2> QED BY <1>1, <1>2, <2>1 DEF SequencerInv, CurrentInv
<1> QED BY <1>1, <1>2, <1>4, <1>5, <1>6 DEF SequencerInv, c

(* A sequence goes on that no driver and no queue has. *)
LEMMA EndedKeeps ==
  ASSUME NEW port \in [Clients -> Ports], SequencerInv(port),
         NEW c \in Clients, Ended(c), UNCHANGED <<item_queue, current_item>>
  PROVE  SequencerInv(port)'
<1>1. /\ stage \in [Clients -> Stages] /\ item_queue \in [Ports -> Seq(Clients)]
      /\ current_item \in [Ports -> Clients \cup {None}]
      /\ stage[c] = "finished" /\ stage' = [stage EXCEPT ![c] = "idle"]
  BY DEF SequencerInv, SequencerTypeOK, Ended
<1>2. SequencerTypeOK'
  BY <1>1 DEF SequencerTypeOK, Stages
<1>3. QueueInv(port)'
  <2>1. \A q \in Ports : \A k \in 1 .. Len(item_queue[q]) :
          item_queue[q][k] # c /\ item_queue[q][k] \in Clients
    BY <1>1 DEF SequencerInv, QueueInv
  <2> QED BY <1>1, <2>1 DEF SequencerInv, QueueInv
<1>4. CurrentInv(port)'
  BY <1>1 DEF SequencerInv, CurrentInv
<1> QED BY <1>2, <1>3, <1>4 DEF SequencerInv

(* The steps that do not concern the sequencers. *)
LEMMA OthersKeep ==
  ASSUME NEW port, SequencerInv(port), UNCHANGED <<stage, item_queue, current_item>>
  PROVE  SequencerInv(port)'
<1>1. SequencerTypeOK' /\ CurrentInv(port)'
  BY DEF SequencerInv, SequencerTypeOK, CurrentInv
<1>2. QueueInv(port)'
  BY DEF SequencerInv, QueueInv
<1> QED BY <1>1, <1>2 DEF SequencerInv

-----------------------------------------------------------------------------
USE ApbUvcAssumption, BusTypesAssumption
    DEF Producer, Consumer, Monitor

(* What the drivers put on the bus, and what a read leaves in its item. *)
LEMMA ItemFields ==
  ASSUME NEW i \in ApbItems
  PROVE  /\ i.we \in BOOLEAN /\ i.addr \in Addr /\ i.slverr \in BOOLEAN
         /\ i.data \in Data \cup {X} /\ DrivenData(i) \in Data \cup {X}
         /\ \A v \in Data \cup {X} : [i EXCEPT !.data = v] \in ApbItems
BY DEF ApbItems, DrivenData

(* A driver that does more than waiting for an item has one of its own. *)
LEMMA DriverHasItem ==
  ASSUME IInv, NEW d \in ApbPorts, process[d] \notin {"reset", "get"}
  PROVE  /\ current_item[d] \in Clients /\ stage[current_item[d]] = "sent"
         /\ PortOf[current_item[d]] = d /\ item[current_item[d]] \in ApbItems
<1>1. current_item[d] \in Clients /\ current_item[d] # None
  BY DEF IInv, DriverInv, SequencerInv, SequencerTypeOK
<1>2. stage[current_item[d]] = "sent" /\ PortOf[current_item[d]] = d
  BY <1>1 DEF IInv, SequencerInv, CurrentInv
<1> QED BY <1>1, <1>2 DEF IInv, ItemInv

(* Writing the first of the transfers in the ledger. *)
LEMMA TailOfOne == ASSUME NEW t PROVE Tail(<<t>>) = <<>>
OBVIOUS

LEMMA TailOfTwo == ASSUME NEW t, NEW u PROVE Tail(Append(<<t>>, u)) = <<u>>
<1> DEFINE S == {t, u}
           s == Append(<<t>>, u)
<1>1. <<t>> \in Seq(S) /\ <<u>> \in Seq(S) /\ u \in S
  OBVIOUS
<1>2. s \in Seq(S) /\ Len(s) = 2 /\ s[2] = u
  BY <1>1
<1>3. Tail(s) \in Seq(S) /\ Len(Tail(s)) = 1 /\ Tail(s)[1] = u
  BY <1>2
<1> HIDE DEF s, S
<1>4. Len(<<u>>) = 1 /\ <<u>>[1] = u
  OBVIOUS
<1>5. \A i \in 1 .. 1 : i = 1
  OBVIOUS
<1>6. \A i \in 1 .. Len(Tail(s)) : Tail(s)[i] = <<u>>[i]
  BY <1>3, <1>4, <1>5, Zenon
<1>7. Len(Tail(s)) = Len(<<u>>)
  BY <1>3, <1>4, Zenon
<1>8. Tail(s) = <<u>>
  BY <1>1, <1>3, <1>6, <1>7, SeqEqual, Zenon
<1> QED BY <1>8 DEF s

LEMMA InitInv == Init => IInv
<1> SUFFICES ASSUME Init PROVE IInv
  OBVIOUS
<1>1. SequencerInv(PortOf)
  BY SequencerInitKeeps DEF Init
<1> USE DEF Init, CocotbInit, SequencerInit, DriversInit, ConsumerInit, MonitorInit
<1>2. TypeOK
  BY <1>1 DEF TypeOK, SequencerInv, ApbStates, NoOp
<1>3. DriverInv
  BY DEF DriverInv
<1>4. ItemInv
  BY DEF ItemInv
<1>5. SignalsInv
  BY DEF SignalsInv, ApbSignals, NoOp
<1>6. RequestInv
  BY DEF RequestInv
<1>7. AnswerInv
  BY DEF AnswerInv
<1>8. ResetInv
  BY DEF ResetInv
<1>9. LedgerInv
  BY DEF LedgerInv
<1> QED BY <1>1, <1>2, <1>3, <1>4, <1>5, <1>6, <1>7, <1>8, <1>9 DEF IInv

(* At an edge all tasks have run; it resumes those that await it. *)
LEMMA ClkInv == ASSUME IInv, Clk PROVE IInv'
<1> USE DEF cocotbVars, sequencerVars, apbVars, requestVars, responseVars,
            monitorVars, history, Clk
<1>1. awake = {} /\ dying = {} /\ Producer \in ApbPorts /\ Consumer \in ApbPorts
  BY DEF Quiet, EdgeTasksDone
<1>2. Producer \in awake' <=> WakesProducer
  BY DEF Only
<1>3. Consumer \in awake' <=> WakesConsumer
  BY DEF Only
<1>4. Monitor \in awake' <=> WakesMonitor
  BY DEF Only
<1>5. Producer \in dying' <=> process[Producer] # "reset" /\ rst = "0"
  BY DEF Only, KilledByEdge, Alive
<1>6. awake' \cup dying' \subseteq Ports \cup {Monitor}
  BY DEF Only, KilledByEdge
<1>7. SequencerInv(PortOf)'
  BY OthersKeep DEF IInv
<1>8. TypeOK'
  <2>1. process' = process /\ rst' = rst
    OBVIOUS
  <2>2. \A d \in awake' \cap ApbPorts :
          process[d] # "get" /\ (process[d] = "reset" => rst = "1")
    BY <1>2, <1>3 DEF WakesProducer, WakesConsumer, ReleasedByEdge
  <2>3. /\ awake' \subseteq Ports \cup {Monitor}
        /\ dying' \subseteq awake' \cup Ports \cup {Monitor}
    BY <1>6
  <2> HIDE DEF Clk
  <2>4. UNCHANGED <<reading, sequencerVars, apbVars>>
    BY DEF Clk
  <2> QED BY <2>1, <2>2, <2>3, <2>4 DEF IInv, TypeOK, SequencerTypeOK
<1>9. DriverInv'
  BY DEF IInv, DriverInv
<1>10. ItemInv'
  BY DEF IInv, ItemInv
<1>11. SignalsInv'
  BY DEF IInv, SignalsInv, ProducerItem, TypeOK, ApbSignals
<1>12. RequestInv'
  BY <1>2 DEF IInv, SignalsInv, RequestInv, RequestFollows, WakesProducer,
     ReleasedByEdge, ApbSignals
<1>13. AnswerInv'
  BY <1>1, <1>2, <1>3 DEF IInv, SignalsInv, AnswerInv, Offered, WakesProducer,
     WakesConsumer, ReleasedByEdge, ApbSignals
<1>14. ResetInv'
  BY <1>1, <1>5 DEF IInv, SignalsInv, ResetInv, WakesProducer, ReleasedByEdge,
     WakesMonitor, KillsMonitor, ApbSignals, KilledByEdge, Only
<1>15. LedgerInv'
  BY <1>1, <1>2, <1>4 DEF IInv, LedgerInv, Completing, Unwritten, WakesProducer,
     ReleasedByEdge, WakesMonitor, ApbSignals, Transferring, TypeOK, SignalsInv
<1> QED BY <1>7, <1>8, <1>9, <1>10, <1>11, <1>12, <1>13, <1>14, <1>15 DEF IInv

(* No task reacts to the reset before the next edge. *)
LEMMA ChangeResetInv == ASSUME IInv, ChangeReset PROVE IInv'
<1> USE DEF cocotbVars, sequencerVars, apbVars, requestVars, responseVars,
            monitorVars, history, ChangeReset
<1>1. awake = {} /\ dying = {}
  BY DEF Quiet, EdgeTasksDone
<1>2. SequencerInv(PortOf)'
  BY <1>1, OthersKeep DEF IInv
<1>3. TypeOK'
  BY <1>1, <1>2 DEF IInv, TypeOK, SequencerInv
<1>4. DriverInv'
  BY <1>1 DEF IInv, DriverInv
<1>5. ItemInv'
  BY <1>1 DEF IInv, ItemInv
<1>6. SignalsInv'
  BY DEF IInv, SignalsInv, ProducerItem
<1>7. RequestInv'
  BY DEF IInv, RequestInv, RequestFollows
<1>8. AnswerInv'
  BY DEF IInv, AnswerInv, Offered
<1>9. ResetInv'
  BY <1>1 DEF IInv, ResetInv
<1>10. LedgerInv'
  BY DEF IInv, LedgerInv, Completing, Unwritten
<1> QED BY <1>2, <1>3, <1>4, <1>5, <1>6, <1>7, <1>8, <1>9, <1>10 DEF IInv

(* A new item does not concern the drivers yet. *)
LEMMA SendInv == ASSUME IInv, NEW c \in Clients, Send(c) PROVE IInv'
<1> USE DEF cocotbVars, sequencerVars, apbVars, requestVars, responseVars,
            monitorVars, history, Send
<1>1. PICK i \in ItemsOf[PortOf[c]] : StartItem(PortOf[c], c, i)
  BY DEF Send
<1>2. /\ i \in ApbItems
      /\ item' = [item EXCEPT ![c] = i]
      /\ stage' = [stage EXCEPT ![c] = "queued"]
      /\ stage \in [Clients -> Stages]
      /\ stage[c] = "idle"
      /\ UNCHANGED <<current_item, responses>>
  BY <1>1 DEF StartItem, IInv, TypeOK, SequencerTypeOK
<1>3. process[Producer] \notin {"reset", "get"} => ProducerItem' = ProducerItem
  BY <1>2, DriverHasItem DEF ProducerItem
<1>4. SequencerInv(PortOf)'
  BY StartItemKeeps DEF IInv
<1>5. TypeOK'
  BY <1>4 DEF IInv, TypeOK, SequencerInv
<1>6. DriverInv'
  BY <1>2 DEF IInv, DriverInv
<1>7. ItemInv'
  BY <1>2 DEF IInv, ItemInv
<1>8. SignalsInv'
  BY <1>3 DEF IInv, SignalsInv
<1>9. RequestInv'
  BY DEF IInv, RequestInv, RequestFollows
<1>10. AnswerInv'
  BY DEF IInv, AnswerInv, Offered
<1>11. ResetInv'
  BY DEF IInv, ResetInv
<1>12. LedgerInv'
  BY DEF IInv, LedgerInv, Completing, Unwritten
<1> QED BY <1>4, <1>5, <1>6, <1>7, <1>8, <1>9, <1>10, <1>11, <1>12 DEF IInv

(* A sequence drops an item no driver has any more. *)
LEMMA EndSeqInv == ASSUME IInv, NEW c \in Clients, EndSeq(c) PROVE IInv'
<1> USE DEF cocotbVars, sequencerVars, apbVars, requestVars, responseVars,
            monitorVars, history, EndSeq
<1>1. /\ Ended(c)
      /\ item' = [item EXCEPT ![c] = None]
      /\ stage' = [stage EXCEPT ![c] = "idle"]
      /\ stage \in [Clients -> Stages] /\ stage[c] = "finished"
  BY DEF Ended, IInv, TypeOK, SequencerTypeOK
<1>2. process[Producer] \notin {"reset", "get"} => ProducerItem' = ProducerItem
  BY <1>1, DriverHasItem DEF ProducerItem
<1>3. SequencerInv(PortOf)'
  BY EndedKeeps DEF IInv
<1>4. TypeOK'
  BY <1>3 DEF IInv, TypeOK, SequencerInv
<1>5. DriverInv'
  BY DEF IInv, DriverInv
<1>6. ItemInv'
  BY <1>1 DEF IInv, ItemInv
<1>7. SignalsInv'
  BY <1>2 DEF IInv, SignalsInv
<1>8. RequestInv'
  BY DEF IInv, RequestInv, RequestFollows
<1>9. AnswerInv'
  BY DEF IInv, AnswerInv, Offered
<1>10. ResetInv'
  BY DEF IInv, ResetInv
<1>11. LedgerInv'
  BY DEF IInv, LedgerInv, Completing, Unwritten
<1> QED BY <1>3, <1>4, <1>5, <1>6, <1>7, <1>8, <1>9, <1>10, <1>11 DEF IInv

(* The reset is over: a driver begins by asking for an item. *)
LEMMA StartProcessInv ==
  ASSUME IInv, NEW d \in ApbPorts, StartProcess(d), UNCHANGED <<monitorVars, history>>
  PROVE  IInv'
<1> USE DEF cocotbVars, sequencerVars, apbVars, requestVars, responseVars,
            monitorVars, history, StartProcess, Resume
<1>1. SequencerInv(PortOf)'
  BY OthersKeep DEF IInv
<1>2. TypeOK'
  BY <1>1 DEF IInv, TypeOK, SequencerInv, ApbStates
<1>3. DriverInv'
  BY DEF IInv, DriverInv
<1>4. ItemInv'
  BY DEF IInv, ItemInv
<1>5. SignalsInv'
  BY DEF IInv, SignalsInv, ProducerItem
<1>6. RequestInv'
  BY DEF IInv, SignalsInv, RequestInv, RequestFollows
<1>7. AnswerInv'
  BY DEF IInv, SignalsInv, RequestInv, AnswerInv, Offered
<1>8. ResetInv'
  BY DEF IInv, ResetInv
<1>9. LedgerInv'
  BY DEF IInv, LedgerInv, Completing, Unwritten
<1> QED BY <1>1, <1>2, <1>3, <1>4, <1>5, <1>6, <1>7, <1>8, <1>9 DEF IInv

(* A driver gets an item, and touches no signal with it yet. *)
LEMMA GetItemInv ==
  ASSUME IInv, NEW d \in ApbPorts, GetItem(d), UNCHANGED <<monitorVars, history>>
  PROVE  IInv'
<1> USE DEF cocotbVars, sequencerVars, apbVars, requestVars, responseVars,
            monitorVars, history, GetItem
<1>1. process \in [ApbPorts -> ApbStates]
  BY DEF IInv, TypeOK
<1>2. awake = {} /\ dying = {} /\ GetNextItem(d) /\ process[d] = "get"
      /\ process' = [process EXCEPT ![d] = "align"] /\ UNCHANGED <<item, responses>>
  BY DEF EdgeTasksDone, GetNextItem
<1>3. process'[d] = "align" /\ \A e \in ApbPorts : e # d => process'[e] = process[e]
  BY <1>1, <1>2
<1>4. /\ SequencerInv(PortOf)' /\ current_item'[d] \in Clients
      /\ \A e \in Ports : e # d => current_item'[e] = current_item[e]
      /\ stage[current_item'[d]] = "queued"
      /\ stage' = [stage EXCEPT ![current_item'[d]] = "sent"]
  BY <1>2, GetNextItemKeeps DEF IInv
<1>5. SequencerInv(PortOf)'
  BY <1>4
<1>6. TypeOK'
  BY <1>5 DEF IInv, TypeOK, SequencerInv, ApbStates
<1>7. DriverInv'
  BY <1>3, <1>4 DEF IInv, DriverInv
<1>8. ItemInv'
  BY <1>2, <1>4 DEF IInv, ItemInv
<1>9. SignalsInv'
  BY <1>2, <1>4 DEF IInv, SignalsInv, ProducerItem
<1>10. RequestInv'
  BY DEF IInv, RequestInv, RequestFollows
<1>11. AnswerInv'
  BY DEF IInv, TypeOK, AnswerInv, Offered
<1>12. ResetInv'
  BY <1>2 DEF IInv, ResetInv
<1>13. LedgerInv'
  BY DEF IInv, LedgerInv, Completing, Unwritten
<1> QED BY <1>5, <1>6, <1>7, <1>8, <1>9, <1>10, <1>11, <1>12, <1>13 DEF IInv

(* The setup phase of a transfer. *)
LEMMA DriveSetupInv ==
  ASSUME IInv, DriveSetup, UNCHANGED <<monitorVars, history>>
  PROVE  IInv'
<1> USE DEF cocotbVars, sequencerVars, apbVars, requestVars, responseVars,
            monitorVars, history, DriveSetup, Resume
<1>1. process \in [ApbPorts -> ApbStates]
  BY DEF IInv, TypeOK
<1>2. /\ ProducerItem \in ApbItems
      /\ ProducerItem.we \in BOOLEAN
      /\ ProducerItem.addr \in Addr
      /\ DrivenData(ProducerItem) \in Data \cup {X}
  BY DriverHasItem, ItemFields DEF ProducerItem
<1>3. /\ process'[Producer] = "enable"
      /\ \A e \in ApbPorts : e # Producer => process'[e] = process[e]
  BY <1>1
<1>4. op' \in [we : BOOLEAN, addr : Addr \cup {X}, wdata : Data \cup {X}]
  BY <1>2 DEF IInv, TypeOK
<1>5. SequencerInv(PortOf)'
  BY OthersKeep DEF IInv
<1>6. TypeOK'
  <2>1. process' \in [ApbPorts -> ApbStates]
    BY <1>1, <1>3 DEF ApbStates
  <2> QED BY <1>2, <1>4, <1>5, <2>1 DEF IInv, TypeOK, SequencerInv
<1>7. DriverInv'
  BY DEF IInv, DriverInv
<1>8. ItemInv'
  BY DEF IInv, ItemInv
<1>9. SignalsInv'
  BY <1>2, <1>3 DEF IInv, SignalsInv, ProducerItem
<1>10. RequestInv'
  BY DEF IInv, SignalsInv, RequestInv, RequestFollows
<1>11. AnswerInv'
  BY DEF IInv, SignalsInv, AnswerInv
<1>12. ResetInv'
  BY DEF IInv, ResetInv
<1>13. LedgerInv'
  BY DEF IInv, LedgerInv, Completing, Unwritten
<1> QED BY <1>5, <1>6, <1>7, <1>8, <1>9, <1>10, <1>11, <1>12, <1>13 DEF IInv

(* Its access phase. *)
LEMMA DriveEnableInv ==
  ASSUME IInv, DriveEnable, UNCHANGED <<monitorVars, history>>
  PROVE  IInv'
<1> USE DEF cocotbVars, sequencerVars, apbVars, requestVars, responseVars,
            monitorVars, history, DriveEnable, Resume
<1>1. process \in [ApbPorts -> ApbStates]
  BY DEF IInv, TypeOK
<1>2. /\ process'[Producer] = "ready"
      /\ \A e \in ApbPorts : e # Producer => process'[e] = process[e]
  BY <1>1
<1>3. SequencerInv(PortOf)'
  BY OthersKeep DEF IInv
<1>4. TypeOK'
  BY <1>3 DEF IInv, TypeOK, SequencerInv, ApbStates
<1>5. DriverInv'
  BY DEF IInv, DriverInv
<1>6. ItemInv'
  BY DEF IInv, ItemInv
<1>7. SignalsInv'
  BY <1>2 DEF IInv, SignalsInv, ProducerItem
<1>8. RequestInv'
  BY DEF IInv, SignalsInv, RequestInv, RequestFollows
<1>9. AnswerInv'
  BY DEF IInv, AnswerInv, Offered
<1>10. ResetInv'
  BY DEF IInv, ResetInv
<1>11. LedgerInv'
  BY DEF IInv, LedgerInv, Completing, Unwritten
<1> QED BY <1>3, <1>4, <1>5, <1>6, <1>7, <1>8, <1>9, <1>10, <1>11 DEF IInv

(* The producer ends a transfer with the answer the edge has seen. *)
LEMMA ProducerCompleteInv == ASSUME IInv, ProducerComplete PROVE IInv'
<1> USE DEF cocotbVars, sequencerVars, apbVars, requestVars, responseVars,
            monitorVars, history, ProducerComplete, Complete, Resume, RequestReset
<1>1. process \in [ApbPorts -> ApbStates]
  BY DEF IInv, TypeOK
<1>2. /\ SequencerInv(PortOf)' /\ current_item'[Producer] = None
      /\ \A q \in Ports : q # Producer => current_item'[q] = current_item[q]
      /\ \A c \in Clients :
           stage'[c] = IF c = current_item[Producer] THEN "finished" ELSE stage[c]
  BY ItemDoneKeeps DEF IInv
<1>3. /\ process'[Producer] = "get"
      /\ \A e \in ApbPorts : e # Producer => process'[e] = process[e]
  BY <1>1
<1>4. ProducerItem \in ApbItems /\ current_item[Producer] \in Clients
  BY DriverHasItem DEF ProducerItem
<1>5. seen.apb.ready /\ seen.apb.enable /\ seen.apb.rdata \in Data \cup {X}
  BY DEF IInv, SignalsInv, RequestInv
<1>6. SequencerInv(PortOf)'
  BY <1>2
<1>7. TypeOK'
  <2>1. process' \in [ApbPorts -> ApbStates]
    BY <1>1, <1>3 DEF ApbStates
  <2> QED BY <1>4, <1>5, <1>6, <2>1 DEF IInv, TypeOK, SequencerInv, NoOp
<1>8. DriverInv'
  BY <1>2, <1>3 DEF IInv, DriverInv
<1>9. ItemInv'
  BY <1>2, <1>4, <1>5, ItemFields DEF IInv, ItemInv, ProducerItem
<1>10. SignalsInv'
  BY <1>3 DEF IInv, SignalsInv
<1>11. RequestInv'
  BY DEF IInv, SignalsInv, RequestInv, RequestFollows
<1>12. AnswerInv'
  BY DEF IInv, RequestInv, AnswerInv
<1>13. ResetInv'
  BY DEF IInv, ResetInv
<1>14. LedgerInv'
  <2>1. Completing /\ ~Completing' /\ Transferring(seen.apb)
    BY <1>5 DEF Completing, Transferring
  <2>2. Monitor \in awake' <=> Monitor \in awake
    OBVIOUS
  <2>3. CASE monitor = "off"
    BY <2>3 DEF IInv, LedgerInv
  <2>4. CASE monitor # "off" /\ Monitor \in awake
    <3>1. Monitor \notin dying => ledger = Unwritten /\ ledger' = Append(Unwritten,
    Transfer(seen.apb))
      BY <2>1, <2>4 DEF IInv, LedgerInv
    <3> QED BY <2>1, <2>2, <2>4, <3>1 DEF IInv, LedgerInv, Unwritten
  <2>5. CASE monitor # "off" /\ Monitor \notin awake
    <3>1. Monitor \notin dying =>
            /\ ledger' = Append(<<>>, Transfer(seen.apb))
            /\ monitor = "write" /\ captured = Transfer(seen.apb)
      BY <2>1, <2>5 DEF IInv, LedgerInv
    <3>2. Append(<<>>, captured) = <<captured>>
      OBVIOUS
    <3> QED BY <2>1, <2>2, <2>5, <3>1, <3>2 DEF LedgerInv, Unwritten
  <2> QED BY <2>3, <2>4, <2>5
<1> QED BY <1>6, <1>7, <1>8, <1>9, <1>10, <1>11, <1>12, <1>13, <1>14 DEF IInv

(* A reset ends the item the producer has, and its transfer. *)
LEMMA KillProducerInv == ASSUME IInv, ProducerKilled PROVE IInv'
<1> USE DEF cocotbVars, sequencerVars, apbVars, requestVars, responseVars,
            monitorVars, history, ProducerKilled, KillProducer, KillProcess, Kill,
            RequestReset
<1>1. process \in [ApbPorts -> ApbStates]
  BY DEF IInv, TypeOK
<1>2. /\ SequencerInv(PortOf)' /\ current_item'[Producer] = None
      /\ \A q \in Ports : q # Producer => current_item'[q] = current_item[q]
      /\ \A c \in Clients :
           stage'[c] = IF c = current_item[Producer] THEN "finished" ELSE stage[c]
  BY ItemDoneKeeps DEF IInv
<1>3. /\ process'[Producer] = "reset"
      /\ \A e \in ApbPorts : e # Producer => process'[e] = process[e]
  BY <1>1
<1>4. SequencerInv(PortOf)'
  BY <1>2
<1>5. TypeOK'
  BY <1>4 DEF IInv, TypeOK, SequencerInv, ApbStates, NoOp
<1>6. DriverInv'
  BY <1>2, <1>3 DEF IInv, DriverInv
<1>7. ItemInv'
  BY <1>2 DEF IInv, ItemInv
<1>8. SignalsInv'
  BY <1>3 DEF IInv, SignalsInv
<1>9. RequestInv'
  BY <1>3 DEF RequestInv
<1>10. AnswerInv'
  BY DEF IInv, TypeOK, AnswerInv
<1>11. ResetInv'
  BY DEF IInv, TypeOK, ResetInv
<1>12. LedgerInv'
  BY DEF IInv, LedgerInv, ResetInv
<1> QED BY <1>4, <1>5, <1>6, <1>7, <1>8, <1>9, <1>10, <1>11, <1>12 DEF IInv

(* The consumer answers the request the edge has seen. *)
LEMMA ConsumerAnswerInv == ASSUME IInv, ConsumerAnswer PROVE IInv'
<1> USE DEF cocotbVars, sequencerVars, apbVars, requestVars, responseVars,
            monitorVars, history, ConsumerAnswer, Answer, Resume
<1>1. process \in [ApbPorts -> ApbStates]
  BY DEF IInv, TypeOK
<1>2. /\ ConsumerItem \in ApbItems
      /\ ConsumerItem.slverr \in BOOLEAN
      /\ ConsumerItem.data \in Data \cup {X}
  BY DriverHasItem, ItemFields DEF ConsumerItem
<1>3. /\ process'[Consumer] = "withdraw"
      /\ \A e \in ApbPorts : e # Consumer => process'[e] = process[e]
  BY <1>1
<1>4. SequencerInv(PortOf)'
  BY OthersKeep DEF IInv
<1>5. TypeOK'
  BY <1>2, <1>4 DEF IInv, TypeOK, SequencerInv, ApbStates
<1>6. DriverInv'
  BY DEF IInv, DriverInv
<1>7. ItemInv'
  BY DEF IInv, ItemInv
<1>8. SignalsInv'
  BY <1>3 DEF IInv, SignalsInv, ProducerItem
<1>9. RequestInv'
  BY DEF IInv, RequestInv, RequestFollows
<1>10. AnswerInv'
  BY DEF IInv, RequestInv, AnswerInv, Offered, RequestFollows
<1>11. ResetInv'
  BY DEF IInv, ResetInv
<1>12. LedgerInv'
  BY DEF IInv, LedgerInv, Completing, Unwritten
<1> QED BY <1>4, <1>5, <1>6, <1>7, <1>8, <1>9, <1>10, <1>11, <1>12 DEF IInv

(* It withdraws its answer one edge later. *)
LEMMA WithdrawInv ==
  ASSUME IInv, Withdraw, UNCHANGED <<monitorVars, history>>
  PROVE  IInv'
<1> USE DEF cocotbVars, sequencerVars, apbVars, requestVars, responseVars,
            monitorVars, history, Withdraw, Resume, ResponseReset
<1>1. process \in [ApbPorts -> ApbStates]
  BY DEF IInv, TypeOK
<1>2. /\ SequencerInv(PortOf)' /\ current_item'[Consumer] = None
      /\ \A q \in Ports : q # Consumer => current_item'[q] = current_item[q]
      /\ \A c \in Clients :
           stage'[c] = IF c = current_item[Consumer] THEN "finished" ELSE stage[c]
  BY ItemDoneKeeps DEF IInv
<1>3. /\ process'[Consumer] = "get"
      /\ \A e \in ApbPorts : e # Consumer => process'[e] = process[e]
  BY <1>1
<1>4. SequencerInv(PortOf)'
  BY <1>2
<1>5. TypeOK'
  BY <1>4 DEF IInv, TypeOK, SequencerInv, ApbStates
<1>6. DriverInv'
  BY <1>2, <1>3 DEF IInv, DriverInv
<1>7. ItemInv'
  BY <1>2 DEF IInv, ItemInv
<1>8. SignalsInv'
  BY <1>2, <1>3 DEF IInv, SignalsInv, ProducerItem
<1>9. RequestInv'
  BY DEF IInv, RequestInv, RequestFollows
<1>10. AnswerInv'
  BY DEF IInv, TypeOK, AnswerInv, Offered
<1>11. ResetInv'
  BY DEF IInv, ResetInv
<1>12. LedgerInv'
  BY DEF IInv, LedgerInv, Completing, Unwritten
<1> QED BY <1>4, <1>5, <1>6, <1>7, <1>8, <1>9, <1>10, <1>11, <1>12 DEF IInv

(* A reset ends the item the consumer has, and its answer. *)
LEMMA KillConsumerInv ==
  ASSUME IInv, KillConsumer, UNCHANGED <<monitorVars, history>>
  PROVE  IInv'
<1> USE DEF cocotbVars, sequencerVars, apbVars, requestVars, responseVars,
            monitorVars, history, KillConsumer, KillProcess, Kill, ResponseReset
<1>1. process \in [ApbPorts -> ApbStates]
  BY DEF IInv, TypeOK
<1>2. /\ SequencerInv(PortOf)' /\ current_item'[Consumer] = None
      /\ \A q \in Ports : q # Consumer => current_item'[q] = current_item[q]
      /\ \A c \in Clients :
           stage'[c] = IF c = current_item[Consumer] THEN "finished" ELSE stage[c]
  BY ItemDoneKeeps DEF IInv
<1>3. /\ process'[Consumer] = "reset"
      /\ \A e \in ApbPorts : e # Consumer => process'[e] = process[e]
  BY <1>1
<1>4. SequencerInv(PortOf)'
  BY <1>2
<1>5. TypeOK'
  BY <1>4 DEF IInv, TypeOK, SequencerInv, ApbStates
<1>6. DriverInv'
  BY <1>2, <1>3 DEF IInv, DriverInv
<1>7. ItemInv'
  BY <1>2 DEF IInv, ItemInv
<1>8. SignalsInv'
  BY <1>2, <1>3 DEF IInv, SignalsInv, ProducerItem
<1>9. RequestInv'
  BY DEF IInv, RequestInv, RequestFollows
<1>10. AnswerInv'
  BY DEF IInv, TypeOK, AnswerInv, Offered
<1>11. ResetInv'
  BY DEF IInv, ResetInv
<1>12. LedgerInv'
  BY DEF IInv, LedgerInv, Completing, Unwritten
<1> QED BY <1>4, <1>5, <1>6, <1>7, <1>8, <1>9, <1>10, <1>11, <1>12 DEF IInv

(* The monitor writes what it has captured, and captures what ends now. *)
LEMMA MonitorRunInv == ASSUME IInv, MonitorRun PROVE IInv'
<1> USE DEF cocotbVars, sequencerVars, apbVars, requestVars, responseVars,
            monitorVars, history, MonitorRun, RunMonitor, Resume, Observe
<1>1. SequencerInv(PortOf)'
  BY OthersKeep DEF IInv
<1>2. TypeOK'
  BY <1>1 DEF IInv, TypeOK, SequencerInv
<1>3. DriverInv'
  BY DEF IInv, DriverInv
<1>4. ItemInv'
  BY DEF IInv, ItemInv
<1>5. SignalsInv'
  BY DEF IInv, SignalsInv, ProducerItem
<1>6. RequestInv'
  BY DEF IInv, RequestInv, RequestFollows
<1>7. AnswerInv'
  BY DEF IInv, AnswerInv, Offered
<1>8. ResetInv'
  BY DEF IInv, ResetInv
<1>9. LedgerInv'
  <2>1. Monitor \in awake /\ Monitor \notin awake' /\ dying' = dying /\ seen' = seen
        /\ Completing' <=> Completing
    BY DEF Completing
  <2>2. CASE monitor = "off"
    <3>1. monitor' = "transfer" /\ ledger' = ledger
      BY <2>2 DEF IInv, ResetInv, Transferring
    <3>2. ~Completing
      BY <2>2 DEF IInv, ResetInv, Completing
    <3> QED BY <2>1, <2>2, <3>1, <3>2 DEF IInv, LedgerInv, Unwritten
  <2>3. CASE monitor = "transfer"
    <3>1. monitor' = "write" /\ captured' = Transfer(seen.apb) /\ ledger' = ledger
      BY <2>3
    <3>2. Append(<<>>, Transfer(seen.apb)) = <<Transfer(seen.apb)>>
      OBVIOUS
    <3> QED BY <2>1, <2>3, <3>1, <3>2 DEF IInv, LedgerInv, Unwritten
  <2>4. CASE monitor = "write"
    <3>1. ledger' = Tail(ledger)
      BY <2>4
    <3>2. /\ Tail(<<captured>>) = <<>>
          /\ Tail(Append(<<captured>>, Transfer(seen.apb))) = <<Transfer(seen.apb)>>
      BY TailOfOne, TailOfTwo
    <3>3. Completing => Transferring(seen.apb)
      BY DEF Completing, Transferring, IInv, SignalsInv, RequestInv
    <3>4. CASE Transferring(seen.apb)
      <4>1. monitor' = "write" /\ captured' = Transfer(seen.apb)
        BY <2>4, <3>4
      <4> QED BY <2>1, <2>4, <3>1, <3>2, <3>4, <4>1 DEF IInv, LedgerInv, Unwritten
    <3>5. CASE ~Transferring(seen.apb)
      <4>1. monitor' = "transfer"
        BY <2>4, <3>5
      <4> QED BY <2>1, <2>4, <3>1, <3>2, <3>3, <3>5, <4>1 DEF IInv, LedgerInv,
                 Unwritten
    <3> QED BY <3>4, <3>5
  <2> QED BY <2>2, <2>3, <2>4 DEF IInv, TypeOK
<1> QED BY <1>1, <1>2, <1>3, <1>4, <1>5, <1>6, <1>7, <1>8, <1>9 DEF IInv

(* A reset stops the monitor, and what it has captured is lost. *)
LEMMA MonitorKilledInv == ASSUME IInv, MonitorKilled PROVE IInv'
<1> USE DEF cocotbVars, sequencerVars, apbVars, requestVars, responseVars,
            monitorVars, history, MonitorKilled, KillMonitor, Kill
<1>1. SequencerInv(PortOf)'
  BY OthersKeep DEF IInv
<1>2. TypeOK'
  BY <1>1 DEF IInv, TypeOK, SequencerInv
<1>3. DriverInv'
  BY DEF IInv, DriverInv
<1>4. ItemInv'
  BY DEF IInv, ItemInv
<1>5. SignalsInv'
  BY DEF IInv, SignalsInv, ProducerItem
<1>6. RequestInv'
  BY DEF IInv, RequestInv, RequestFollows
<1>7. AnswerInv'
  BY DEF IInv, AnswerInv, Offered
<1>8. ResetInv'
  BY DEF IInv, ResetInv
<1>9. LedgerInv'
  BY DEF LedgerInv
<1> QED BY <1>1, <1>2, <1>3, <1>4, <1>5, <1>6, <1>7, <1>8, <1>9 DEF IInv


LEMMA StepInv == IInv /\ [Next]_vars => IInv'
<1> SUFFICES ASSUME IInv, [Next]_vars PROVE IInv'
  OBVIOUS
<1>1. CASE Clk
  BY <1>1, ClkInv
<1>2. CASE ChangeReset
  BY <1>2, ChangeResetInv
<1>3. CASE Handshake
  BY <1>3, StartProcessInv, GetItemInv DEF Handshake
<1>4. CASE ProducerSetup
  BY <1>4, DriveSetupInv, DriveEnableInv DEF ProducerSetup
<1>5. CASE ProducerComplete
  BY <1>5, ProducerCompleteInv
<1>6. CASE ProducerKilled
  BY <1>6, KillProducerInv
<1>7. CASE ConsumerAnswer
  BY <1>7, ConsumerAnswerInv
<1>8. CASE ConsumerRest
  BY <1>8, WithdrawInv, KillConsumerInv DEF ConsumerRest
<1>9. CASE MonitorRun \/ MonitorKilled
  BY <1>9, MonitorRunInv, MonitorKilledInv
<1>10. ASSUME NEW c \in Clients, EndSeq(c) PROVE IInv'
  BY <1>10, EndSeqInv
<1>11. ASSUME NEW c \in Clients, Send(c) PROVE IInv'
  BY <1>11, SendInv
<1>12. CASE UNCHANGED vars
  <2> USE <1>12 DEF vars, cocotbVars, sequencerVars, apbVars, requestVars,
  responseVars,
                    monitorVars, history
  <2>1. SequencerInv(PortOf)'
    BY OthersKeep DEF IInv
  <2>2. TypeOK' /\ DriverInv' /\ ItemInv' /\ SignalsInv'
    BY <2>1 DEF IInv, TypeOK, SequencerInv, DriverInv, ItemInv, SignalsInv,
       ProducerItem
  <2>3. RequestInv' /\ AnswerInv' /\ ResetInv' /\ LedgerInv'
    BY DEF IInv, RequestInv, RequestFollows, AnswerInv, Offered, ResetInv,
           LedgerInv,
       Completing, Unwritten
  <2> QED BY <2>1, <2>2, <2>3 DEF IInv
<1> QED BY <1>1, <1>2, <1>3, <1>4, <1>5, <1>6, <1>7, <1>8, <1>9, <1>10, <1>11, <1>12
        DEF Next, Tasks

-----------------------------------------------------------------------------
(* The strengthening that the following theorems rest on is an invariant. *)
THEOREM Invariance == Spec => []IInv
BY InitInv, StepInv, PTL DEF Spec

(* Tasks, queues and signals keep their types, and a task is only resumed   *)
(* by what it awaits.                                                       *)
THEOREM TypeCorrect == Spec => []TypeOK
<1>1. IInv => TypeOK
  BY DEF IInv
<1> QED BY <1>1, Invariance, PTL

(* get_next_item never raises a UVMSequenceError, whenever a reset comes. *)
THEOREM NoSequenceErrors == Spec => []NoSequenceError
<1>1. IInv => NoSequenceError
  BY DEF IInv, DriverInv, NoSequenceError
<1> QED BY <1>1, Invariance, PTL

(* The monitor loses no transfer and invents none. *)
THEOREM MonitorComplete == Spec => []MonitorSeesTransfers
<1>1. IInv => MonitorSeesTransfers
  <2> SUFFICES ASSUME IInv, EdgeTasksDone
               PROVE  ledger = IF monitor = "write" THEN <<captured>> ELSE <<>>
    BY DEF MonitorSeesTransfers
  <2>1. Monitor \notin dying /\ Monitor \notin awake /\ ~Completing
    BY DEF EdgeTasksDone, Completing
  <2> QED BY <2>1 DEF IInv, LedgerInv, Unwritten
<1> QED BY <1>1, Invariance, PTL

(* The producer keeps to the APB protocol, except that a reset breaks a     *)
(* transfer off.                                                            *)
THEOREM ProtocolKept == Spec => ApbProtocol
<1> DEFINE Kept ==
      Clk /\ process[Producer] # "reset" =>
        LET was == seen.apb IN
        /\ PENABLE => was.sel
        /\ was.sel /\ ~(was.enable /\ was.ready) => PSEL /\ PENABLE /\ op = was.op
        /\ was.enable /\ was.ready => ~PSEL
<1>1. IInv /\ [Next]_vars => [Kept]_vars
  <2> SUFFICES ASSUME IInv, Clk, process[Producer] # "reset" PROVE RequestFollows
    BY DEF RequestFollows
  <2>1. Producer \notin awake
    BY DEF Clk, Quiet, EdgeTasksDone
  <2> QED BY <2>1 DEF IInv, RequestInv
<1> QED BY <1>1, Invariance, PTL DEF Spec, ApbProtocol

(* The answer the producer takes was given to its request. *)
THEOREM AnswersMatch == Spec => AnswersItsRequest
<1> DEFINE Matches ==
      ProducerComplete =>
        /\ offer # NoOffer
        /\ offer.op = op /\ responses'[Producer][1].slverr = offer.slverr
        /\ op.we \/ item'[current_item[Producer]].data = offer.data
<1>1. IInv /\ [Next]_vars => [Matches]_vars
  <2> SUFFICES ASSUME IInv, ProducerComplete
               PROVE  /\ offer # NoOffer
                      /\ offer.op = op
                      /\ responses'[Producer][1].slverr = offer.slverr
                      /\ op.we \/ item'[current_item[Producer]].data = offer.data
    OBVIOUS
  <2>1. Producer \in awake /\ process[Producer] = "ready"
    BY DEF ProducerComplete, Complete, Resume
  <2>2. /\ offer.op = op /\ seen.apb.slverr = offer.slverr
        /\ op.we \/ seen.apb.rdata = offer.data
    BY <2>1 DEF IInv, AnswerInv, Offered
  <2>3. op.we = ProducerItem.we /\ op.addr \in Addr
    BY <2>1 DEF IInv, SignalsInv
  <2>4. offer # NoOffer
    BY <2>2, <2>3 DEF NoOffer, NoOp
  <2>5. responses'[Producer] = <<[slverr |-> seen.apb.slverr]>>
    BY DEF ProducerComplete, Complete, IInv, ItemInv
  <2>6. /\ current_item[Producer] \in Clients /\ ProducerItem \in ApbItems
        /\ item \in [Clients -> ApbItems \cup {None}]
    BY <2>1, DriverHasItem DEF ProducerItem, IInv, ItemInv
  <2>7. ~op.we =>
          item'[current_item[Producer]] = [ProducerItem EXCEPT !.data = seen.apb.rdata]
    BY <2>3, <2>6 DEF ProducerComplete, Complete, ProducerItem
  <2>8. responses'[Producer][1].slverr = offer.slverr
    BY <2>2, <2>5
  <2>9. [ProducerItem EXCEPT !.data = seen.apb.rdata].data = seen.apb.rdata
    BY <2>6 DEF ApbItems
  <2>10. op.we \/ item'[current_item[Producer]].data = offer.data
    BY <2>2, <2>7, <2>9
  <2> QED BY <2>2, <2>4, <2>8, <2>10
<1> QED BY <1>1, Invariance, PTL DEF Spec, AnswersItsRequest

=============================================================================
