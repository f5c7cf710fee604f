-------------------------- MODULE SramPath_proofs ---------------------------
(***************************************************************************)
(* Proofs about SramPath, for every set of initiators, every bank size and *)
(* every set of addresses that are different words of the bank.            *)
(***************************************************************************)
EXTENDS SramPath, TLAPS

LEMMA InitIInv == Init => IInv
<1> SUFFICES ASSUME Init PROVE IInv
  OBVIOUS
<1> USE ObiManagersAssumption, BusTypesAssumption, SpSramAssumption
    DEF Init, ManagersInit, SramInit
<1>1. (CHOOSE o \in Workload : TRUE) \in Ops
  OBVIOUS
<1>2. ManagersTypeOK
  BY <1>1 DEF ManagersTypeOK
<1>3. SramTypeOK
  BY DEF SramTypeOK, Words, Byte
<1> QED BY <1>2, <1>3 DEF IInv, TypeOK, req, AnswerReadsItsWord

(* What the managers do at an edge, client by client.                      *)
LEMMA EdgeManagers ==
  ASSUME NEW rready, ClkWith(rready)
  PROVE  /\ mop' = mop
         /\ sel' = IF gnt_reg THEN NoClient ELSE sel
         /\ owner' = IF gnt_reg THEN sel
                     ELSE IF rvalid_reg /\ rready THEN NoClient ELSE owner
         /\ \A c \in Clients :
              /\ mphase'[c] = IF gnt_reg /\ c = sel THEN "wait"
                              ELSE IF rvalid_reg /\ rready /\ c = owner
                              THEN "idle" ELSE mphase[c]
              /\ mres'[c] = IF rvalid_reg /\ rready /\ c = owner
                            THEN [err |-> FALSE, data |-> rdata]
                            ELSE mres[c]
BY DEF ClkWith, ManagersEdge

(* What the bank does at an edge, with rready tied.                        *)
LEMMA EdgeBank ==
  ASSUME Tied, IInv, NEW rready \in RReady, ClkWith(rready)
  PROVE  /\ rready = TRUE
         /\ gnt_reg' = IF gnt_reg THEN ~req ELSE TRUE
         /\ rvalid_reg' = ~gnt_reg'
         /\ raddr_q' = IF req /\ ~mop[sel].we THEN Word(mop[sel].addr) ELSE raddr_q
         /\ ram' = IF req THEN Stored(mop[sel], ram) ELSE ram
         /\ stored' = (req /\ mop[sel].we /\ ~gnt_reg)
         /\ req => sel \in Clients /\ mop[sel] \in Ops /\ sel # NoClient
<1>1. rready = TRUE
  BY DEF Tied
<1>2. req => sel \in Clients /\ mop[sel] \in Ops /\ sel # NoClient
  BY DEF IInv, TypeOK, ManagersTypeOK, req
<1> QED BY <1>1, <1>2 DEF ClkWith, Handshake, Array, Presented

(* A store changes the word it names, unless its byte enable is low, and    *)
(* doing it twice changes nothing more.                                     *)
LEMMA StoredFacts ==
  ASSUME SramTypeOK, NEW o \in Ops
  PROVE  /\ Word(o.addr) \in Words
         /\ Stored(o, ram) \in [Words -> Byte]
         /\ Stored(o, Stored(o, ram)) = Stored(o, ram)
         /\ \A w \in Words : Stored(o, ram)[w] =
              IF o.we /\ o.wdata # Keep /\ w = Word(o.addr)
              THEN o.wdata ELSE ram[w]
         /\ ~o.we => Stored(o, ram) = ram
<1>1. Word(o.addr) \in Words /\ o.we \in BOOLEAN /\ o.wdata \in Data
  BY DEF Words, Ops
<1>2. CASE o.we /\ o.wdata # Keep
  <2>1. Stored(o, ram) = [ram EXCEPT ![Word(o.addr)] = o.wdata]
    BY <1>2 DEF Stored
  <2>2. Stored(o, Stored(o, ram)) =
          [Stored(o, ram) EXCEPT ![Word(o.addr)] = o.wdata]
    BY <1>2 DEF Stored
  <2>3. o.wdata \in Byte
    BY <1>1, <1>2 DEF Byte
  <2> HIDE DEF Stored
  <2> QED BY <1>1, <1>2, <2>1, <2>2, <2>3 DEF SramTypeOK
<1>3. CASE ~(o.we /\ o.wdata # Keep)
  BY <1>1, <1>3 DEF Stored, SramTypeOK
<1> QED BY <1>2, <1>3

LEMMA EdgeType ==
  ASSUME Tied, IInv, NEW rready \in RReady, ClkWith(rready)
  PROVE  TypeOK'
<1> USE DEF IInv, TypeOK, ManagersTypeOK, SramTypeOK
<1>1. /\ raddr_q' \in Words /\ ram' \in [Words -> Byte]
      /\ rdata \in Data
  <2>1. rdata \in Data
    BY DEF rdata, Byte
  <2> QED BY <2>1, EdgeBank, StoredFacts
<1>2. gnt_reg' \in BOOLEAN /\ rvalid_reg' \in BOOLEAN /\ stored' \in BOOLEAN
  BY EdgeBank DEF ClkWith
<1>3. ManagersTypeOK'
  BY <1>1 DEF ClkWith, ManagersEdge
<1> QED BY <1>1, <1>2, <1>3

LEMMA EdgeIInv ==
  ASSUME Tied, IInv, NEW rready \in RReady, ClkWith(rready)
  PROVE  IInv'
<1> USE DEF IInv, TypeOK, ManagersTypeOK, req
<1>t. TypeOK'
  BY EdgeType
<1>n. NoClient \notin Clients
  BY ObiManagersAssumption
<1>1. (gnt_reg <=> ~rvalid_reg)'
  BY <1>t, EdgeBank DEF SramTypeOK
<1>2. CASE gnt_reg
  <2>1. /\ owner = NoClient /\ ~rvalid_reg
        /\ \A c \in Clients : mphase[c] # "wait"
    BY <1>2, <1>n DEF AnswerReadsItsWord, SramTypeOK
  <2>2. /\ rvalid_reg' = req /\ sel' = NoClient /\ owner' = sel /\ ~stored'
        /\ mop' = mop
    BY <1>2, EdgeBank, EdgeManagers DEF SramTypeOK
  <2>3. AnswerReadsItsWord'
    BY <1>n, <1>2, <2>1, <2>2, EdgeBank, EdgeManagers DEF AnswerReadsItsWord
  <2> QED BY <1>t, <1>1, <2>2, <2>3
<1>3. CASE ~gnt_reg
  <2>1. rvalid_reg /\ owner \in Clients /\ mphase[owner] = "wait" /\ ~stored
    BY <1>3, <1>n DEF AnswerReadsItsWord, SramTypeOK
  <2>2. /\ ~rvalid_reg' /\ gnt_reg' /\ sel' = sel /\ owner' = NoClient
        /\ mop' = mop /\ (req => sel # owner)
    BY <1>3, <2>1, EdgeBank, EdgeManagers
  <2>3. AnswerReadsItsWord'
    BY <1>n, <1>3, <2>1, <2>2, EdgeBank, EdgeManagers DEF AnswerReadsItsWord
  <2>4. (req => mphase[sel] = "req")'
    BY <1>n, <1>3, <2>2, EdgeManagers
  <2>5. stored' => Stored(mop[sel], ram') = ram'
    BY EdgeBank, StoredFacts
  <2>6. stored' => req' /\ gnt_reg' /\ mop'[sel'].we /\ Stored(mop'[sel'], ram') = ram'
    BY <2>2, <2>5, EdgeBank
  <2>7. (stored => req /\ gnt_reg /\ mop[sel].we /\ Stored(mop[sel], ram) = ram)'
    BY <2>6 DEF Stored
  <2> QED BY <1>t, <1>1, <2>3, <2>4, <2>7
<1> QED BY <1>2, <1>3

LEMMA StepIInv == ASSUME Tied PROVE IInv /\ [Next]_vars => IInv'
<1> SUFFICES ASSUME IInv, [Next]_vars PROVE IInv'
  OBVIOUS
<1> USE DEF IInv, TypeOK, ManagersTypeOK, SramTypeOK, req, AnswerReadsItsWord
<1>1. ASSUME NEW c \in Clients, NEW o \in Workload, Ask(c, o) PROVE IInv'
  <2>1. /\ mphase[c] = "idle" /\ mphase' = [mphase EXCEPT ![c] = "req"]
        /\ mop' = [mop EXCEPT ![c] = o] /\ o \in Ops
        /\ UNCHANGED <<mres, sel, owner, sramVars, stored>>
    BY <1>1, ObiManagersAssumption DEF Ask, Issue
  <2>2. req => sel # c /\ mop'[sel] = mop[sel]
    BY <2>1
  <2> QED BY <2>1, <2>2, ObiManagersAssumption DEF sramVars, Stored
<1>2. ASSUME NEW c \in Clients, Select(c) PROVE IInv'
  BY <1>2, ObiManagersAssumption DEF Select, Arbitrate, sramVars, Stored
<1>3. CASE Clk
  BY <1>3, EdgeIInv DEF Clk
<1>4. CASE UNCHANGED vars
  BY <1>4 DEF vars, managerVars, sramVars, Stored
<1> QED BY <1>1, <1>2, <1>3, <1>4 DEF Next

(* The inductive invariant holds in every reachable state when rready is    *)
(* tied: types, one taker per answer, and a store ahead of its grant is in  *)
(* the array and granted next.                                              *)
THEOREM Invariance == Tied => (Spec => []IInv)
<1> SUFFICES ASSUME Tied PROVE Spec => []IInv
  OBVIOUS
<1> QED BY InitIInv, StepIInv, PTL DEF Spec

(* Types of every register of a bank and its bus.                          *)
THEOREM TypeCorrect == Tied => (Spec => []TypeOK)
<1>1. IInv => TypeOK
  BY DEF IInv
<1> QED BY <1>1, Invariance, PTL

(* While an answer is out, the read address is the one of the access that   *)
(* is being answered.                                                       *)
THEOREM AnswersReadTheirWord == Tied => (Spec => []AnswerReadsItsWord)
<1>1. IInv => AnswerReadsItsWord
  BY DEF IInv
<1> QED BY <1>1, Invariance, PTL

-----------------------------------------------------------------------------
(***************************************************************************)
(* Refinement: a bank is an atomic register file.                          *)
(***************************************************************************)

(* The bank as the initiators see it: a byte at every address.             *)
bytes == [a \in Addr |-> ram[Word(a)]]

LEMMA InitRefines == Init => Atomic!Init
<1> SUFFICES ASSUME Init PROVE Atomic!Init
  OBVIOUS
<1> USE DEF Init, ManagersInit, SramInit
<1>1. TypeOK
  BY InitIInv DEF IInv
<1>2. absPhase = [c \in Clients |-> "idle"]
  BY DEF absPhase
<1>3. absRes \in [Clients -> Atomic!Results]
  BY <1>2, BusTypesAssumption DEF absRes, Answer, Atomic!Results
<1>4. mop \in [Clients -> Atomic!Ops]
  BY <1>1 DEF TypeOK, ManagersTypeOK, Ops, Atomic!Ops
<1>5. bytes \in [Addr -> Data] /\ \A a \in Addr : bytes[a] = 0
  BY BusTypesAssumption DEF Words, bytes
<1> QED BY <1>2, <1>3, <1>4, <1>5 DEF Atomic!Init, bytes

(* The abstract state of a client, as alternatives.                        *)
LEMMA AbsClient ==
  ASSUME NEW c \in Clients
  PROVE  /\ absPhase[c] = IF mphase[c] = "idle" THEN "idle"
                          ELSE IF mphase[c] = "req" /\ ~(c = sel /\ stored)
                          THEN "pending" ELSE "done"
         /\ absRes[c] = IF absPhase[c] = "pending" THEN Atomic!NoResult
                        ELSE IF mphase[c] = "idle"
                        THEN Answer(mop[c], mres[c].err, mres[c].data)
                        ELSE Answer(mop[c], FALSE, rdata)
         /\ absPhase'[c] = IF mphase'[c] = "idle" THEN "idle"
                          ELSE IF mphase'[c] = "req" /\ ~(c = sel' /\ stored')
                          THEN "pending" ELSE "done"
         /\ absRes'[c] = IF absPhase'[c] = "pending" THEN Atomic!NoResult
                        ELSE IF mphase'[c] = "idle"
                        THEN Answer(mop'[c], mres'[c].err, mres'[c].data)
                        ELSE Answer(mop'[c], FALSE, rdata')
BY DEF absPhase, absRes, Answer, Atomic!NoResult

LEMMA AbsFunctions ==
  /\ absPhase = [c \in Clients |-> absPhase[c]]
  /\ absPhase' = [c \in Clients |-> absPhase'[c]]
  /\ absRes = [c \in Clients |-> absRes[c]]
  /\ absRes' = [c \in Clients |-> absRes'[c]]
BY DEF absPhase, absRes

(* A store on the port changes the byte at its own address only.           *)
LEMMA StoreBecomes ==
  ASSUME SramTypeOK, DistinctWords, NEW o \in Ops, ram' = Stored(o, ram)
  PROVE  Atomic!Becomes(bytes, bytes', Atomic!Written(o), o.wdata)
<1>1. o.we \in BOOLEAN /\ o.addr \in Addr
  BY DEF Ops
<1>2. Atomic!Written(o) = IF o.we /\ o.wdata # Keep THEN {o.addr} ELSE {}
  BY <1>1 DEF Atomic!Written, LaneOps
<1>3. \A a \in Addr : Word(a) \in Words
  BY DEF Words
<1>4. bytes' = [a \in Addr |-> ram'[Word(a)]]
  BY DEF bytes, Word
<1>5. bytes' \in [Addr -> Data]
  BY <1>3, <1>4, StoredFacts DEF Byte
<1>6. ASSUME NEW a \in Addr
      PROVE  bytes'[a] = IF a \in Atomic!Written(o) THEN o.wdata ELSE bytes[a]
  <2>1. Word(a) = Word(o.addr) <=> a = o.addr
    BY <1>1 DEF DistinctWords
  <2>2. ram'[Word(a)] = IF o.we /\ o.wdata # Keep /\ Word(a) = Word(o.addr)
                        THEN o.wdata ELSE ram[Word(a)]
    BY <1>3, StoredFacts
  <2> QED BY <1>2, <1>4, <2>1, <2>2 DEF bytes
<1> QED BY <1>5, <1>6 DEF Atomic!Becomes

(* The result of an access that takes effect now.                          *)
LEMMA ResultNow ==
  ASSUME NEW o \in Ops
  PROVE  Atomic!ResultOf(o, bytes) = Answer(o, FALSE, ram[Word(o.addr)])
<1>1. o.we \in BOOLEAN /\ o.addr \in Addr /\ (~o.we => o \in LaneOps)
  BY DEF Ops, LaneOps
<1>2. (o \in {}) = FALSE
  OBVIOUS
<1> QED BY <1>1, <1>2 DEF Atomic!ResultOf, Answer, bytes

(* The edge performs the access on the port; the initiators of Told get     *)
(* their answers.                                                           *)
Effective == req /\ ~stored /\ (gnt_reg \/ mop[sel].we)
Told == IF rvalid_reg THEN {owner} ELSE {}

(* What a clock edge means for one initiator.                              *)
LEMMA EdgeAbs ==
  ASSUME Tied, IInv, NEW rready \in RReady, ClkWith(rready), NEW x \in Clients
  PROVE  /\ absPhase'[x] = IF Effective /\ x = sel THEN "done"
                           ELSE IF x \in Told THEN "idle" ELSE absPhase[x]
         /\ absRes'[x] = IF Effective /\ x = sel
                         THEN Answer(mop[x], FALSE, ram[Word(mop[x].addr)])
                         ELSE absRes[x]
         /\ Effective /\ x = sel => absPhase[x] = "pending"
         /\ x \in Told => absPhase[x] = "done"
<1> USE DEF IInv, TypeOK, ManagersTypeOK, SramTypeOK, req
<1>n. x # NoClient /\ NoClient \notin Clients /\ mop'[x] = mop[x]
  BY ObiManagersAssumption, EdgeManagers
<1>1. CASE x = sel
  <2>1. /\ req /\ mphase[x] = "req" /\ x # owner /\ x \notin Told
        /\ mop[x] \in Ops
    BY <1>n, <1>1 DEF AnswerReadsItsWord, Told
  <2>2. CASE gnt_reg
    <3>1. mphase'[x] = "wait"
      BY <1>1, <2>2, EdgeManagers
    <3>2. absPhase'[x] = "done" /\ absRes'[x] = Answer(mop[x], FALSE, rdata')
      BY <1>n, <3>1, AbsClient
    <3>3. ~mop[x].we => rdata' = ram[Word(mop[x].addr)]
      BY <1>1, <2>1, EdgeBank, StoredFacts DEF rdata
    <3>4. Answer(mop[x], FALSE, rdata') = Answer(mop[x], FALSE, ram[Word(mop[x].addr)])
      BY <3>3 DEF Answer
    <3>5. CASE stored
      <4>1. mop[x].we /\ absPhase[x] = "done" /\ absRes[x] = Answer(mop[x], FALSE, rdata)
        BY <1>1, <2>1, <3>5, AbsClient
      <4>2. Answer(mop[x], FALSE, rdata) = Answer(mop[x], FALSE, rdata')
        BY <4>1 DEF Answer
      <4> QED BY <2>1, <3>2, <3>5, <4>1, <4>2 DEF Effective
    <3>6. CASE ~stored
      <4>1. absPhase[x] = "pending" /\ Effective
        BY <1>1, <2>1, <2>2, <3>6, AbsClient DEF Effective
      <4> QED BY <1>1, <2>1, <3>2, <3>4, <4>1
    <3> QED BY <3>5, <3>6
  <2>3. CASE ~gnt_reg
    <3>1. mphase'[x] = "req" /\ sel' = x /\ ~stored /\ absPhase[x] = "pending"
      BY <1>1, <1>n, <2>1, <2>3, EdgeManagers, AbsClient
    <3>2. stored' <=> mop[x].we
      BY <1>1, <2>1, <2>3, EdgeBank
    <3>3. CASE mop[x].we
      <4>1. absPhase'[x] = "done" /\ absRes'[x] = Answer(mop[x], FALSE, rdata')
        BY <1>n, <3>1, <3>2, <3>3, AbsClient
      <4>2. Effective
        BY <1>1, <2>1, <3>1, <3>3 DEF Effective
      <4>3. Answer(mop[x], FALSE, rdata') = Answer(mop[x], FALSE, ram[Word(mop[x].addr)])
        BY <3>3 DEF Answer
      <4> QED BY <1>1, <2>1, <3>1, <4>1, <4>2, <4>3
    <3>4. CASE ~mop[x].we
      <4>1. ~stored' /\ ~Effective
        BY <1>1, <2>3, <3>2, <3>4 DEF Effective
      <4> QED BY <2>1, <3>1, <4>1, AbsClient
    <3> QED BY <3>3, <3>4
  <2> QED BY <2>2, <2>3
<1>2. CASE x # sel
  <2>1. (sel' = x) = FALSE
    BY <1>n, <1>2, EdgeManagers
  <2>2. CASE x \in Told
    <3>1. /\ rvalid_reg /\ x = owner /\ mphase[x] = "wait" /\ mphase'[x] = "idle"
          /\ mres'[x] = [err |-> FALSE, data |-> rdata]
      BY <1>n, <1>2, <2>2, EdgeManagers, EdgeBank DEF Told, AnswerReadsItsWord
    <3>2. absPhase[x] = "done" /\ absRes[x] = Answer(mop[x], FALSE, rdata)
      BY <3>1, AbsClient
    <3>3. absPhase'[x] = "idle" /\ absRes'[x] = Answer(mop'[x], mres'[x].err, mres'[x].data)
      BY <3>1, AbsClient
    <3>4. mres'[x].err = FALSE /\ mres'[x].data = rdata
      BY <3>1
    <3> QED BY <1>n, <1>2, <2>2, <3>2, <3>3, <3>4
  <2>3. CASE x \notin Told
    <3>1. /\ mphase'[x] = mphase[x] /\ mres'[x] = mres[x]
          /\ mphase[x] \in {"idle", "req"}
      BY <1>n, <1>2, <2>3, EdgeManagers DEF Told, AnswerReadsItsWord
    <3>2. absPhase'[x] = absPhase[x]
      BY <1>2, <2>1, <3>1, AbsClient
    <3>3. CASE mphase[x] = "idle"
      <4>1. absRes[x] = Answer(mop[x], mres[x].err, mres[x].data)
        BY <3>3, AbsClient
      <4>2. absRes'[x] = Answer(mop'[x], mres'[x].err, mres'[x].data)
        BY <3>1, <3>3, AbsClient
      <4> QED BY <1>n, <1>2, <2>3, <3>1, <3>2, <4>1, <4>2
    <3>4. CASE mphase[x] = "req"
      <4>1. absRes[x] = Atomic!NoResult /\ absRes'[x] = Atomic!NoResult
        BY <1>2, <2>1, <3>1, <3>4, AbsClient
      <4> QED BY <1>2, <2>3, <3>2, <4>1
    <3> QED BY <3>1, <3>3, <3>4
  <2> QED BY <2>2, <2>3
<1> QED BY <1>1, <1>2

LEMMA ToldClients ==
  ASSUME IInv
  PROVE  Told \in SUBSET Clients
BY DEF IInv, AnswerReadsItsWord, Told, TypeOK, ManagersTypeOK

(* An edge that is effective performs the access on the port.              *)
LEMMA PerformRefines ==
  ASSUME Tied, DistinctWords, IInv, NEW rready \in RReady, ClkWith(rready),
         Effective
  PROVE  Atomic!Perform(sel, Told)
<1> DEFINE o == mop[sel]
<1>1. /\ sel \in Clients /\ o \in Ops /\ mop' = mop /\ SramTypeOK
      /\ ram' = Stored(o, ram)
  BY EdgeBank, EdgeManagers DEF Effective, IInv, TypeOK
<1>2. Atomic!Completes(o)
  BY <1>1 DEF Atomic!Completes
<1>3. Atomic!Becomes(bytes, bytes', Atomic!Written(o), o.wdata)
  BY <1>1, StoreBecomes
<1>4. Told \subseteq {x \in Clients : absPhase[x] = "done"}
  BY ToldClients, EdgeAbs
<1>5. absPhase' = [x \in Clients |-> IF x = sel THEN "done"
                    ELSE IF x \in Told THEN "idle" ELSE absPhase[x]]
  <2>1. \A x \in Clients : absPhase'[x] = IF x = sel THEN "done"
                    ELSE IF x \in Told THEN "idle" ELSE absPhase[x]
    BY EdgeAbs
  <2> QED BY <2>1, AbsFunctions
<1>6. absRes' = [absRes EXCEPT ![sel] = Atomic!ResultOf(o, bytes)]
  <2>1. \A x \in Clients :
          absRes'[x] = IF x = sel THEN Atomic!ResultOf(o, bytes) ELSE absRes[x]
    BY <1>1, EdgeAbs, ResultNow
  <2> QED BY <2>1, AbsFunctions
<1>7. absPhase[sel] = "pending"
  BY <1>1, EdgeAbs
<1> QED BY <1>1, <1>2, <1>3, <1>4, <1>5, <1>6, <1>7 DEF Atomic!Perform, bytes

(* Any other edge leaves the bytes alone, and may give one answer.         *)
LEMMA ReplyRefines ==
  ASSUME Tied, IInv, NEW rready \in RReady, ClkWith(rready), ~Effective
  PROVE  Atomic!Reply(Told)
<1>1. ram' = ram /\ mop' = mop
  <2>1. req => mop[sel] \in Ops /\ ram' = Stored(mop[sel], ram)
    BY EdgeBank
  <2>2. req => ~mop[sel].we \/ stored
    BY DEF Effective, IInv, TypeOK
  <2>3. req => Stored(mop[sel], ram) = ram
    BY <2>1, <2>2, StoredFacts DEF IInv, TypeOK
  <2> QED BY <2>1, <2>3, EdgeBank, EdgeManagers
<1>2. Atomic!Becomes(bytes, bytes', {}, 0)
  <2>1. bytes' = bytes
    BY <1>1 DEF bytes
  <2>2. bytes \in [Addr -> Data]
    BY DEF bytes, IInv, TypeOK, SramTypeOK, Words, Byte
  <2> QED BY <2>1, <2>2 DEF Atomic!Becomes
<1>3. Told \subseteq {x \in Clients : absPhase[x] = "done"}
  BY ToldClients, EdgeAbs
<1>4. absPhase' = [x \in Clients |-> IF x \in Told THEN "idle" ELSE absPhase[x]]
  <2>1. \A x \in Clients :
          absPhase'[x] = IF x \in Told THEN "idle" ELSE absPhase[x]
    BY EdgeAbs
  <2> QED BY <2>1, AbsFunctions
<1>5. absRes' = absRes
  <2>1. \A x \in Clients : absRes'[x] = absRes[x]
    BY EdgeAbs
  <2> QED BY <2>1, AbsFunctions
<1> QED BY <1>1, <1>2, <1>3, <1>4, <1>5 DEF Atomic!Reply, bytes

LEMMA StepRefines ==
  ASSUME Tied, DistinctWords
  PROVE  IInv /\ [Next]_vars => [Atomic!Next]_(Atomic!absVars)
<1> SUFFICES ASSUME IInv, [Next]_vars
             PROVE  Atomic!Next \/ UNCHANGED Atomic!absVars
  OBVIOUS
<1> USE DEF IInv, TypeOK, ManagersTypeOK, req
<1>1. ASSUME NEW c \in Clients, NEW o \in Workload, Ask(c, o) PROVE Atomic!Next
  <2>1. /\ UNCHANGED <<mres, sel, sramVars, stored>>
        /\ mphase[c] = "idle" /\ mphase' = [mphase EXCEPT ![c] = "req"]
        /\ mop' = [mop EXCEPT ![c] = o] /\ o \in Ops /\ c # sel
    BY <1>1, ObiManagersAssumption DEF Ask, Issue
  <2>2. rdata' = rdata /\ UNCHANGED bytes
    BY <2>1 DEF rdata, sramVars, bytes
  <2>3. ASSUME NEW x \in Clients
        PROVE  /\ absPhase'[x] = IF x = c THEN "pending" ELSE absPhase[x]
               /\ absRes'[x] = IF x = c THEN Atomic!NoResult ELSE absRes[x]
    <3>1. /\ mphase'[x] = IF x = c THEN "req" ELSE mphase[x]
          /\ mop'[x] = IF x = c THEN o ELSE mop[x]
      BY <2>1
    <3> QED BY <2>1, <2>2, <3>1, AbsClient
  <2>4. /\ absPhase' = [absPhase EXCEPT ![c] = "pending"]
        /\ absRes' = [absRes EXCEPT ![c] = Atomic!NoResult]
    BY <2>3, AbsFunctions
  <2>5. absPhase[c] = "idle"
    BY <2>1, AbsClient
  <2>6. Atomic!Issue(c, o)
    BY <2>1, <2>2, <2>4, <2>5 DEF Atomic!Issue, bytes
  <2> QED BY <2>1, <2>6 DEF Atomic!Next, Atomic!Ops, Ops
<1>2. ASSUME NEW c \in Clients, Select(c) PROVE UNCHANGED Atomic!absVars
  <2>1. /\ UNCHANGED <<mphase, mop, mres, sramVars, stored>>
        /\ ~stored
    BY <1>2 DEF Select, Arbitrate
  <2> QED BY <2>1 DEF Atomic!absVars, absPhase, absRes, Answer, rdata, sramVars
<1>3. CASE Clk
  <2>1. PICK rready \in RReady : ClkWith(rready)
    BY <1>3 DEF Clk
  <2>2. CASE Effective
    <3>1. sel \in Clients
      BY <2>2 DEF Effective
    <3> QED BY <2>1, <2>2, <3>1, PerformRefines, ToldClients DEF Atomic!Next
  <2>3. CASE ~Effective
    BY <2>1, <2>3, ReplyRefines, ToldClients DEF Atomic!Next
  <2> QED BY <2>2, <2>3
<1>4. CASE UNCHANGED vars
  BY <1>4 DEF vars, managerVars, sramVars, Atomic!absVars, absPhase, absRes,
     Answer, rdata
<1> QED BY <1>1, <1>2, <1>3, <1>4 DEF Next

(* A bank is an atomic register file, for any number of initiators, when    *)
(* rready is tied and the addresses in use are different words.             *)
THEOREM Refinement == Tied /\ DistinctWords => (Spec => ImplementsAtomicRegs)
<1> SUFFICES ASSUME Tied, DistinctWords PROVE Spec => ImplementsAtomicRegs
  OBVIOUS
<1>1. Init => Atomic!Init
  BY InitRefines
<1>2. IInv /\ [Next]_vars => [Atomic!Next]_(Atomic!absVars)
  BY StepRefines
<1>3. Spec => []IInv
  BY Invariance
<1> QED BY <1>1, <1>2, <1>3, PTL DEF Spec, ImplementsAtomicRegs, Atomic!Spec

(* The addresses of the first NUM_WORDS bytes are different words: a bank   *)
(* of 4096 words may be used up to its byte 4095, as the linker scripts do. *)
THEOREM Reach ==
  ASSUME \A a \in Addr : a \in 0 .. NumWords - 1 /\ a % 4 = 0
  PROVE  DistinctWords
<1> SUFFICES ASSUME NEW a \in Addr, NEW b \in Addr, Word(a) = Word(b)
             PROVE  a = b
  BY DEF DistinctWords
<1>1. a % NumWords = a /\ b % NumWords = b
  BY SpSramAssumption
<1>2. a \div 4 = b \div 4 /\ a % 4 = 0 /\ b % 4 = 0
  BY <1>1 DEF Word
<1> QED BY <1>2, SpSramAssumption

=============================================================================
