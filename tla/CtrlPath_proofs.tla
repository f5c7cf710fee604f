-------------------------- MODULE CtrlPath_proofs ---------------------------
(***************************************************************************)
(* Proofs about CtrlPath, for every set of initiators, every set of        *)
(* offsets, any number of I/O cells and any behaviour of rready.           *)
(***************************************************************************)
EXTENDS CtrlPath, TLAPS

LEMMA InitIInv == Init => IInv
<1> SUFFICES ASSUME Init PROVE IInv
  OBVIOUS
<1> USE ObiManagersAssumption, BusTypesAssumption, CtrlPathAssumption
    DEF Init, ManagersInit, CtrlInit
<1>1. (CHOOSE o \in Workload : TRUE) \in Ops
  OBVIOUS
<1>2. ManagersTypeOK
  BY <1>1 DEF ManagersTypeOK
<1>3. CtrlTypeOK
  BY DEF CtrlTypeOK
<1> QED BY <1>2, <1>3 DEF IInv, TypeOK, req, GrantMeansFree, AnswerHasTaker

(* What the managers do at an edge, client by client.                      *)
LEMMA EdgeManagers ==
  ASSUME NEW rready, ClkWith(rready)
  PROVE  /\ mop' = mop
         /\ sel' = IF gnt_reg THEN NoClient ELSE sel
         /\ owner' = IF gnt_reg THEN sel
                     ELSE IF rvalid_reg /\ rready THEN NoClient ELSE owner
         /\ \A c \in Clients :
              /\ mphase'[c] = IF gnt_reg /\ c = sel THEN "wait"
                              ELSE IF rvalid_reg /\ rready /\ c = owner
                              THEN "idle" ELSE mphase[c]
              /\ mres'[c] = IF rvalid_reg /\ rready /\ c = owner
                            THEN [err |-> FALSE, data |-> rdata_out_reg]
                            ELSE mres[c]
BY DEF ClkWith, ManagersEdge

(* A clock edge keeps every register in its range.                         *)
LEMMA EdgeType ==
  ASSUME IInv, NEW rready \in RReady, ClkWith(rready)
  PROVE  TypeOK'
<1> USE DEF IInv, TypeOK, ManagersTypeOK, CtrlTypeOK
<1>1. req => Presented \in Ops
  BY ObiManagersAssumption DEF req, Presented
<1>2. CtrlTypeOK'
  <2>1. CASE Performs(req)
    <3>1. /\ WriteRegister(Presented) /\ ReadRegister(Presented)
          /\ rvalid_reg' = TRUE /\ gnt_reg' = FALSE
      BY <2>1 DEF ClkWith, CtrlEdge
    <3>2. Presented.addr \in Addr /\ Presented.wdata \in Data
      BY <1>1, <2>1 DEF Performs, Ops
    <3>3. ctrl' \in [Addr -> Data]
      BY <3>1, <3>2 DEF WriteRegister
    <3>4. rdata_out_reg' \in Data
      BY <3>1, <3>2 DEF ReadRegister
    <3> QED BY <3>1, <3>3, <3>4
  <2>2. CASE ~Performs(req)
    BY <2>2, CtrlPathAssumption DEF ClkWith, CtrlEdge
  <2> QED BY <2>1, <2>2
<1>3. ManagersTypeOK'
  BY DEF ClkWith, ManagersEdge
<1> QED BY <1>2, <1>3

(* A clock edge keeps gnt_reg and rvalid_reg opposite, and the response     *)
(* register in step with the multiplexer.                                  *)
LEMMA EdgeIInv ==
  ASSUME IInv, NEW rready \in RReady, ClkWith(rready)
  PROVE  IInv'
<1> USE DEF IInv, TypeOK, ManagersTypeOK, CtrlTypeOK, req
<1>t. TypeOK'
  BY EdgeType
<1>1. /\ rready \in BOOLEAN
      /\ NoClient \notin Clients
  BY CtrlPathAssumption, ObiManagersAssumption
<1>2. CASE Performs(req)
  <2>1. rvalid_reg' = TRUE /\ gnt_reg' = FALSE
    BY <1>2 DEF ClkWith, CtrlEdge
  <2>2. gnt_reg /\ ~rvalid_reg /\ sel \in Clients
    BY <1>2 DEF Performs, GrantMeansFree
  <2> QED BY <1>t, <1>1, <2>1, <2>2, EdgeManagers
          DEF GrantMeansFree, AnswerHasTaker
<1>3. CASE ~Performs(req)
  <2>1. /\ rvalid_reg' = (~rready /\ ~gnt_reg)
        /\ gnt_reg' = (rready \/ gnt_reg)
    BY <1>3 DEF ClkWith, CtrlEdge
  <2>2. GrantMeansFree'
    BY <1>1, <2>1 DEF GrantMeansFree
  <2>3. CASE gnt_reg
    <3>1. sel = NoClient /\ owner = NoClient /\ ~rvalid_reg
      BY <1>3, <2>3 DEF Performs, GrantMeansFree, AnswerHasTaker
    <3> QED BY <1>t, <1>1, <2>1, <2>2, <2>3, <3>1, EdgeManagers
            DEF AnswerHasTaker
  <2>4. CASE ~gnt_reg
    <3>1. rvalid_reg /\ owner \in Clients /\ mphase[owner] = "wait"
      BY <2>4 DEF GrantMeansFree, AnswerHasTaker
    <3>2. sel' = sel /\ (req => sel # owner)
      BY <2>4, <3>1, EdgeManagers
    <3>3. AnswerHasTaker'
      BY <1>1, <2>1, <2>4, <3>1, EdgeManagers DEF AnswerHasTaker
    <3> QED BY <1>t, <1>1, <2>2, <2>4, <3>1, <3>2, <3>3, EdgeManagers
  <2> QED BY <2>3, <2>4
<1> QED BY <1>2, <1>3

LEMMA StepIInv == IInv /\ [Next]_vars => IInv'
<1> SUFFICES ASSUME IInv, [Next]_vars PROVE IInv'
  OBVIOUS
<1> USE DEF IInv, TypeOK, ManagersTypeOK, CtrlTypeOK, req, AnswerHasTaker,
            GrantMeansFree
<1>1. ASSUME NEW c \in Clients, NEW o \in Workload, Ask(c, o) PROVE IInv'
  BY <1>1, ObiManagersAssumption DEF Ask, Issue, ctrlVars
<1>2. ASSUME NEW c \in Clients, Select(c) PROVE IInv'
  BY <1>2, ObiManagersAssumption DEF Select, Arbitrate, ctrlVars
<1>3. CASE Clk
  BY <1>3, EdgeIInv DEF Clk
<1>4. CASE UNCHANGED vars
  BY <1>4 DEF vars, managerVars, ctrlVars
<1> QED BY <1>1, <1>2, <1>3, <1>4 DEF Next

(* The inductive invariant holds in every reachable state: types, opposite  *)
(* handshake flags, one taker per answer, and requests that stay up.        *)
THEOREM Invariance == Spec => []IInv
BY InitIInv, StepIInv, PTL DEF Spec

(* Registers, response register and bus state keep their types.            *)
THEOREM TypeCorrect == Spec => []TypeOK
BY Invariance, PTL DEF IInv

(* The register write and the grant always happen in the same cycle.       *)
THEOREM GrantsWhenFree == Spec => []GrantMeansFree
BY Invariance, PTL DEF IInv

(* Every answer of the control registers has exactly one taker.            *)
THEOREM AnswersHaveTakers == Spec => []AnswerHasTaker
BY Invariance, PTL DEF IInv

-----------------------------------------------------------------------------
(***************************************************************************)
(* Refinement: the control registers are an atomic register file.          *)
(***************************************************************************)

LEMMA InitRefines == Init => Atomic!Init
<1> SUFFICES ASSUME Init PROVE Atomic!Init
  OBVIOUS
<1> USE DEF Init, ManagersInit, CtrlInit
<1>1. TypeOK
  BY InitIInv DEF IInv
<1>2. absPhase = [c \in Clients |-> "idle"]
  BY DEF absPhase
<1>3. absRes \in [Clients -> Atomic!Results]
  BY BusTypesAssumption DEF absRes, Answer, Atomic!Results
<1>4. mop \in [Clients -> Atomic!Ops]
  BY <1>1 DEF TypeOK, ManagersTypeOK, Ops, Atomic!Ops
<1>5. ctrl \in [Addr -> Data] /\ \A a \in Addr : ctrl[a] = ResetValue(a)
  BY CtrlPathAssumption
<1> QED BY <1>2, <1>3, <1>4, <1>5 DEF Atomic!Init

(* The abstract state of a client, as alternatives.                        *)
LEMMA AbsClient ==
  ASSUME NEW c \in Clients
  PROVE  /\ absPhase[c] = IF mphase[c] = "idle" THEN "idle"
                          ELSE IF mphase[c] = "req" THEN "pending" ELSE "done"
         /\ absRes[c] = IF mphase[c] = "req" THEN Atomic!NoResult
                        ELSE IF mphase[c] = "idle"
                        THEN Answer(mop[c], mres[c].err, mres[c].data)
                        ELSE Answer(mop[c], FALSE, rdata_out_reg)
         /\ absPhase'[c] = IF mphase'[c] = "idle" THEN "idle"
                          ELSE IF mphase'[c] = "req" THEN "pending" ELSE "done"
         /\ absRes'[c] = IF mphase'[c] = "req" THEN Atomic!NoResult
                        ELSE IF mphase'[c] = "idle"
                        THEN Answer(mop'[c], mres'[c].err, mres'[c].data)
                        ELSE Answer(mop'[c], FALSE, rdata_out_reg')
BY DEF absPhase, absRes, Answer, Mapped, Registers, IocellOffsets,
       BootAndReturn, Atomic!NoResult

(* An access in the abstract terms: mapped ones read and write, the others  *)
(* complete without effect.                                                 *)
LEMMA AccessKinds ==
  ASSUME NEW o \in Ops
  PROVE  /\ o \in MappedOps <=> Mapped(o.addr)
         /\ Atomic!Completes(o)
BY DEF Atomic!Completes, MappedOps, UnmappedOps

(* The cycle in which an access is granted performs it.                    *)
LEMMA PerformRefines ==
  ASSUME IInv, NEW rready \in RReady, ClkWith(rready), Performs(req)
  PROVE  Atomic!Perform(sel, {})
<1> USE DEF IInv, TypeOK, ManagersTypeOK, CtrlTypeOK
<1> DEFINE o == mop[sel]
<1>1. /\ sel \in Clients /\ o \in Ops /\ Presented = o /\ sel # NoClient
      /\ gnt_reg /\ ~rvalid_reg /\ owner = NoClient /\ mphase[sel] = "req"
  BY ObiManagersAssumption
     DEF Performs, req, Presented, GrantMeansFree, AnswerHasTaker
<1>2. WriteRegister(o) /\ ReadRegister(o)
  BY <1>1 DEF ClkWith, CtrlEdge
<1>3. Atomic!Becomes(ctrl, ctrl', Atomic!Written(o), o.wdata)
  <2>1. Atomic!Written(o) = IF o.we /\ Mapped(o.addr) THEN {o.addr} ELSE {}
    <3>1. o.we \in BOOLEAN
      BY <1>1 DEF Ops
    <3> QED BY <1>1, <3>1, AccessKinds DEF Atomic!Written
  <2>2. ctrl' \in [Addr -> Data]
    BY EdgeType
  <2> QED BY <1>1, <1>2, <2>1, <2>2 DEF WriteRegister, Atomic!Becomes, Ops
<1>4. ASSUME NEW x \in Clients
      PROVE  /\ mphase'[x] = IF x = sel THEN "wait" ELSE mphase[x]
             /\ mphase[x] # "wait"
             /\ mres'[x] = mres[x] /\ mop'[x] = mop[x]
  BY <1>1, EdgeManagers, ObiManagersAssumption DEF AnswerHasTaker
<1>5. absPhase' = [x \in Clients |-> IF x = sel THEN "done"
                    ELSE IF x \in {} THEN "idle" ELSE absPhase[x]]
  <2>1. ASSUME NEW x \in Clients
        PROVE  absPhase'[x] = IF x = sel THEN "done" ELSE absPhase[x]
    BY <1>4, AbsClient
  <2>2. absPhase' = [x \in Clients |-> absPhase'[x]]
    BY DEF absPhase
  <2> QED BY <2>1, <2>2
<1>6. Atomic!ResultOf(o, ctrl) = Answer(o, FALSE, rdata_out_reg')
  <2>1. o.we \in BOOLEAN
    BY <1>1 DEF Ops
  <2>2. o \in MappedOps <=> Mapped(o.addr)
    BY <1>1, AccessKinds
  <2>3. (o \in {}) = FALSE
    OBVIOUS
  <2>4. ~o.we /\ Mapped(o.addr) => rdata_out_reg' = ctrl[o.addr]
    BY <1>2 DEF ReadRegister
  <2> HIDE DEF o
  <2> QED BY <2>1, <2>2, <2>3, <2>4 DEF Atomic!ResultOf, Answer
<1>7. absRes' = [absRes EXCEPT ![sel] = Atomic!ResultOf(o, ctrl)]
  <2>1. ASSUME NEW x \in Clients
        PROVE  absRes'[x] = IF x = sel THEN Atomic!ResultOf(o, ctrl)
                            ELSE absRes[x]
    <3>1. mphase[x] = "idle" \/ mphase[x] = "req"
      BY <1>4
    <3>2. CASE x = sel
      <4>1. absRes'[x] = Answer(mop'[x], FALSE, rdata_out_reg')
        BY <1>4, <3>2, AbsClient
      <4> QED BY <1>4, <1>6, <3>2, <4>1
    <3>3. CASE x # sel /\ mphase[x] = "idle"
      <4>1. absRes'[x] = Answer(mop'[x], mres'[x].err, mres'[x].data)
        BY <1>4, <3>3, AbsClient
      <4>2. absRes[x] = Answer(mop[x], mres[x].err, mres[x].data)
        BY <3>3, AbsClient
      <4> QED BY <1>4, <3>3, <4>1, <4>2
    <3>4. CASE x # sel /\ mphase[x] = "req"
      BY <1>4, <3>4, AbsClient
    <3> QED BY <3>1, <3>2, <3>3, <3>4
  <2>2. /\ absRes' = [x \in Clients |-> absRes'[x]]
        /\ absRes = [x \in Clients |-> absRes[x]]
    BY DEF absRes
  <2> QED BY <2>1, <2>2
<1>8. absPhase[sel] = "pending" /\ mop' = mop
  BY <1>1, AbsClient, EdgeManagers
<1> QED BY <1>1, <1>3, <1>5, <1>7, <1>8, AccessKinds DEF Atomic!Perform

(* Any other cycle changes no register, and may deliver one response.      *)
LEMMA ReplyRefines ==
  ASSUME IInv, NEW rready \in RReady, ClkWith(rready), ~Performs(req)
  PROVE  \E R \in SUBSET Clients : Atomic!Reply(R)
<1> USE DEF IInv, TypeOK, ManagersTypeOK, CtrlTypeOK
<1> DEFINE R == IF rvalid_reg /\ rready THEN {owner} ELSE {}
<1>1. /\ UNCHANGED <<ctrl, rdata_out_reg, mop>>
      /\ rready \in BOOLEAN /\ NoClient \notin Clients
  BY CtrlPathAssumption, ObiManagersAssumption, EdgeManagers
     DEF ClkWith, CtrlEdge
<1>2. gnt_reg => sel = NoClient
  BY DEF Performs, req, GrantMeansFree
<1>3. ASSUME NEW x \in Clients
      PROVE  /\ mphase'[x] = IF x \in R THEN "idle" ELSE mphase[x]
             /\ mres'[x] = IF x \in R THEN [err |-> FALSE, data |-> rdata_out_reg]
                           ELSE mres[x]
             /\ x \in R => mphase[x] = "wait"
  BY <1>1, <1>2, EdgeManagers DEF AnswerHasTaker
<1>4. R \in SUBSET Clients /\ R \subseteq {x \in Clients : absPhase[x] = "done"}
  <2>1. R \in SUBSET Clients
    BY DEF AnswerHasTaker
  <2> QED BY <1>3, <2>1, AbsClient
<1>5. Atomic!Becomes(ctrl, ctrl', {}, 0)
  BY <1>1 DEF Atomic!Becomes
<1>6. absPhase' = [x \in Clients |-> IF x \in R THEN "idle" ELSE absPhase[x]]
  <2>1. ASSUME NEW x \in Clients
        PROVE  absPhase'[x] = IF x \in R THEN "idle" ELSE absPhase[x]
    BY <1>3, AbsClient
  <2>2. absPhase' = [x \in Clients |-> absPhase'[x]]
    BY DEF absPhase
  <2> QED BY <2>1, <2>2
<1>7. absRes' = absRes
  <2>1. ASSUME NEW x \in Clients PROVE absRes'[x] = absRes[x]
    <3>1. CASE x \in R
      <4>1. absRes'[x] = Answer(mop'[x], mres'[x].err, mres'[x].data)
        BY <1>3, <3>1, AbsClient
      <4>2. absRes[x] = Answer(mop[x], FALSE, rdata_out_reg)
        BY <1>3, <3>1, AbsClient
      <4>3. mres'[x].err = FALSE /\ mres'[x].data = rdata_out_reg
        BY <1>3, <3>1
      <4> QED BY <1>1, <4>1, <4>2, <4>3
    <3>2. CASE x \notin R
      <4>1. /\ mphase'[x] = mphase[x] /\ mres'[x] = mres[x]
            /\ mop'[x] = mop[x] /\ rdata_out_reg' = rdata_out_reg
        BY <1>1, <1>3, <3>2
      <4> HIDE DEF R, IInv, TypeOK, ManagersTypeOK
      <4>2. CASE mphase[x] = "req"
        BY <4>1, <4>2, AbsClient
      <4>3. CASE mphase[x] = "idle"
        <5>1. /\ absRes'[x] = Answer(mop'[x], mres'[x].err, mres'[x].data)
              /\ absRes[x] = Answer(mop[x], mres[x].err, mres[x].data)
          BY <4>1, <4>3, AbsClient
        <5> QED BY <4>1, <5>1
      <4>4. CASE mphase[x] # "req" /\ mphase[x] # "idle"
        <5>1. /\ absRes'[x] = Answer(mop'[x], FALSE, rdata_out_reg')
              /\ absRes[x] = Answer(mop[x], FALSE, rdata_out_reg)
          BY <4>1, <4>4, AbsClient
        <5> QED BY <4>1, <5>1
      <4> QED BY <4>2, <4>3, <4>4
    <3> QED BY <3>1, <3>2
  <2>2. /\ absRes' = [x \in Clients |-> absRes'[x]]
        /\ absRes = [x \in Clients |-> absRes[x]]
    BY DEF absRes
  <2> QED BY <2>1, <2>2
<1>8. Atomic!Reply(R)
  BY <1>1, <1>4, <1>5, <1>6, <1>7 DEF Atomic!Reply
<1> QED BY <1>4, <1>8

LEMMA StepRefines == IInv /\ [Next]_vars => [Atomic!Next]_(Atomic!absVars)
<1> SUFFICES ASSUME IInv, [Next]_vars
             PROVE  Atomic!Next \/ UNCHANGED Atomic!absVars
  OBVIOUS
<1> USE DEF IInv, TypeOK, ManagersTypeOK
<1>1. ASSUME NEW c \in Clients, NEW o \in Workload, Ask(c, o) PROVE Atomic!Next
  <2>1. /\ UNCHANGED <<mres, ctrl, rdata_out_reg>>
        /\ mphase[c] = "idle" /\ mphase' = [mphase EXCEPT ![c] = "req"]
        /\ mop' = [mop EXCEPT ![c] = o] /\ o \in Ops
    BY <1>1, ObiManagersAssumption DEF Ask, Issue, ctrlVars
  <2>2. ASSUME NEW x \in Clients
        PROVE  /\ absPhase'[x] = IF x = c THEN "pending" ELSE absPhase[x]
               /\ absRes'[x] = IF x = c THEN Atomic!NoResult ELSE absRes[x]
    <3>1. /\ mphase'[x] = IF x = c THEN "req" ELSE mphase[x]
          /\ mop'[x] = IF x = c THEN o ELSE mop[x]
      BY <2>1
    <3> QED BY <2>1, <3>1, AbsClient
  <2>3. /\ absPhase' = [absPhase EXCEPT ![c] = "pending"]
        /\ absRes' = [absRes EXCEPT ![c] = Atomic!NoResult]
    <3>1. /\ absRes = [x \in Clients |-> absRes[x]]
          /\ absRes' = [x \in Clients |-> absRes'[x]]
          /\ absPhase = [x \in Clients |-> absPhase[x]]
          /\ absPhase' = [x \in Clients |-> absPhase'[x]]
      BY DEF absRes, absPhase
    <3> QED BY <2>2, <3>1
  <2>4. absPhase[c] = "idle"
    BY <2>1, AbsClient
  <2>5. Atomic!Issue(c, o)
    BY <2>1, <2>3, <2>4 DEF Atomic!Issue
  <2> QED BY <2>1, <2>5 DEF Atomic!Next, Atomic!Ops, Ops
<1>2. ASSUME NEW c \in Clients, Select(c) PROVE UNCHANGED Atomic!absVars
  <2>1. UNCHANGED <<mphase, mop, mres, ctrl, rdata_out_reg>>
    BY <1>2 DEF Select, Arbitrate, ctrlVars
  <2> QED BY <2>1 DEF Atomic!absVars, absPhase, absRes, Answer, Mapped,
             Registers, IocellOffsets, BootAndReturn
<1>3. CASE Clk
  <2>1. PICK rready \in RReady : ClkWith(rready)
    BY <1>3 DEF Clk
  <2>2. CASE Performs(req)
    <3>1. sel \in Clients
      BY <2>2 DEF Performs, req
    <3> QED BY <2>1, <2>2, <3>1, PerformRefines DEF Atomic!Next
  <2>3. CASE ~Performs(req)
    BY <2>1, <2>3, ReplyRefines DEF Atomic!Next
  <2> QED BY <2>2, <2>3
<1>4. CASE UNCHANGED vars
  BY <1>4 DEF vars, managerVars, ctrlVars, Atomic!absVars, absPhase, absRes,
     Answer, Mapped, Registers, IocellOffsets, BootAndReturn
<1> QED BY <1>1, <1>2, <1>3, <1>4 DEF Next

(* The control registers are an atomic register file, whatever rready does: *)
(* the read-modify-write drivers may count on each of their accesses.       *)
THEOREM Refinement == Spec => ImplementsAtomicRegs
<1>1. Init => Atomic!Init
  BY InitRefines
<1>2. IInv /\ [Next]_vars => [Atomic!Next]_(Atomic!absVars)
  BY StepRefines
<1> QED BY <1>1, <1>2, Invariance, PTL DEF Spec, ImplementsAtomicRegs, Atomic!Spec

=============================================================================
