--------------------------- MODULE ApbPath_proofs ---------------------------
(***************************************************************************)
(* Proofs about ApbPath, for every set of initiators, every register map   *)
(* and every kind of subsystem.                                            *)
(***************************************************************************)
EXTENDS ApbPath, TLAPS

(* The decoder always says one of three things.                            *)
LEMMA OutcomeType ==
  ASSUME NEW we, NEW a
  PROVE  Outcome(we, a) \in {"ok", "err", "none"}
BY ApbSubordinateAssumption
   DEF Outcome, Kinds, OneOf, Student1Outcome, Area0Outcome, ExampleOutcome,
       AnalogOutcome, TieoffOutcome

(* The registers stay a register file at every clock edge.                 *)
LEMMA ClockedType ==
  ASSUME regs \in [Addr -> Data], NEW W, NEW v \in Data, Clocked(W, v)
  PROVE  regs' \in [Addr -> Data]
BY DEF Clocked

LEMMA InitIInv == Init => IInv
<1> SUFFICES ASSUME Init PROVE IInv
  OBVIOUS
<1> USE ObiManagersAssumption, BusTypesAssumption
    DEF Init, ManagersInit, BridgeInit, SubordinateInit, SubordinateReset
<1>1. (CHOOSE o \in Workload : TRUE) \in Ops
  OBVIOUS
<1>2. ManagersTypeOK
  BY <1>1 DEF ManagersTypeOK
<1>3. BridgeTypeOK /\ SubordinateTypeOK
  BY DEF BridgeTypeOK, SubordinateTypeOK, States
<1>4. AnswerBelongsToAccess /\ WaitingMeansUndecoded /\ OneOutstanding
  BY DEF AnswerBelongsToAccess, WaitingMeansUndecoded, OneOutstanding, rvalid, Responds
<1> QED BY <1>2, <1>3, <1>4 DEF IInv, TypeOK, req

(* A clock edge keeps every register in its range.                         *)
LEMMA EdgeType == IInv /\ Edge => TypeOK'
<1> SUFFICES ASSUME IInv, Edge PROVE TypeOK'
  OBVIOUS
<1> USE DEF IInv, TypeOK, ManagersTypeOK, BridgeTypeOK, SubordinateTypeOK
<1>1. req => Presented \in Ops
  BY ObiManagersAssumption DEF req, Presented
<1>2. BridgeTypeOK'
  BY DEF Edge, BridgeEdge, NextState, States
<1>3. SubordinateTypeOK'
  <2>1. CASE req /\ ~PREADY
    <3>1. regs' \in [Addr -> Data]
      BY <2>1, <1>1, ClockedType DEF Edge, SubordinateEdge, Ops
    <3>2. PRDATA' \in Data /\ PREADY' \in BOOLEAN /\ PSLVERR' \in BOOLEAN
      BY <2>1, <1>1 DEF Edge, SubordinateEdge, Respond, Ops
    <3> QED BY <3>1, <3>2
  <2>2. CASE ~(req /\ ~PREADY)
    BY <2>2, ClockedType, BusTypesAssumption
       DEF Edge, SubordinateEdge, CutResponse
  <2> QED BY <2>1, <2>2
<1>4. ManagersTypeOK'
  BY DEF Edge, ManagersEdge
<1> QED BY <1>2, <1>3, <1>4

(* A clock edge preserves the relation between the multiplexer, the bridge *)
(* and the response registers of the subsystem.                            *)
LEMMA EdgeIInv == IInv /\ Edge => IInv'
<1> SUFFICES ASSUME IInv, Edge PROVE IInv'
  OBVIOUS
<1>t. TypeOK'
  BY EdgeType
<1> USE DEF IInv, TypeOK, ManagersTypeOK, BridgeTypeOK, SubordinateTypeOK,
            rvalid, Responds, gnt, Grants, req
<1> DEFINE o == OutcomeOf(Presented)
<1>o. o \in {"ok", "err", "none"}
  BY OutcomeType DEF OutcomeOf
<1>b. state' = NextState(state, req, PREADY)
  BY DEF Edge, BridgeEdge
<1>m. /\ sel' = IF gnt(PREADY) THEN NoClient ELSE sel
      /\ owner' = IF gnt(PREADY) THEN sel ELSE IF rvalid THEN NoClient ELSE owner
      /\ mop' = mop
      /\ mphase' = [c \in Clients |->
                      IF gnt(PREADY) /\ c = sel THEN "wait"
                      ELSE IF rvalid /\ c = owner THEN "idle" ELSE mphase[c]]
  BY DEF Edge, ManagersEdge
<1>c. \A c \in Clients :
        mphase'[c] = IF gnt(PREADY) /\ c = sel THEN "wait"
                     ELSE IF rvalid /\ c = owner THEN "idle" ELSE mphase[c]
  BY <1>m
<1>1. CASE req /\ ~PREADY
  <2>1. /\ PREADY' = (o # "none")
        /\ PSLVERR' = (o = "err")
    BY <1>1 DEF Edge, SubordinateEdge, Respond, OutcomeOf
  <2>2. /\ sel' = sel /\ state' = "ACCESS"
        /\ owner' = NoClient
    BY <1>1, <1>b, <1>m DEF NextState, States, OneOutstanding
  <2>3. OutcomeOf(Presented)' = o
    BY <2>2, <1>m DEF OutcomeOf, Presented, Outcome, Student1Outcome,
       Area0Outcome, ExampleOutcome, AnalogOutcome, TieoffOutcome, OneOf
  <2>4. AnswerBelongsToAccess' /\ WaitingMeansUndecoded'
    BY <1>1, <2>1, <2>2, <2>3, <1>o
       DEF AnswerBelongsToAccess, WaitingMeansUndecoded
  <2>5. OneOutstanding' /\ (req => mphase[sel] = "req")'
    BY <1>1, <2>2, <1>m, ObiManagersAssumption DEF OneOutstanding
  <2>6. (PSLVERR => PREADY)'
    BY <2>1
  <2> QED BY <1>t, <2>4, <2>5, <2>6
<1>2. CASE ~(req /\ ~PREADY)
  <2>1. PREADY' = FALSE /\ PSLVERR' = FALSE
    BY <1>2 DEF Edge, SubordinateEdge, CutResponse
  <2>2. CASE PREADY
    <3>1. /\ state = "ACCESS" /\ req /\ state' = "HANDSHAKE"
          /\ sel' = NoClient /\ owner' = sel
      BY <2>2, <1>b, <1>m DEF AnswerBelongsToAccess, NextState
    <3>2. owner = NoClient /\ ~rvalid /\ gnt(PREADY)
      BY <3>1, <2>2 DEF OneOutstanding
    <3>3. \A c \in Clients : mphase'[c] = "wait" <=> c = sel
      BY <3>2, <1>c, ObiManagersAssumption DEF OneOutstanding
    <3>4. OneOutstanding'
      BY <3>1, <3>2, <3>3, ObiManagersAssumption DEF OneOutstanding
    <3> QED BY <1>t, <2>1, <3>1, <3>4
            DEF AnswerBelongsToAccess, WaitingMeansUndecoded
  <2>3. CASE ~PREADY
    <3>1. /\ ~req /\ state \in {"SETUP", "HANDSHAKE"} /\ state' = "SETUP"
          /\ sel' = NoClient /\ owner' = NoClient
      BY <1>2, <2>3, <1>b, <1>m
         DEF WaitingMeansUndecoded, NextState, States, OneOutstanding
    <3>2. \A c \in Clients : mphase'[c] # "wait"
      BY <2>3, <1>c, ObiManagersAssumption DEF OneOutstanding
    <3>3. OneOutstanding'
      BY <3>1, <3>2, ObiManagersAssumption DEF OneOutstanding
    <3> QED BY <1>t, <2>1, <3>1, <3>3
            DEF AnswerBelongsToAccess, WaitingMeansUndecoded
  <2> QED BY <2>2, <2>3
<1> QED BY <1>1, <1>2

(* Raising a request and selecting one leave the target alone.             *)
LEMMA StepIInv == IInv /\ [Next]_vars => IInv'
<1> SUFFICES ASSUME IInv, [Next]_vars PROVE IInv'
  OBVIOUS
<1> USE DEF IInv, TypeOK, ManagersTypeOK, OneOutstanding, rvalid, Responds, req
<1>1. ASSUME NEW c \in Clients, NEW o \in Workload, Ask(c, o) PROVE IInv'
  <2>1. /\ UNCHANGED <<sel, owner, mres, bridgeVars, subordinateVars>>
        /\ c # sel /\ c # owner
        /\ mphase' = [mphase EXCEPT ![c] = "req"]
        /\ mop' = [mop EXCEPT ![c] = o]
    BY <1>1, ObiManagersAssumption DEF Ask, Issue
  <2>2. (ManagersTypeOK /\ BridgeTypeOK /\ SubordinateTypeOK)'
    BY <2>1, ObiManagersAssumption
       DEF BridgeTypeOK, SubordinateTypeOK, bridgeVars, subordinateVars
  <2>3. req => Presented' = Presented
    BY <2>1 DEF Presented
  <2>4. req => OutcomeOf(Presented)' = OutcomeOf(Presented)
    BY <2>3 DEF OutcomeOf, Outcome, Student1Outcome, Area0Outcome,
       ExampleOutcome, AnalogOutcome, TieoffOutcome, OneOf
  <2>5. AnswerBelongsToAccess' /\ WaitingMeansUndecoded'
    BY <2>1, <2>4 DEF AnswerBelongsToAccess, WaitingMeansUndecoded,
       bridgeVars, subordinateVars
  <2> QED BY <2>1, <2>2, <2>5 DEF bridgeVars, subordinateVars
<1>2. ASSUME NEW c \in Clients, Select(c) PROVE IInv'
  <2>1. /\ UNCHANGED <<mphase, mop, mres, owner, bridgeVars, subordinateVars>>
        /\ sel = NoClient /\ sel' = c /\ mphase[c] = "req"
    BY <1>2 DEF Select, Arbitrate
  <2>2. ~PREADY /\ state # "ACCESS"
    BY <2>1 DEF AnswerBelongsToAccess, WaitingMeansUndecoded
  <2> QED BY <2>1, <2>2 DEF BridgeTypeOK, SubordinateTypeOK, bridgeVars,
             subordinateVars, AnswerBelongsToAccess, WaitingMeansUndecoded
<1>3. CASE Clk
  BY <1>3, EdgeIInv DEF Clk, ClkSetup, ClkAccess, ClkHandshake
<1>4. CASE UNCHANGED vars
  <2>1. UNCHANGED <<mphase, mop, mres, sel, owner, state, data, err, PREADY,
                    PSLVERR, PRDATA, regs>>
    BY <1>4 DEF vars, managerVars, bridgeVars, subordinateVars
  <2>2. OutcomeOf(Presented)' = OutcomeOf(Presented)
    BY <2>1 DEF Presented, OutcomeOf, Outcome, Student1Outcome, Area0Outcome,
       ExampleOutcome, AnalogOutcome, TieoffOutcome, OneOf
  <2> QED BY <2>1, <2>2 DEF BridgeTypeOK, SubordinateTypeOK,
             AnswerBelongsToAccess, WaitingMeansUndecoded
<1> QED BY <1>1, <1>2, <1>3, <1>4 DEF Next

-----------------------------------------------------------------------------
(* The inductive invariant holds in every reachable state: bridge, PREADY    *)
(* and multiplexer stay in step.                                            *)
THEOREM Invariance == Spec => []IInv
BY InitIInv, StepIInv, PTL DEF Spec

(* Registers, response registers and bus state keep their types.           *)
THEOREM TypeCorrect == Spec => []TypeOK
BY Invariance, PTL DEF IInv

(* No subsystem ever grants an access with an answer to another one.       *)
THEOREM AnswerOwnership == Spec => []AnswerBelongsToAccess
BY Invariance, PTL DEF IInv

(* A decoded access is never made to wait.                                 *)
THEOREM NoWaitStates == Spec => []WaitingMeansUndecoded
BY Invariance, PTL DEF IInv

(* Every response has exactly one taker.                                   *)
THEOREM SingleOutstanding == Spec => []OneOutstanding
BY Invariance, PTL DEF IInv

-----------------------------------------------------------------------------
(***************************************************************************)
(* Refinement: the path implements an atomic register file.                *)
(***************************************************************************)

(* What a clock edge does to the registers, in the abstract terms.         *)
LEMMA ClockedBecomes ==
  ASSUME regs \in [Addr -> Data], NEW W, NEW v \in Data, Clocked(W, v)
  PROVE  Atomic!Becomes(regs, regs', W, v)
BY ClockedType DEF Clocked, Atomic!Becomes

LEMMA InitRefines == Init => Atomic!Init
<1> SUFFICES ASSUME Init PROVE Atomic!Init
  OBVIOUS
<1> USE DEF Init, ManagersInit, BridgeInit, SubordinateInit, SubordinateReset
<1>1. TypeOK
  BY InitIInv DEF IInv
<1>2. absPhase = [c \in Clients |-> "idle"]
  BY DEF absPhase
<1>3. absRes \in [Clients -> Atomic!Results]
  BY <1>2, BusTypesAssumption DEF absRes, Answer, Atomic!Results
<1>4. mop \in [Clients -> Atomic!Ops]
  BY <1>1 DEF TypeOK, ManagersTypeOK, Ops, Atomic!Ops
<1>5. regs \in [Addr -> Data] /\ \A a \in Addr \ Sampled : regs[a] = 0
  BY BusTypesAssumption
<1> QED BY <1>2, <1>3, <1>4, <1>5 DEF Atomic!Init

(* Whatever the edge does, the abstract phases and results are these.      *)
LEMMA EdgePhases ==
  ASSUME IInv, IInv', Edge, NEW c \in Clients
  PROVE  /\ c = owner => absPhase[c] = "done" /\ absPhase'[c] = "idle"
         /\ c # owner /\ c # sel => absPhase'[c] = absPhase[c]
         /\ c = sel /\ PREADY => absPhase[c] = "done" /\ absPhase'[c] = "done"
         /\ c = sel /\ ~PREADY => absPhase[c] = "pending" /\ c # owner
         /\ c = sel /\ ~PREADY /\ ~PREADY' => absPhase'[c] = "pending"
         /\ c = sel /\ ~PREADY /\ PREADY' => absPhase'[c] = "done"
<1> USE DEF IInv, TypeOK, ManagersTypeOK, OneOutstanding, rvalid, Responds, req, gnt, Grants
<1>1. mphase'[c] = IF gnt(PREADY) /\ c = sel THEN "wait"
                   ELSE IF rvalid /\ c = owner THEN "idle" ELSE mphase[c]
  BY DEF Edge, ManagersEdge
<1>2. sel' = IF gnt(PREADY) THEN NoClient ELSE sel
  BY DEF Edge, ManagersEdge
<1>3. /\ absPhase[c] = IF mphase[c] = "idle" THEN "idle"
                       ELSE IF mphase[c] = "req" /\ ~(c = sel /\ PREADY)
                       THEN "pending" ELSE "done"
      /\ absPhase'[c] = IF mphase'[c] = "idle" THEN "idle"
                        ELSE IF mphase'[c] = "req" /\ ~(c = sel' /\ PREADY')
                        THEN "pending" ELSE "done"
  BY DEF absPhase
<1>4. PREADY => state = "ACCESS"
  BY DEF AnswerBelongsToAccess
<1>5. mphase[c] \in {"idle", "req", "wait"} /\ c # NoClient
  BY ObiManagersAssumption
<1>6. c = owner => state = "HANDSHAKE" /\ mphase[c] = "wait" /\ c # sel
  BY <1>5
<1>7. c = sel => mphase[c] = "req" /\ c # owner
  BY <1>5
<1> HIDE DEF IInv
<1> QED BY <1>1, <1>2, <1>3, <1>4, <1>5, <1>6, <1>7

(* The abstract access sets are the decoder's outcomes.                     *)
LEMMA AccessOutcome ==
  ASSUME NEW o \in Ops, NEW k
  PROVE  o \in OpsWith(k) <=> OutcomeOf(o) = k
BY DEF OpsWith

(* The answer of an access stays with it from register to register.        *)
LEMMA EdgeResults ==
  ASSUME IInv, IInv', Edge, NEW c \in Clients
  PROVE  /\ c = sel /\ ~PREADY /\ PREADY' =>
              absRes'[c] = Atomic!ResultOf(mop[c], regs)
         /\ ~(c = sel /\ ~PREADY /\ PREADY') => absRes'[c] = absRes[c]
<1> USE DEF IInv, TypeOK, ManagersTypeOK, OneOutstanding, rvalid, Responds, req, gnt, Grants
<1>1. mphase'[c] = IF gnt(PREADY) /\ c = sel THEN "wait"
                   ELSE IF rvalid /\ c = owner THEN "idle" ELSE mphase[c]
  BY DEF Edge, ManagersEdge
<1>2. mop'[c] = mop[c] /\ mop[c] \in Ops
  BY DEF Edge, ManagersEdge
<1>3. /\ sel' = IF gnt(PREADY) THEN NoClient ELSE sel
      /\ mres'[c] = IF rvalid /\ c = owner THEN [err |-> err, data |-> data]
                    ELSE mres[c]
      /\ err' = PSLVERR /\ data' = PRDATA
  BY DEF Edge, ManagersEdge, BridgeEdge
<1>4. PREADY => state = "ACCESS"
  BY DEF AnswerBelongsToAccess
<1>5. mphase[c] \in {"idle", "req", "wait"} /\ c # NoClient
  BY ObiManagersAssumption
<1>6. /\ c = owner => state = "HANDSHAKE" /\ mphase[c] = "wait" /\ c # sel
      /\ c = sel => mphase[c] = "req" /\ c # owner
      /\ mphase[c] = "wait" => c = owner
  BY <1>5
<1>7. /\ absRes[c] =
           IF mphase[c] = "idle" THEN Answer(mop[c], mres[c].err, mres[c].data)
           ELSE IF mphase[c] = "wait" THEN Answer(mop[c], err, data)
           ELSE IF c = sel /\ PREADY THEN Answer(mop[c], PSLVERR, PRDATA)
           ELSE [err |-> FALSE, data |-> NoData]
      /\ absRes'[c] =
           IF mphase'[c] = "idle" THEN Answer(mop[c], mres'[c].err, mres'[c].data)
           ELSE IF mphase'[c] = "wait" THEN Answer(mop[c], err', data')
           ELSE IF c = sel' /\ PREADY' THEN Answer(mop[c], PSLVERR', PRDATA')
           ELSE [err |-> FALSE, data |-> NoData]
  <2>1. OutcomeOf(mop[c])' = OutcomeOf(mop[c])
    BY <1>2 DEF OutcomeOf, Outcome, Student1Outcome, Area0Outcome,
       ExampleOutcome, AnalogOutcome, TieoffOutcome, OneOf
  <2>2. mphase'[c] \in {"idle", "req", "wait"}
    OBVIOUS
  <2> QED BY <1>2, <1>5, <2>1, <2>2 DEF absRes, absPhase, Answer
<1>8. CASE c = sel /\ ~PREADY /\ PREADY'
  <2>1. /\ PREADY' = (OutcomeOf(mop[c]) # "none")
        /\ PSLVERR' = (OutcomeOf(mop[c]) = "err")
        /\ PRDATA' = IF OutcomeOf(mop[c]) = "ok" /\ ~mop[c].we
                     THEN regs[mop[c].addr] ELSE PRDATA
    BY <1>8, <1>5 DEF Edge, SubordinateEdge, Respond, OutcomeOf, Presented
  <2>2. absRes'[c] = Answer(mop[c], PSLVERR', PRDATA')
    BY <1>1, <1>3, <1>6, <1>7, <1>8
  <2> QED BY <1>2, <1>8, <2>1, <2>2, AccessOutcome
          DEF Answer, Atomic!ResultOf
<1>9. CASE ~(c = sel /\ ~PREADY /\ PREADY')
  BY <1>1, <1>3, <1>4, <1>5, <1>6, <1>7, <1>9
<1> QED BY <1>8, <1>9

(* A clock edge performs the presented access, or answers, or both.        *)
LEMMA EdgeRefines == IInv /\ IInv' /\ Edge => Atomic!Next
<1> SUFFICES ASSUME IInv, IInv', Edge PROVE Atomic!Next
  OBVIOUS
<1> DEFINE R == IF owner = NoClient THEN {} ELSE {owner}
<1>1. R \in SUBSET Clients /\ R \subseteq {x \in Clients : absPhase[x] = "done"}
  BY EdgePhases DEF IInv, TypeOK, ManagersTypeOK
<1>2. mop' = mop /\ absPhase' = [x \in Clients |-> absPhase'[x]]
      /\ absRes' = [x \in Clients |-> absRes'[x]]
  BY DEF Edge, ManagersEdge, absPhase, absRes
<1>3. absPhase = [x \in Clients |-> absPhase[x]]
      /\ absRes = [x \in Clients |-> absRes[x]]
  BY DEF absPhase, absRes
<1>4. regs \in [Addr -> Data] /\ (req => sel \in Clients /\ mop[sel] \in Ops)
  BY DEF IInv, TypeOK, ManagersTypeOK, SubordinateTypeOK, req
<1>5. CASE req /\ ~PREADY /\ PREADY'
  <2>1. Presented = mop[sel] /\ sel \in Clients /\ OutcomeOf(mop[sel]) # "none"
    BY <1>5, <1>4 DEF Presented, Edge, SubordinateEdge, Respond, OutcomeOf
  <2>2. Atomic!Completes(mop[sel])
    BY <2>1, <1>4, <1>5, AccessOutcome, OutcomeType
       DEF Atomic!Completes, OutcomeOf
  <2>3. Atomic!Becomes(regs, regs', Atomic!Written(mop[sel]), mop[sel].wdata)
    <3>1. Atomic!Written(mop[sel]) =
            IF mop[sel].we /\ Outcome(TRUE, mop[sel].addr) = "ok"
            THEN {mop[sel].addr} ELSE {}
      <4>1. mop[sel].we \in BOOLEAN /\ mop[sel] \in Ops
        BY <1>4, <1>5 DEF Ops
      <4>2. mop[sel] \in OpsWith("ok") <=> OutcomeOf(mop[sel]) = "ok"
        BY <4>1, AccessOutcome
      <4>3. mop[sel].we => OutcomeOf(mop[sel]) = Outcome(TRUE, mop[sel].addr)
        BY <4>1 DEF OutcomeOf
      <4> QED BY <4>1, <4>2, <4>3 DEF Atomic!Written
    <3>2. mop[sel].wdata \in Data
      BY <1>4, <1>5 DEF Ops
    <3> QED BY <1>4, <1>5, <2>1, <3>1, <3>2, ClockedBecomes
            DEF Edge, SubordinateEdge
  <2>4. absPhase[sel] = "pending"
    BY <1>5, <2>1, EdgePhases
  <2>5. absPhase' = [x \in Clients |-> IF x = sel THEN "done"
                      ELSE IF x \in R THEN "idle" ELSE absPhase[x]]
    <3>1. ASSUME NEW x \in Clients
          PROVE  absPhase'[x] = IF x = sel THEN "done"
                      ELSE IF x \in R THEN "idle" ELSE absPhase[x]
      BY <1>5, <2>1, EdgePhases, ObiManagersAssumption
    <3> QED BY <3>1, <1>2
  <2>6. absRes' = [absRes EXCEPT ![sel] = Atomic!ResultOf(mop[sel], regs)]
    <3>1. ASSUME NEW x \in Clients
          PROVE  absRes'[x] = IF x = sel THEN Atomic!ResultOf(mop[sel], regs)
                              ELSE absRes[x]
      BY <1>5, <2>1, EdgeResults
    <3> QED BY <3>1, <1>2, <1>3
  <2>7. Atomic!Perform(sel, R)
    BY <1>1, <1>2, <2>2, <2>3, <2>4, <2>5, <2>6 DEF Atomic!Perform
  <2> QED BY <1>1, <2>1, <2>7 DEF Atomic!Next
<1>6. CASE ~(req /\ ~PREADY /\ PREADY')
  <2>1. Atomic!Becomes(regs, regs', {}, 0)
    <3>1. Clocked({}, 0) \/ \E W : W = {} /\ Clocked(W, Presented.wdata)
                                  /\ Presented.wdata \in Data
      <4>1. CASE req /\ ~PREADY
        <5>1. OutcomeOf(Presented) = "none" /\ Presented \in Ops
          BY <1>4, <1>6, <4>1 DEF Edge, SubordinateEdge, Respond, OutcomeOf,
             Presented
        <5>2. ~(Presented.we /\ Outcome(TRUE, Presented.addr) = "ok")
          BY <5>1 DEF OutcomeOf, Ops
        <5> QED BY <4>1, <5>1, <5>2 DEF Edge, SubordinateEdge, Ops
      <4>2. CASE ~(req /\ ~PREADY)
        BY <4>2 DEF Edge, SubordinateEdge
      <4> QED BY <4>1, <4>2
    <3> QED BY <1>4, <3>1, BusTypesAssumption, ClockedBecomes
            DEF Atomic!Becomes
  <2>2. absPhase' = [x \in Clients |-> IF x \in R THEN "idle" ELSE absPhase[x]]
    <3>1. ASSUME NEW x \in Clients
          PROVE  absPhase'[x] = IF x \in R THEN "idle" ELSE absPhase[x]
      BY <1>6, EdgePhases, ObiManagersAssumption DEF req
    <3> QED BY <3>1, <1>2
  <2>3. absRes' = absRes
    <3>1. ASSUME NEW x \in Clients PROVE absRes'[x] = absRes[x]
      BY <1>6, EdgeResults, ObiManagersAssumption DEF req
    <3> QED BY <3>1, <1>2, <1>3
  <2>4. Atomic!Reply(R)
    BY <1>1, <1>2, <2>1, <2>2, <2>3 DEF Atomic!Reply
  <2> QED BY <1>1, <2>4 DEF Atomic!Next
<1> QED BY <1>5, <1>6

LEMMA StepRefines == IInv /\ IInv' /\ [Next]_vars => [Atomic!Next]_(Atomic!absVars)
<1> SUFFICES ASSUME IInv, IInv', [Next]_vars
             PROVE  Atomic!Next \/ UNCHANGED Atomic!absVars
  OBVIOUS
<1> USE DEF IInv, TypeOK, ManagersTypeOK, OneOutstanding, req
<1>1. ASSUME NEW c \in Clients, NEW o \in Workload, Ask(c, o) PROVE Atomic!Next
  <2>1. /\ UNCHANGED <<sel, owner, mres, bridgeVars, subordinateVars>>
        /\ mphase[c] = "idle" /\ mphase' = [mphase EXCEPT ![c] = "req"]
        /\ mop' = [mop EXCEPT ![c] = o] /\ o \in Ops
        /\ c # sel
    BY <1>1, ObiManagersAssumption DEF Ask, Issue
  <2>2. UNCHANGED <<state, data, err, PREADY, PSLVERR, PRDATA, regs>>
    BY <2>1 DEF bridgeVars, subordinateVars
  <2>3. ASSUME NEW x \in Clients
        PROVE  /\ absPhase'[x] = IF x = c THEN "pending" ELSE absPhase[x]
               /\ absRes'[x] = IF x = c THEN Atomic!NoResult ELSE absRes[x]
    <3>1. /\ mphase'[x] = IF x = c THEN "req" ELSE mphase[x]
          /\ mop'[x] = IF x = c THEN o ELSE mop[x]
      BY <2>1
    <3>2. absPhase'[x] = IF x = c THEN "pending" ELSE absPhase[x]
      BY <2>1, <2>2, <3>1 DEF absPhase
    <3>3. x # c => OutcomeOf(mop[x])' = OutcomeOf(mop[x])
      BY <3>1 DEF OutcomeOf, Outcome, Student1Outcome, Area0Outcome,
         ExampleOutcome, AnalogOutcome, TieoffOutcome, OneOf
    <3>4. absRes'[x] = IF x = c THEN Atomic!NoResult ELSE absRes[x]
      BY <2>1, <2>2, <3>1, <3>2, <3>3 DEF absRes, Answer, Atomic!NoResult
    <3> QED BY <3>2, <3>4
  <2>4. absPhase' = [absPhase EXCEPT ![c] = "pending"]
    BY <2>3 DEF absPhase
  <2>5. absRes' = [absRes EXCEPT ![c] = Atomic!NoResult]
    <3>1. /\ absRes = [x \in Clients |-> absRes[x]]
          /\ absRes' = [x \in Clients |-> absRes'[x]]
      BY DEF absRes
    <3> QED BY <2>3, <3>1
  <2>6. absPhase[c] = "idle"
    BY <2>1 DEF absPhase
  <2>7. Atomic!Issue(c, o)
    BY <2>1, <2>2, <2>4, <2>5, <2>6 DEF Atomic!Issue
  <2> QED BY <2>1, <2>7 DEF Atomic!Next, Atomic!Ops, Ops
<1>2. ASSUME NEW c \in Clients, Select(c) PROVE UNCHANGED Atomic!absVars
  <2>1. /\ UNCHANGED <<mphase, mop, mres, owner, state, data, err, PREADY,
                       PSLVERR, PRDATA, regs>>
        /\ sel = NoClient
    BY <1>2 DEF Select, Arbitrate, bridgeVars, subordinateVars
  <2>2. ~PREADY
    BY <2>1 DEF AnswerBelongsToAccess
  <2>3. absPhase' = absPhase
    BY <2>1, <2>2 DEF absPhase
  <2>4. ASSUME NEW x \in Clients PROVE OutcomeOf(mop[x])' = OutcomeOf(mop[x])
    BY <2>1 DEF OutcomeOf, Outcome, Student1Outcome, Area0Outcome,
       ExampleOutcome, AnalogOutcome, TieoffOutcome, OneOf
  <2>5. absRes' = absRes
    BY <2>1, <2>2, <2>3, <2>4 DEF absRes, Answer
  <2> QED BY <2>1, <2>3, <2>5 DEF Atomic!absVars
<1>3. CASE Clk
  BY <1>3, EdgeRefines DEF Clk, ClkSetup, ClkAccess, ClkHandshake
<1>4. CASE UNCHANGED vars
  BY <1>4 DEF vars, managerVars, bridgeVars, subordinateVars, Atomic!absVars,
     absPhase, absRes, Answer, OutcomeOf, Outcome, Student1Outcome,
     Area0Outcome, ExampleOutcome, AnalogOutcome, TieoffOutcome, OneOf
<1> QED BY <1>1, <1>2, <1>3, <1>4 DEF Next

(* A subsystem behind its bridge is an atomic register file: every access   *)
(* takes effect exactly once between request and response, and the response *)
(* is the result of that instant, for every number of initiators.           *)
THEOREM Refinement == Spec => ImplementsAtomicRegs
<1>1. Init => Atomic!Init
  BY InitRefines
<1>2. IInv /\ IInv' /\ [Next]_vars => [Atomic!Next]_(Atomic!absVars)
  BY StepRefines
<1> QED BY <1>1, <1>2, Invariance, PTL DEF Spec, ImplementsAtomicRegs, Atomic!Spec

=============================================================================
