----------------------- MODULE ExampleSubsystem_proofs -----------------------
(* Proofs about ExampleSubsystem, for every threshold that leaves the       *)
(* counter room for one more step, every address set with the GPIO          *)
(* registers in it, and every data set.                                     *)
EXTENDS ExampleSubsystem, TLAPS

USE ExampleSubsystemAssumption, BusTypesAssumption DEF GPIO_R_REG, GPIO_W_REG

-----------------------------------------------------------------------------
(* What the decoder makes of an access. *)
LEMMA Decoded ==
  ASSUME NEW we \in BOOLEAN, NEW a \in Addr
  PROVE  Outcome(we, a) = ExampleOutcome(we, a)
BY DEF Outcome

(* Hardware loads the pin register, and never the write register. *)
LEMMA OnlyPinsSampled == 4 \in Sampled /\ 8 \notin Sampled /\ Sampled \subseteq Addr
BY DEF Sampled

(* The registers keep their type, and the write register holds what an      *)
(* access puts there until the next write.                                  *)
LEMMA RegistersMove ==
  ASSUME TypeOK, SubordinateEdge(PSEL, op)
  PROVE  /\ regs' \in [Addr -> Data]
         /\ regs'[8] = IF WritesPins THEN op.wdata ELSE regs[8]
<1> DEFINE W == IF op.we /\ Outcome(TRUE, op.addr) = "ok" THEN {op.addr} ELSE {}
<1>0. /\ op \in Ops /\ op.we \in BOOLEAN /\ op.addr \in Addr /\ op.wdata \in Data
      /\ regs \in [Addr -> Data] /\ 8 \in Addr
  BY DEF TypeOK, SubordinateTypeOK, Ops
<1>1. CASE Performs
  <2>1. Clocked(W, op.wdata)
    BY <1>1 DEF SubordinateEdge, Performs
  <2>2. PICK v \in [Sampled -> Data] :
          regs' = [a \in Addr |-> IF a \in Sampled THEN v[a]
                                  ELSE IF a \in W THEN op.wdata ELSE regs[a]]
    BY <2>1 DEF Clocked
  <2>3. regs' \in [Addr -> Data]
    BY <1>0, <2>2
  <2>4. regs'[8] = IF 8 \in W THEN op.wdata ELSE regs[8]
    BY <1>0, <2>2, OnlyPinsSampled
  <2>5. 8 \in W <=> op.we /\ op.addr = 8
    <3>1. Outcome(TRUE, op.addr) = ExampleOutcome(TRUE, op.addr)
      BY <1>0, Decoded
    <3> QED BY <3>1 DEF ExampleOutcome, OneOf
  <2> QED BY <1>1, <2>3, <2>4, <2>5 DEF WritesPins, IsPinWrite
<1>2. CASE ~Performs
  <2>1. Clocked({}, 0)
    BY <1>2 DEF SubordinateEdge, Performs
  <2>2. PICK v \in [Sampled -> Data] :
          regs' = [a \in Addr |-> IF a \in Sampled THEN v[a]
                                  ELSE IF a \in {} THEN 0 ELSE regs[a]]
    BY <2>1 DEF Clocked
  <2> QED BY <1>0, <1>2, <2>2, OnlyPinsSampled DEF WritesPins
<1> QED BY <1>1, <1>2

(* The response registers: an access is answered at the edge that performs  *)
(* it, and a pin read is answered with the register.                        *)
LEMMA ResponseMoves ==
  ASSUME TypeOK, SubordinateEdge(PSEL, op)
  PROVE  /\ PREADY' \in BOOLEAN /\ PSLVERR' \in BOOLEAN /\ PRDATA' \in Data
         /\ PREADY' <=> Performs
         /\ ReadsPins => PRDATA' = regs[4]
<1>0. /\ op.we \in BOOLEAN /\ op.addr \in Addr /\ PRDATA \in Data
      /\ regs \in [Addr -> Data]
  BY DEF TypeOK, SubordinateTypeOK, Ops
<1>1. CASE Performs
  <2>1. Outcome(op.we, op.addr) = ExampleOutcome(op.we, op.addr)
    BY <1>0, Decoded
  <2>2. Respond(op)
    BY <1>1 DEF SubordinateEdge, Performs
  <2>3. Outcome(op.we, op.addr) # "none"
    BY <2>1 DEF ExampleOutcome, OneOf
  <2>4. ReadsPins => Outcome(op.we, op.addr) = "ok"
    BY <2>1 DEF ExampleOutcome, OneOf, ReadsPins, IsPinRead
  <2>5. regs[op.addr] \in Data
    BY <1>0
  <2>6. PREADY' = TRUE /\ PSLVERR' \in BOOLEAN
    BY <2>2, <2>3 DEF Respond
  <2>7. PRDATA' \in Data
    BY <1>0, <2>2, <2>5 DEF Respond
  <2>8. ReadsPins => PRDATA' = regs[4]
    BY <2>2, <2>4 DEF Respond, ReadsPins, IsPinRead
  <2> QED BY <1>1, <2>6, <2>7, <2>8
<1>2. CASE ~Performs
  <2>1. CutResponse
    BY <1>2 DEF SubordinateEdge, Performs
  <2>2. PREADY' = FALSE /\ PSLVERR' \in BOOLEAN /\ PRDATA' = PRDATA /\ ~ReadsPins
    BY <1>2, <2>1 DEF CutResponse, ReadsPins
  <2>3. PRDATA' \in Data
    BY <1>0, <2>2
  <2> QED BY <1>2, <2>2, <2>3
<1> QED BY <1>1, <1>2

-----------------------------------------------------------------------------
LEMMA InitInv == Init => IInv
<1> SUFFICES ASSUME Init PROVE IInv
  OBVIOUS
<1>1. regs = [a \in Addr |-> 0] /\ PREADY = FALSE /\ PSLVERR = FALSE /\ PRDATA = 0
  BY DEF Init, SubordinateInit, SubordinateReset
<1>2. op \in Ops
  BY DEF Init
<1>3. TypeOK
  <2>1. SubordinateTypeOK
    BY <1>1 DEF SubordinateTypeOK
  <2>2. oe \in [Pmods -> BOOLEAN] /\ gpi \in Data /\ gpo \in Data
    BY DEF Init
  <2>3. COUNT_REG \in Nat /\ COUNT_REG < CountSpan /\ settled \in 0 .. 2 /\ listening \in 0 .. 2
    BY DEF Init, CountSpan
  <2>4. completed \in [dir : {"none", "in", "out"}, data : Data]
    BY DEF Init, Nothing
  <2>5. PSEL \in BOOLEAN /\ IRQ_REG \in BOOLEAN /\ irq_en \in BOOLEAN
    BY DEF Init
  <2> QED BY <1>2, <2>1, <2>2, <2>3, <2>4, <2>5 DEF TypeOK
<1>4. CountBounded
  BY DEF Init, CountBounded
<1>5. DirectionInv
  BY <1>1 DEF Init, DirectionInv, Nothing, Pmods
<1>6. SamplingInv
  BY <1>1 DEF Init, SamplingInv, ReadsInputs, AnswersPinRead
<1> QED BY <1>3, <1>4, <1>5, <1>6 DEF IInv

LEMMA ResetInv == ASSUME IInv, Reset PROVE IInv'
<1>1. regs' = [a \in Addr |-> 0] /\ PREADY' = FALSE
  BY DEF Reset, Cleared, SubordinateReset
<1>2. TypeOK'
  <2>0. TypeOK
    BY DEF IInv
  <2>1. SubordinateTypeOK'
    BY <1>1 DEF Reset, Cleared, SubordinateTypeOK
  <2>2. oe' \in [Pmods -> BOOLEAN] /\ gpi' \in Data /\ gpo' \in Data
    BY <2>0 DEF Reset, Cleared, TypeOK
  <2>3. COUNT_REG' \in Nat /\ COUNT_REG' < CountSpan /\ settled' \in 0 .. 2 /\ listening' \in 0 .. 2
    BY DEF Reset, Cleared, CountSpan
  <2>4. completed' \in [dir : {"none", "in", "out"}, data : Data]
    BY DEF Reset, Cleared, Nothing
  <2>5. PSEL' \in BOOLEAN /\ IRQ_REG' \in BOOLEAN /\ irq_en' \in BOOLEAN
    BY <2>0 DEF Reset, Cleared, busVars, TypeOK
  <2>6. op' \in Ops
    BY <2>0 DEF Reset, Cleared, busVars, TypeOK
  <2> QED BY <2>1, <2>2, <2>3, <2>4, <2>5, <2>6 DEF TypeOK
<1>3. CountBounded'
  BY DEF Reset, Cleared, CountBounded
<1>4. DirectionInv'
  BY <1>1 DEF Reset, Cleared, DirectionInv, Nothing, Pmods
<1>5. SamplingInv'
  BY <1>1 DEF Reset, Cleared, SamplingInv, ReadsInputs, AnswersPinRead
<1> QED BY <1>2, <1>3, <1>4, <1>5 DEF IInv

(* The counter and the interrupt flag at an edge. *)
LEMMA CounterMoves ==
  ASSUME TypeOK, CountBounded, IrqEdge
  PROVE  /\ IRQ_REG' \in BOOLEAN /\ COUNT_REG' \in Nat /\ COUNT_REG' < CountSpan
         /\ COUNT_REG' < Threshold + 16
<1>1. gpi \in Nat /\ COUNT_REG \in Nat /\ Threshold \in Nat
  BY DEF TypeOK
<1>2. IRQ_REG \in BOOLEAN /\ COUNT_REG \in Nat /\ COUNT_REG < CountSpan
  BY DEF TypeOK
<1>3. COUNT_REG < Threshold + 16 /\ Threshold + 16 <= CountSpan
  BY DEF CountBounded
<1>4. Low(gpi) \in 0 .. 15
  BY <1>1 DEF Low
<1>5. CASE COUNT_REG < Threshold
  <2>1. /\ Low(gpi) + COUNT_REG \in Nat
        /\ Low(gpi) + COUNT_REG < Threshold + 16
        /\ Low(gpi) + COUNT_REG < CountSpan
    BY <1>1, <1>4, <1>5 DEF CountSpan
  <2>2. (Low(gpi) + COUNT_REG) % CountSpan = Low(gpi) + COUNT_REG
    BY <2>1 DEF CountSpan
  <2>3. ~(COUNT_REG >= Threshold)
    BY <1>1, <1>5
  <2>4. COUNT_REG' = COUNT_REG \/ COUNT_REG' = Low(gpi) + COUNT_REG
    BY <2>2, <2>3 DEF IrqEdge
  <2>5. IRQ_REG' = FALSE \/ IRQ_REG' = IRQ_REG
    BY <2>3, Zenon DEF IrqEdge
  <2>6. IRQ_REG' \in BOOLEAN
    BY <1>2, <2>5
  <2>7. COUNT_REG' \in Nat /\ COUNT_REG' < CountSpan /\ COUNT_REG' < Threshold + 16
    BY <1>1, <1>2, <1>3, <2>1, <2>4
  <2> QED BY <2>6, <2>7
<1>6. CASE COUNT_REG >= Threshold
  <2>1. COUNT_REG' = 0 \/ COUNT_REG' = COUNT_REG
    BY <1>6 DEF IrqEdge
  <2>2. IRQ_REG' = TRUE \/ IRQ_REG' = FALSE
    BY <1>6 DEF IrqEdge
  <2>3. 0 < CountSpan /\ 0 < Threshold + 16
    BY <1>1 DEF CountSpan
  <2> QED BY <1>2, <1>3, <2>1, <2>2, <2>3
<1> QED BY <1>1, <1>5, <1>6

LEMMA ClkInv == ASSUME IInv, Clk PROVE IInv'
<1>0. /\ TypeOK /\ CountBounded /\ DirectionInv /\ SamplingInv
      /\ SubordinateEdge(PSEL, op)
  BY DEF IInv, Clk
<1>1. /\ regs' \in [Addr -> Data]
      /\ regs'[8] = IF WritesPins THEN op.wdata ELSE regs[8]
  BY <1>0, RegistersMove
<1>2. /\ PREADY' \in BOOLEAN /\ PSLVERR' \in BOOLEAN /\ PRDATA' \in Data
      /\ PREADY' <=> Performs
      /\ ReadsPins => PRDATA' = regs[4]
  BY <1>0, ResponseMoves
<1>3. IRQ_REG' \in BOOLEAN /\ COUNT_REG' \in Nat /\ COUNT_REG' < CountSpan
      /\ COUNT_REG' < Threshold + 16
  BY <1>0, CounterMoves DEF Clk
<1>4. op \in Ops /\ op.we \in BOOLEAN /\ op.wdata \in Data /\ op' = op /\ gpi' = gpi
  BY <1>0 DEF TypeOK, Ops, Clk
<1>5. \A p \in Pmods : /\ oe'[p] \in BOOLEAN
                       /\ oe'[p] <=> IF WritesPins THEN TRUE
                                     ELSE IF ReadsPins THEN FALSE ELSE oe[p]
  BY <1>0 DEF Clk, Direction, TypeOK
<1>6. completed' \in [dir : {"none", "in", "out"}, data : Data]
  BY <1>0, <1>4 DEF Clk, Complete, TypeOK
<1>7. TypeOK'
  <2>1. oe' \in [Pmods -> BOOLEAN]
    BY <1>0 DEF Clk, Direction, TypeOK
  <2>2. gpo' \in Data
    BY <1>0, <1>1 DEF Clk, Latch, TypeOK
  <2>3. PSEL' \in BOOLEAN
    BY <1>0 DEF Clk
  <2>4. settled' \in 0 .. 2 /\ listening' \in 0 .. 2
    BY <1>0 DEF Clk, Bump, TypeOK
  <2> QED BY <1>0, <1>1, <1>2, <1>3, <1>6, <2>1, <2>2, <2>3, <2>4
          DEF Clk, TypeOK, SubordinateTypeOK
<1>8. CountBounded'
  BY <1>3 DEF CountBounded
<1>9. DirectionInv'
  <2>1. PREADY' => PSEL'
    BY <1>2 DEF Clk, Performs
  <2>2. oe'[0] => gpo' = regs'[8]
    BY DEF Clk, Latch
  <2>3. PSEL /\ PREADY => /\ ~PREADY' /\ ~WritesPins /\ ~ReadsPins
    BY <1>2 DEF Performs, WritesPins, ReadsPins
  <2>4. CASE Performs
    <3>1. /\ PREADY' /\ ~PREADY /\ completed' = completed
      BY <1>2, <2>4 DEF Performs, Clk, Complete
    <3>2. /\ WritesPins <=> IsPinWrite(op)
          /\ ReadsPins <=> IsPinRead(op)
      BY <2>4 DEF WritesPins, ReadsPins
    <3> QED BY <1>0, <1>1, <1>4, <1>5, <2>1, <2>2, <3>1, <3>2
            DEF DirectionInv, IsPinWrite, IsPinRead
  <2>5. CASE PREADY
    <3>1. PSEL /\ ~PREADY' /\ ~WritesPins /\ ~ReadsPins
      BY <1>0, <2>3, <2>5 DEF DirectionInv
    <3>2. completed' = IF IsPinWrite(op) THEN [dir |-> "out", data |-> op.wdata]
                       ELSE IF IsPinRead(op) THEN [dir |-> "in", data |-> 0]
                       ELSE completed
      BY <2>5, <3>1 DEF Clk, Complete
    <3>3. CASE IsPinWrite(op)
      BY <1>0, <1>1, <1>5, <2>1, <2>2, <2>5, <3>1, <3>2, <3>3 DEF DirectionInv
    <3>4. CASE ~IsPinWrite(op) /\ IsPinRead(op)
      BY <1>0, <1>1, <1>5, <2>1, <2>2, <2>5, <3>1, <3>2, <3>4 DEF DirectionInv
    <3>5. CASE ~IsPinWrite(op) /\ ~IsPinRead(op)
      BY <1>0, <1>1, <1>5, <2>1, <2>2, <2>5, <3>1, <3>2, <3>5 DEF DirectionInv
    <3> QED BY <3>3, <3>4, <3>5
  <2>6. CASE ~Performs /\ ~PREADY
    <3>1. ~PREADY' /\ ~WritesPins /\ ~ReadsPins /\ completed' = completed
      BY <1>2, <2>6 DEF WritesPins, ReadsPins, Performs, Clk, Complete
    <3> QED BY <1>0, <1>1, <1>5, <2>1, <2>2, <2>6, <3>1 DEF DirectionInv
  <2> QED BY <2>4, <2>5, <2>6
<1>10. SamplingInv'
  <2>1. settled' > 0 /\ listening' > 0 => regs'[4] = gpi'
    BY <1>4 DEF Clk, Sample
  <2>2. settled' = 2 /\ listening' = 2 => settled > 0 /\ listening > 0
    BY <1>0 DEF Clk, Bump, TypeOK
  <2>3. AnswersPinRead' => ReadsPins
    BY <1>2, <1>4 DEF AnswersPinRead, ReadsPins, IsPinRead
  <2>4. ReadsInputs'
    BY <1>0, <1>2, <1>4, <2>2, <2>3 DEF ReadsInputs, SamplingInv
  <2> QED BY <2>1, <2>4 DEF SamplingInv
<1> QED BY <1>7, <1>8, <1>9, <1>10 DEF IInv

LEMMA StepInv == IInv /\ [Next]_vars => IInv'
<1> SUFFICES ASSUME IInv, [Next]_vars PROVE IInv'
  OBVIOUS
<1> USE DEF IInv, TypeOK, SubordinateTypeOK, CountBounded, DirectionInv,
            SamplingInv, ReadsInputs, AnswersPinRead, IsPinWrite, IsPinRead
<1>1. CASE Clk
  BY <1>1, ClkInv
<1>2. ASSUME NEW o \in Workload, Start(o) PROVE IInv'
  BY <1>2 DEF Start, subordinateVars, pinVars, irqVars
<1>3. ASSUME NEW d \in Data, SetPins(d) PROVE IInv'
  BY <1>3 DEF SetPins, subordinateVars, busVars, irqVars
<1>4. ASSUME NEW b \in BOOLEAN, SetIrqEn(b) PROVE IInv'
  BY <1>4 DEF SetIrqEn, subordinateVars, busVars, pinVars
<1>5. CASE Reset
  BY <1>5, ResetInv
<1>6. CASE UNCHANGED vars
  BY <1>6 DEF vars, subordinateVars, busVars, pinVars, irqVars
<1> QED BY <1>1, <1>2, <1>3, <1>4, <1>5, <1>6 DEF Next

(* The strengthening that the following theorems rest on is an invariant. *)
THEOREM Invariance == Spec => []IInv
BY InitInv, StepInv, PTL DEF Spec

(* The registers, the pins and the counter keep their types. *)
THEOREM TypeCorrect == Spec => []TypeOK
<1>1. IInv => TypeOK
  BY DEF IInv
<1> QED BY <1>1, Invariance, PTL

(* COUNT_REG never wraps round its 16 bits, for any threshold that leaves    *)
(* room for one more step.                                                   *)
THEOREM CounterNeverWraps == Spec => []CountBounded
<1>1. IInv => CountBounded
  BY DEF IInv
<1> QED BY <1>1, Invariance, PTL

(* The pins do what the access completed last says. *)
THEOREM PinsFollow == Spec => []PinsFollowManager
<1>1. IInv => PinsFollowManager
  BY DEF IInv, DirectionInv, PinsFollowManager, Pmods
<1> QED BY <1>1, Invariance, PTL

(* Pins that are inputs already are read as they are. *)
THEOREM InputsAreRead == Spec => []ReadsInputs
<1>1. IInv => ReadsInputs
  BY DEF IInv, SamplingInv
<1> QED BY <1>1, Invariance, PTL

(* An interrupt lasts one cycle. *)
THEOREM OneCyclePulse == Spec => IrqPulse
<1>1. [Next]_vars => [Clk /\ irq => ~irq']_vars
  BY DEF Clk, IrqEdge, irq
<1> QED BY <1>1, PTL DEF Spec, IrqPulse

=============================================================================
