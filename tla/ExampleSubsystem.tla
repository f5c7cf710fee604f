-------------------------- MODULE ExampleSubsystem --------------------------
(***************************************************************************)
(* student_ss_example in the environment of the PyUVM bench, whatever its  *)
(* sequences do: an APB manager that makes one access at a time, pins and  *)
(* irq_en_4 that change between the edges, and the reset.                  *)
(***************************************************************************)
EXTENDS ExampleRtl

CONSTANT Workload  \* the accesses the manager may make

ASSUME ExampleSubsystemAssumption ==
  /\ Kind = "student_ss_example"
  /\ {GPIO_R_REG, GPIO_W_REG} \subseteq Addr
  /\ Data \subseteq Nat
  /\ Threshold \in Nat /\ Threshold + 16 <= CountSpan
  /\ Workload # {} /\ Workload \subseteq Ops

VARIABLES
  settled,      \* history: edges out of reset since gpi changed, up to 2
  listening,    \* history: edges out of reset since oe was set, up to 2
  completed     \* history: the last GPIO access the manager has completed

busVars == <<PSEL, op>>
pinVars == <<oe, gpi, gpo, settled, listening, completed>>
irqVars == <<IRQ_REG, COUNT_REG, irq_en>>
vars == <<subordinateVars, busVars, pinVars, irqVars>>

Nothing == [dir |-> "none", data |-> 0]

TypeOK ==
  /\ SubordinateTypeOK
  /\ PSEL \in BOOLEAN /\ op \in Ops
  /\ oe \in [Pmods -> BOOLEAN] /\ gpi \in Data /\ gpo \in Data
  /\ IRQ_REG \in BOOLEAN /\ irq_en \in BOOLEAN
  /\ COUNT_REG \in Nat /\ COUNT_REG < CountSpan
  /\ settled \in 0 .. 2 /\ listening \in 0 .. 2
  /\ completed \in [dir : {"none", "in", "out"}, data : Data]

\* The latches have no reset, so they come up with any value.
Init ==
  /\ SubordinateInit
  /\ PSEL = FALSE /\ op \in Workload
  /\ oe = [p \in Pmods |-> FALSE] /\ gpi = 0 /\ gpo \in Data
  /\ IRQ_REG = FALSE /\ COUNT_REG = 0 /\ irq_en = FALSE
  /\ settled = 0 /\ listening = 0 /\ completed = Nothing

-----------------------------------------------------------------------------
Bump(n) == IF n < 2 THEN n + 1 ELSE n

Complete ==
  completed' =
    IF PSEL /\ PREADY
    THEN IF IsPinWrite(op) THEN [dir |-> "out", data |-> op.wdata]
         ELSE IF IsPinRead(op) THEN [dir |-> "in", data |-> 0] ELSE completed
    ELSE completed

\* The manager, in its access phase from the second edge on, takes the answer
\* and releases the bus.
Clk ==
  /\ SubordinateEdge(PSEL, op)
  /\ Direction /\ Sample /\ Latch
  /\ IrqEdge
  /\ PSEL' = (PSEL /\ ~PREADY)
  /\ settled' = Bump(settled)
  /\ listening' = IF oe[0] THEN 0 ELSE Bump(listening)
  /\ Complete
  /\ UNCHANGED <<op, gpi, irq_en>>

Start(o) ==
  /\ ~PSEL
  /\ PSEL' = TRUE /\ op' = o
  /\ UNCHANGED <<subordinateVars, pinVars, irqVars>>

SetPins(d) ==
  /\ gpi' = d /\ settled' = 0
  /\ UNCHANGED <<subordinateVars, busVars, oe, gpo, listening, completed, irqVars>>

SetIrqEn(b) ==
  /\ irq_en' = b
  /\ UNCHANGED <<subordinateVars, busVars, pinVars, IRQ_REG, COUNT_REG>>

\* reset_int goes low: every register is cleared.  An access under way waits,
\* as behind the bridge, or is given up, as by the bench.
Reset ==
  /\ Cleared
  /\ settled' = 0 /\ listening' = 0 /\ completed' = Nothing
  /\ PSEL' \in {PSEL, FALSE}
  /\ UNCHANGED <<op, gpi, gpo, irq_en>>

Next ==
  \/ Clk
  \/ \E o \in Workload : Start(o)
  \/ \E d \in Data : SetPins(d)
  \/ \E b \in BOOLEAN : SetIrqEn(b)
  \/ Reset

Spec == Init /\ [][Next]_vars

\* The clock runs.
FairSpec == Spec /\ WF_vars(Clk)

-----------------------------------------------------------------------------
(* The counter cannot wrap round: whatever is added at an edge, the         *)
(* comparison catches it before it leaves the 16 bits, also while a raised  *)
(* interrupt is not enabled.                                                *)
CountBounded == COUNT_REG < Threshold + 16

(* The bench's assertion irq_pulse: "If IRQ is high, then it must be low at *)
(* the following clock edge".                                               *)
IrqPulse == [][Clk /\ irq => ~irq']_vars

(* Pins that keep counting keep interrupting a core that listens.           *)
InterruptsKeepComing ==
  <>[](irq_en /\ Low(gpi) # 0) /\ <>[][~Reset]_vars => []<>irq

(* What the manager has completed last is what the pins do, both PMODs      *)
(* alike: after a GPIO write they are driven with its data, after a GPIO    *)
(* read or a reset they are inputs.                                         *)
PinsFollowManager ==
  ~PSEL => /\ \A p \in Pmods : oe[p] <=> completed.dir = "out"
           /\ completed.dir = "out" => gpo = completed.data

AnswersPinRead == PSEL /\ PREADY /\ IsPinRead(op)

(* The bench's Read PMOD Test: "setting the GPI-pins" and "doing a read of  *)
(* the GPIO-Read-Register", "the data is identical".  It holds of pins that *)
(* are inputs already; the first read after a GPIO write turns them round   *)
(* itself, and answers what they were before that write.                    *)
ReadsInputs ==
  AnswersPinRead /\ settled = 2 /\ listening = 2 => PRDATA = gpi

(***************************************************************************)
(* The inductive invariant behind the theorems.                            *)
(***************************************************************************)
\* The direction is that of the access performed last, which is the one on
\* the bus while PREADY is up, and otherwise the one completed last; the
\* latches and the write register hold its data.
DirectionInv ==
  /\ PREADY => PSEL
  /\ \A p \in Pmods :
       oe[p] <=> IF PREADY /\ IsPinWrite(op) THEN TRUE
                 ELSE IF PREADY /\ IsPinRead(op) THEN FALSE
                 ELSE completed.dir = "out"
  /\ oe[0] => gpo = regs[GPIO_W_REG]
  /\ IF PREADY /\ IsPinWrite(op) THEN regs[GPIO_W_REG] = op.wdata
     ELSE completed.dir = "out" => regs[GPIO_W_REG] = completed.data

\* The read register follows pins that are inputs, one edge behind, and the
\* answer of a read follows the register, one edge behind that.
SamplingInv ==
  /\ settled > 0 /\ listening > 0 => regs[GPIO_R_REG] = gpi
  /\ ReadsInputs

IInv == TypeOK /\ CountBounded /\ DirectionInv /\ SamplingInv

=============================================================================
