----------------------------- MODULE ExampleRtl -----------------------------
(***************************************************************************)
(* What student_ss_example has beside its APB registers: the direction of  *)
(* its two PMODs, which the accesses to the GPIO registers switch, the     *)
(* sampling of the input pins, the latches in front of the output pins,    *)
(* and the counter that raises the interrupt.  Each definition is what one *)
(* clock edge does to one of them.                                         *)
(*                                                                         *)
(* The eight pins of both PMODs are one data word, in which PMOD 0 is the  *)
(* low four bits; the unused bits of the GPIO registers are left out.      *)
(***************************************************************************)
EXTENDS ApbSubordinate

CONSTANT Threshold  \* 16'hA00

VARIABLES
  PSEL, op,     \* the manager: is it in an access, and in which
  oe,           \* oe[p]: pmod_p_gpio_oe is 4'hf
  gpi, gpo,     \* the input pins, and the latched output pins
  IRQ_REG, COUNT_REG,
  irq_en        \* irq_en_4

GPIO_R_REG == 4
GPIO_W_REG == 8
SS_CTRL_REG == 12
Pmods == {0, 1}
Low(d) == d % 16
CountSpan == 65536

irq == IRQ_REG /\ irq_en

\* Deviations the runs detect: a comparison a step of up to 15 can jump over;
\* a flag that is not cleared; a counter that wraps without raising the flag.
IrqEdgeExact ==
  IF ~irq /\ COUNT_REG = Threshold
  THEN IRQ_REG' = TRUE /\ COUNT_REG' = 0
  ELSE IF irq THEN IRQ_REG' = FALSE /\ UNCHANGED COUNT_REG
  ELSE COUNT_REG' = (Low(gpi) + COUNT_REG) % CountSpan /\ UNCHANGED IRQ_REG

IrqEdgeSticky ==
  IF ~irq /\ COUNT_REG >= Threshold
  THEN IRQ_REG' = TRUE /\ COUNT_REG' = 0
  ELSE COUNT_REG' = (Low(gpi) + COUNT_REG) % CountSpan /\ UNCHANGED IRQ_REG

IrqEdgeNoFlag ==
  IF ~irq /\ COUNT_REG >= Threshold
  THEN COUNT_REG' = 0 /\ UNCHANGED IRQ_REG
  ELSE IF irq THEN IRQ_REG' = FALSE /\ UNCHANGED COUNT_REG
  ELSE COUNT_REG' = (Low(gpi) + COUNT_REG) % CountSpan /\ UNCHANGED IRQ_REG

IrqEdge ==
  IF ~irq /\ COUNT_REG >= Threshold
  THEN IRQ_REG' = TRUE /\ COUNT_REG' = 0
  ELSE IF irq THEN IRQ_REG' = FALSE /\ UNCHANGED COUNT_REG
  ELSE COUNT_REG' = (Low(gpi) + COUNT_REG) % CountSpan /\ UNCHANGED IRQ_REG

\* The edge at which the access on the bus is performed.
Performs == PSEL /\ ~PREADY
IsPinWrite(o) == o.we /\ o.addr = GPIO_W_REG
IsPinRead(o) == ~o.we /\ o.addr = GPIO_R_REG
WritesPins == Performs /\ IsPinWrite(op)
ReadsPins == Performs /\ IsPinRead(op)

\* Deviations the runs detect: a read that leaves the pins driven, and pins
\* that are sampled while they are driven.
DirectionStays ==
  oe' = IF WritesPins THEN [p \in Pmods |-> TRUE] ELSE oe

SampleInverted ==
  regs'[GPIO_R_REG] = IF oe[0] THEN gpi ELSE regs[GPIO_R_REG]

\* The GPIO accesses turn both PMODs round.
Direction ==
  oe' = IF WritesPins THEN [p \in Pmods |-> TRUE]
        ELSE IF ReadsPins THEN [p \in Pmods |-> FALSE] ELSE oe

\* Both PMODs are sampled, and both latches are open, by the oe of PMOD 0.
Sample == regs'[GPIO_R_REG] = IF oe[0] THEN regs[GPIO_R_REG] ELSE gpi
Latch == gpo' = IF oe'[0] THEN regs'[GPIO_W_REG] ELSE gpo

\* Bits 7..0 of SS_CTRL_REG follow the pins at every edge, also over a write.
SampleCtrl(ss_ctrl) == regs'[SS_CTRL_REG] = ss_ctrl

\* reset_int is low: every register is cleared, only the latches keep.
Cleared ==
  /\ PREADY' = FALSE /\ PSLVERR' = FALSE /\ PRDATA' = 0
  /\ SubordinateReset(regs')
  /\ oe' = [p \in Pmods |-> FALSE]
  /\ IRQ_REG' = FALSE /\ COUNT_REG' = 0

=============================================================================
