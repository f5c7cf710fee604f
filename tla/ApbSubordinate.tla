--------------------------- MODULE ApbSubordinate ---------------------------
(***************************************************************************)
(* The APB side of the student subsystems: a registered PREADY / PSLVERR / *)
(* PRDATA response to PSEL.  PENABLE and PSTRB are ignored by all of them: *)
(* the access is performed in the first cycle PSEL is seen, which is the   *)
(* bridge's setup phase.  The blocks differ in what they decode.           *)
(***************************************************************************)
EXTENDS BusTypes

CONSTANT Kind  \* which subsystem: see Kinds

Kinds == {"student_ss_1", "Student_area_0", "student_ss_example",
          "analog_status_array", "ss_tieoff"}

ASSUME ApbSubordinateAssumption == Kind \in Kinds

VARIABLES
  PREADY, PSLVERR, PRDATA,  \* the response registers
  regs                      \* the addressable registers

subordinateVars == <<PREADY, PSLVERR, PRDATA, regs>>

(***************************************************************************)
(* Address decoding: "ok" performs the access, "err" answers PSLVERR,      *)
(* "none" gives no answer at all.                                          *)
(***************************************************************************)
OneOf(ok, otherwise) == IF ok THEN "ok" ELSE otherwise

Student1Outcome(we, a) ==
  OneOf(IF we THEN a = 0 ELSE a \in {0, 4}, "none")

Area0Outcome(we, a) == OneOf(a = 0, "none")

ExampleOutcome(we, a) ==
  OneOf(IF we THEN a \in {0, 8, 12} ELSE a \in {0, 4, 12}, "err")

AnalogOutcome(we, a) == OneOf(~we /\ a \in {0, 4, 8, 12}, "err")

TieoffOutcome(we, a) == "none"

Outcome(we, a) ==
  CASE Kind = "student_ss_1"        -> Student1Outcome(we, a)
    [] Kind = "Student_area_0"      -> Area0Outcome(we, a)
    [] Kind = "student_ss_example"  -> ExampleOutcome(we, a)
    [] Kind = "analog_status_array" -> AnalogOutcome(we, a)
    [] Kind = "ss_tieoff"           -> TieoffOutcome(we, a)

\* Registers loaded from pins or status inputs at every clock edge.  Register
\* 12 of student_ss_example stands for its bits 7..0, which follow the SS_CTRL
\* input; nothing uses the bits 31..8 that software could write.
Sampled ==
  Addr \cap
  (CASE Kind = "student_ss_1"                     -> {4}
     [] Kind = "student_ss_example"               -> {4, 12}
     [] Kind = "analog_status_array"              -> {0, 4, 8, 12}
     [] Kind \in {"Student_area_0", "ss_tieoff"}  -> {})

SubordinateTypeOK ==
  /\ PREADY \in BOOLEAN /\ PSLVERR \in BOOLEAN /\ PRDATA \in Data
  /\ regs \in [Addr -> Data]

SubordinateReset(r) == r = [a \in Addr |-> 0]

SubordinateInit ==
  /\ PREADY = FALSE /\ PSLVERR = FALSE /\ PRDATA = 0
  /\ SubordinateReset(regs)

\* Deviations the runs detect: a response that is not cut; the address
\* returned as data; a read that is performed but not answered.
CutResponseForgotten == UNCHANGED <<PREADY, PSLVERR, PRDATA>>

RespondAddress(o) ==
  /\ PREADY' = (Outcome(o.we, o.addr) # "none")
  /\ PSLVERR' = (Outcome(o.we, o.addr) = "err")
  /\ PRDATA' = o.addr

RespondWritesOnly(o) ==
  /\ PREADY' = (o.we /\ Outcome(o.we, o.addr) # "none")
  /\ UNCHANGED <<PSLVERR, PRDATA>>

\* The cycle after a response cuts it, whatever is on the bus; without PSEL
\* there is never a response.
CutResponse ==
  /\ PREADY' = FALSE /\ PSLVERR' = FALSE
  /\ UNCHANGED PRDATA

Respond(o) ==
  LET outcome == Outcome(o.we, o.addr) IN
  /\ PREADY' = (outcome # "none")
  /\ PSLVERR' = (outcome = "err")
  /\ PRDATA' = IF outcome = "ok" /\ ~o.we THEN regs[o.addr] ELSE PRDATA

\* Register update of one clock edge: W is written with v, pins are sampled.
Clocked(W, v) ==
  \E pins \in [Sampled -> Data] :
    regs' = [a \in Addr |-> IF a \in Sampled THEN pins[a]
                               ELSE IF a \in W THEN v ELSE regs[a]]

\* One clock edge with PSEL, and the access o on PWRITE, PADDR and PWDATA.
SubordinateEdge(PSEL, o) ==
  IF PSEL /\ ~PREADY
  THEN /\ Respond(o)
       /\ Clocked(IF o.we /\ Outcome(TRUE, o.addr) = "ok" THEN {o.addr} ELSE {},
                  o.wdata)
  ELSE CutResponse /\ Clocked({}, 0)

=============================================================================
