---------------------------- MODULE CtrlRegArray ----------------------------
(***************************************************************************)
(* SS_Ctrl_reg_array: the control registers of the SoC behind an OBI port. *)
(* It grants a request in the cycle it sees it, and answers in the next    *)
(* one; the answer is repeated for as long as rready is low.  Byte enables *)
(* are ignored.  An access to an offset without a register is answered     *)
(* like any other: a write does nothing, a read returns what the previous  *)
(* read left in rdata_out_reg.                                             *)
(***************************************************************************)
EXTENDS BusTypes

CONSTANT IocellCount  \* IOCELL_COUNT

ASSUME CtrlRegArrayAssumption == IocellCount \in Nat

VARIABLES gnt_reg, rvalid_reg, rdata_out_reg,
          ctrl  \* the registers, by byte offset

ctrlVars == <<gnt_reg, rvalid_reg, rdata_out_reg, ctrl>>

IocellOffsets == {40 + 4 * i : i \in 0 .. IocellCount - 1}
BootAndReturn == {256, 260, 384, 388}
Registers == {0, 4, 8, 12, 16, 20, 24, 28, 32, 36} \cup BootAndReturn \cup IocellOffsets

Mapped(a) == a \in Registers

ResetValue(a) ==
  IF a = 0 THEN 5                          \* fetch_en: boot from the jump register
  ELSE IF a = 36 THEN 4                    \* pmod_sel
  ELSE IF a \in BootAndReturn THEN 111     \* "j ."
  ELSE IF a \in IocellOffsets THEN 13
  ELSE 0

CtrlTypeOK ==
  /\ gnt_reg \in BOOLEAN /\ rvalid_reg \in BOOLEAN
  /\ rdata_out_reg \in Data
  /\ ctrl \in [Addr -> Data]

CtrlInit ==
  /\ gnt_reg = TRUE
  /\ rvalid_reg = FALSE
  /\ rdata_out_reg = 0
  /\ ctrl = [a \in Addr |-> ResetValue(a)]

\* Deviations the runs detect: performing on req alone; storing where there is
\* no register; the address returned as data; a grant that does not come back
\* after a response.
PerformsOnReq(req_i) == req_i

WriteAnywhere(o) ==
  ctrl' = IF o.we THEN [ctrl EXCEPT ![o.addr] = o.wdata] ELSE ctrl

ReadAddress(o) == rdata_out_reg' = IF ~o.we THEN o.addr ELSE rdata_out_reg

\* An access is performed in a cycle with req whose answer is not out yet.
Performs(req_i) == req_i /\ ~rvalid_reg

WriteRegister(o) ==
  ctrl' = IF o.we /\ Mapped(o.addr) THEN [ctrl EXCEPT ![o.addr] = o.wdata]
                                    ELSE ctrl

ReadRegister(o) ==
  rdata_out_reg' = IF ~o.we /\ Mapped(o.addr) THEN ctrl[o.addr]
                                              ELSE rdata_out_reg

CtrlEdgeGrantLost(req_i, o, rready_i) ==
  IF Performs(req_i)
  THEN /\ WriteRegister(o) /\ ReadRegister(o)
       /\ rvalid_reg' = TRUE /\ gnt_reg' = FALSE
  ELSE /\ rvalid_reg' = (~rready_i /\ ~gnt_reg)
       /\ UNCHANGED <<gnt_reg, rdata_out_reg, ctrl>>

\* One clock edge: the access o is on the port when req_i holds.
CtrlEdge(req_i, o, rready_i) ==
  IF Performs(req_i)
  THEN /\ WriteRegister(o)
       /\ ReadRegister(o)
       /\ rvalid_reg' = TRUE
       /\ gnt_reg' = FALSE
  ELSE /\ rvalid_reg' = (~rready_i /\ ~gnt_reg)
       /\ gnt_reg' = (rready_i \/ gnt_reg)
       /\ UNCHANGED <<rdata_out_reg, ctrl>>

=============================================================================
