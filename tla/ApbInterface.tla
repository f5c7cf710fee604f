---------------------------- MODULE ApbInterface ----------------------------
(* The signals of cl_apb_interface, and the items of the APB agents.        *)
EXTENDS BusTypes, Cocotb

VARIABLES
  PSEL, PENABLE,
  op,                      \* PWRITE, PADDR and PWDATA
  PREADY, PSLVERR, PRDATA

requestVars == <<PSEL, PENABLE, op>>
responseVars == <<PREADY, PSLVERR, PRDATA>>

X == -1  \* a bus without a known value

NoOp == [we |-> FALSE, addr |-> X, wdata |-> X]

ApbSignals == [sel |-> PSEL, enable |-> PENABLE, op |-> op,
               ready |-> PREADY, slverr |-> PSLVERR, rdata |-> PRDATA]

\* cl_apb_seq_item, with a strobe for the whole word and we for op = WR.
ApbItems == [we : BOOLEAN, addr : Addr, data : Data \cup {X},
             strb : BOOLEAN, slverr : BOOLEAN]

=============================================================================
