------------------------------ MODULE BusTypes ------------------------------
(* The payload of a bus access, shared by the OBI and APB models.           *)
EXTENDS Integers

CONSTANTS
  Addr,  \* word-aligned byte offsets an access to the block can name
  Data   \* data words; 0 is the reset value

ASSUME BusTypesAssumption == 0 \in Data

\* The request channel of an access: we, addr, wdata.  Byte enables are left
\* out: no register block of the SoC uses them.
Ops == [we : BOOLEAN, addr : Addr, wdata : Data]

=============================================================================
