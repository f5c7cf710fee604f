------------------------------ MODULE RegModel ------------------------------
(***************************************************************************)
(* The register model of the student bench: its registers, the adapter     *)
(* that turns a register access into an APB item and back, and the mask    *)
(* that the register sequences put on what they write.                     *)
(***************************************************************************)
EXTENDS Integers

Registers == {"rw_reg", "gpio_r_reg", "gpio_w_reg", "ss_ctrl_reg"}

\* The two digits of the offsets that the block configures, "0x0" to "0x12".
Offset ==
  [rw_reg      |-> [tens |-> 0, ones |-> 0],
   gpio_r_reg  |-> [tens |-> 0, ones |-> 4],
   gpio_w_reg  |-> [tens |-> 0, ones |-> 8],
   ss_ctrl_reg |-> [tens |-> 1, ones |-> 2]]

\* Deviation the runs detect: the offsets read for what they look like.
AddressHex(reg) == 16 * Offset[reg].tens + Offset[reg].ones

\* The adapter drops the prefix and reads the rest as a decimal number.
Address(reg) == 10 * Offset[reg].tens + Offset[reg].ones

ReadItem(reg) ==
  [we |-> FALSE, addr |-> Address(reg), data |-> 0, strb |-> TRUE, slverr |-> FALSE]

WriteItem(reg, data) ==
  [we |-> TRUE, addr |-> Address(reg), data |-> data, strb |-> TRUE, slverr |-> FALSE]

\* The masks 8'h0f, 8'hf0 and 8'hff of the register sequences.
Masked(data) == {data % 16, (data % 256) - (data % 16), data % 256}

=============================================================================
