------------------------------- MODULE SpSram -------------------------------
(***************************************************************************)
(* sp_sram: a memory bank behind an OBI port.  The handshake grants a      *)
(* request and answers in the next cycle; the memory array listens to req  *)
(* alone, so that a request that waits for its grant behind the answer to  *)
(* another one is stored, or loads the read address, before it is granted. *)
(*                                                                         *)
(* The model holds one of the byte lanes of the bank: the lanes share      *)
(* everything but their data and their byte enable.  A store whose byte    *)
(* enable for the lane is low carries the wdata Keep.                      *)
(***************************************************************************)
EXTENDS BusTypes

CONSTANTS
  NumWords,  \* NUM_WORDS
  Keep       \* wdata of a store that leaves the lane alone

ASSUME SpSramAssumption ==
  /\ NumWords \in Nat \ {0}
  /\ Keep \in Data \ {0}

Byte == Data \ {Keep}

\* The address port has $clog2(NUM_WORDS) bits and takes a byte address.
Word(a) == (a % NumWords) \div 4
Words == {Word(a) : a \in Addr} \cup {0}

VARIABLES gnt_reg, rvalid_reg, raddr_q,
          ram  \* the words that an address of Addr reaches

sramVars == <<gnt_reg, rvalid_reg, raddr_q, ram>>

SramTypeOK ==
  /\ gnt_reg \in BOOLEAN /\ rvalid_reg \in BOOLEAN
  /\ raddr_q \in Words
  /\ ram \in [Words -> Byte]

SramInit ==
  /\ gnt_reg = TRUE
  /\ rvalid_reg = FALSE
  /\ raddr_q = 0
  /\ ram = [w \in Words |-> 0]

rdata == ram[raddr_q]

\* Deviations the runs detect: byte enables that are ignored; a read address
\* loaded by stores, and one that is not shifted; a grant that does not come
\* back after the response.
StoredAnyLane(o, m) ==
  IF o.we THEN [m EXCEPT ![Word(o.addr)] = IF o.wdata = Keep THEN 0 ELSE o.wdata]
          ELSE m

ArrayReadsOnWrite(req_i, o) ==
  /\ raddr_q' = IF req_i /\ o.we THEN Word(o.addr) ELSE raddr_q
  /\ UNCHANGED ram

ArrayByteAddress(req_i, o) ==
  /\ raddr_q' = IF req_i /\ ~o.we THEN o.addr % NumWords ELSE raddr_q
  /\ UNCHANGED ram

HandshakeGrantLost(req_i, rready_i) ==
  /\ gnt_reg' = (gnt_reg /\ ~req_i)
  /\ rvalid_reg' = IF gnt_reg THEN req_i ELSE ~rready_i

Stored(o, m) ==
  IF o.we /\ o.wdata # Keep THEN [m EXCEPT ![Word(o.addr)] = o.wdata] ELSE m

\* The handshake.
Handshake(req_i, rready_i) ==
  /\ gnt_reg' = IF gnt_reg THEN ~req_i ELSE rready_i
  /\ rvalid_reg' = ~gnt_reg'

\* The array: one clock edge with the access o on the port when req_i holds.
Array(req_i, o) ==
  /\ raddr_q' = IF req_i /\ ~o.we THEN Word(o.addr) ELSE raddr_q
  /\ ram' = IF req_i THEN Stored(o, ram) ELSE ram

=============================================================================
