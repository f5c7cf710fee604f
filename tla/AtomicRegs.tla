----------------------------- MODULE AtomicRegs -----------------------------
(***************************************************************************)
(* What a memory-mapped register block promises to the initiators of the   *)
(* bus: every access takes effect atomically, exactly once, at one instant *)
(* between the request and its response, and the response carries the      *)
(* result of that instant.  The register blocks of the SoC (a subsystem    *)
(* behind its OBI-to-APB bridge, the control register array, an SRAM bank) *)
(* are shown to implement this specification.                              *)
(***************************************************************************)
EXTENDS Integers

CONSTANTS
  Clients,   \* the initiators that can reach the block
  Addr,      \* word addresses an access can name
  Data,      \* register contents
  ResetVal,  \* ResetVal[a]: what register a holds after reset
  OkOps,     \* accesses that read or write a register
  ErrOps,    \* accesses that complete with an error response
  VoidOps,   \* accesses that complete without effect, with unspecified data
             \* (these three are disjoint; other accesses never complete)
  HwRegs,    \* registers the hardware may also change by itself
  NoData     \* "no data": the response of a write or of a failed access

Ops == [we : BOOLEAN, addr : Addr, wdata : Data]
Results == [err : BOOLEAN, data : Data \cup {NoData}]
NoResult == [err |-> FALSE, data |-> NoData]

VARIABLES
  mem,    \* the registers
  phase,  \* phase[c]: "idle", "pending" (asked), "done" (took effect)
  op,     \* op[c]: the access c last asked for
  res     \* res[c]: its result, from the moment it took effect

absVars == <<mem, phase, op, res>>

Completes(o) == o \in OkOps \cup ErrOps \cup VoidOps

\* The response an access has to get when it takes effect in register state m.
ResultOf(o, m) ==
  [ err  |-> o \in ErrOps,
    data |-> IF ~o.we /\ o \in OkOps THEN m[o.addr] ELSE NoData ]

\* m2 is what register state m1 becomes: the registers of W hold v, the
\* hardware's own registers hold anything, all the others are untouched.
Becomes(m1, m2, W, v) ==
  /\ m2 \in [Addr -> Data]
  /\ \A a \in Addr \ HwRegs : m2[a] = IF a \in W THEN v ELSE m1[a]

Written(o) == IF o.we /\ o \in OkOps THEN {o.addr} ELSE {}

TypeOK ==
  /\ mem \in [Addr -> Data]
  /\ phase \in [Clients -> {"idle", "pending", "done"}]
  /\ op \in [Clients -> Ops]
  /\ res \in [Clients -> Results]

Init ==
  /\ mem \in [Addr -> Data]
  /\ \A a \in Addr \ HwRegs : mem[a] = ResetVal[a]
  /\ phase = [c \in Clients |-> "idle"]
  /\ op \in [Clients -> Ops]
  /\ res \in [Clients -> Results]

Issue(c, o) ==
  /\ phase[c] = "idle"
  /\ phase' = [phase EXCEPT ![c] = "pending"]
  /\ op' = [op EXCEPT ![c] = o]
  /\ res' = [res EXCEPT ![c] = NoResult]
  /\ UNCHANGED mem

\* The access of c takes effect; the clients of R are told their results in
\* the same step (the response channel is independent of the request channel).
Perform(c, R) ==
  /\ phase[c] = "pending"
  /\ Completes(op[c])
  /\ R \subseteq {x \in Clients : phase[x] = "done"}
  /\ Becomes(mem, mem', Written(op[c]), op[c].wdata)
  /\ res' = [res EXCEPT ![c] = ResultOf(op[c], mem)]
  /\ phase' = [x \in Clients |-> IF x = c THEN "done"
                                 ELSE IF x \in R THEN "idle" ELSE phase[x]]
  /\ UNCHANGED op

\* Clients of R are told their results; hardware registers may move.
Reply(R) ==
  /\ R \subseteq {x \in Clients : phase[x] = "done"}
  /\ Becomes(mem, mem', {}, 0)
  /\ phase' = [x \in Clients |-> IF x \in R THEN "idle" ELSE phase[x]]
  /\ UNCHANGED <<op, res>>

Next ==
  \/ \E c \in Clients, o \in Ops : Issue(c, o)
  \/ \E c \in Clients, R \in SUBSET Clients : Perform(c, R)
  \/ \E R \in SUBSET Clients : Reply(R)

Spec == Init /\ [][Next]_absVars

=============================================================================
