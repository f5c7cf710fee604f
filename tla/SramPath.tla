------------------------------ MODULE SramPath ------------------------------
(***************************************************************************)
(* A memory bank seen from the bus: the initiators and the multiplexer of  *)
(* sysctrl_obi_xbar in front of sp_sram, on one clock, out of reset.       *)
(***************************************************************************)
EXTENDS ObiManagers, SpSram

CONSTANTS
  NoData,  \* stands for the unspecified data of an access without data
  RReady   \* the values rready takes: {TRUE} in the SoC, where it is tied

ASSUME SramPathAssumption == NoData \notin Data /\ RReady \subseteq BOOLEAN

VARIABLE stored  \* history: the store on the port is in the array already

vars == <<managerVars, sramVars, stored>>

TypeOK == ManagersTypeOK /\ SramTypeOK /\ stored \in BOOLEAN

Init == ManagersInit /\ SramInit /\ stored = FALSE

\* One clock edge; the initiator takes the response when it has rready up.
ClkWith(rready) ==
  /\ Handshake(req, rready)
  /\ Array(req, Presented)
  /\ ManagersEdge(gnt_reg, rvalid_reg /\ rready, FALSE, rdata)
  /\ stored' = (req /\ Presented.we /\ ~gnt_reg)

Clk == \E rready \in RReady : ClkWith(rready)

Ask(c, o) == Issue(c, o) /\ UNCHANGED <<sramVars, stored>>
Select(c) == Arbitrate(c) /\ UNCHANGED <<sramVars, stored>>

Next ==
  \/ \E c \in Clients, o \in Workload : Ask(c, o)
  \/ \E c \in Clients : Select(c)
  \/ Clk

Spec == Init /\ [][Next]_vars

\* The clock runs, and the multiplexer (round robin) serves every initiator.
Fairness == WF_vars(Clk) /\ \A c \in Clients : SF_vars(Select(c))

FairSpec == Spec /\ Fairness

-----------------------------------------------------------------------------
(* Refinement of AtomicRegs: a store takes effect at the first edge it is   *)
(* on the port, granted or not; a load takes effect when it is granted.     *)
absPhase ==
  [c \in Clients |-> IF mphase[c] = "idle" THEN "idle"
                     ELSE IF mphase[c] = "req" /\ ~(c = sel /\ stored)
                     THEN "pending" ELSE "done"]

Answer(o, e, d) == [err |-> e, data |-> IF ~o.we THEN d ELSE NoData]

absRes ==
  [c \in Clients |->
     IF absPhase[c] = "pending" THEN [err |-> FALSE, data |-> NoData]
     ELSE IF mphase[c] = "idle"
          THEN Answer(mop[c], mres[c].err, mres[c].data)
          ELSE Answer(mop[c], FALSE, rdata)]

LaneOps == {o \in Ops : ~(o.we /\ o.wdata = Keep)}

Atomic == INSTANCE AtomicRegs WITH
  OkOps <- LaneOps, ErrOps <- {}, VoidOps <- Ops \ LaneOps,
  HwRegs <- {}, ResetVal <- [a \in Addr |-> 0],
  mem <- [a \in Addr |-> ram[Word(a)]],
  phase <- absPhase, op <- mop, res <- absRes

\* Every load and store of a bank takes effect atomically and exactly once
\* between its request and its response, although a store that waits behind
\* the answer to another access is written before it is granted and again
\* when it is, and although the data of a load is read from the array after
\* its grant.
ImplementsAtomicRegs == Atomic!Spec

-----------------------------------------------------------------------------
(* The conditions of the SoC: rready is tied to 1, and the addresses in use *)
(* are different words.                                                     *)
Tied == RReady = {TRUE}
DistinctWords == \A a, b \in Addr : Word(a) = Word(b) => a = b

(* The answer that is out belongs to the access of the initiator that waits *)
(* for it: nobody else's request has moved the read address since.          *)
AnswerReadsItsWord ==
  /\ rvalid_reg <=> owner # NoClient
  /\ \A c \in Clients :
       /\ mphase[c] = "wait" <=> c = owner
       /\ c = owner /\ ~mop[c].we => raddr_q = Word(mop[c].addr)

(* The inductive invariant behind the theorems: a store that is ahead of    *)
(* its grant is granted next, and is in the array.                          *)
IInv ==
  /\ TypeOK
  /\ gnt_reg <=> ~rvalid_reg
  /\ AnswerReadsItsWord
  /\ req => mphase[sel] = "req"
  /\ stored => /\ req /\ gnt_reg
               /\ mop[sel].we
               /\ Stored(mop[sel], ram) = ram

(* Every request is answered.                                               *)
EveryAccessAnswered ==
  \A c \in Clients : mphase[c] = "req" ~> mphase[c] = "idle"

=============================================================================
