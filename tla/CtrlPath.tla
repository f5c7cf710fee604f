------------------------------ MODULE CtrlPath ------------------------------
(***************************************************************************)
(* The control registers seen from the bus: the initiators and the         *)
(* multiplexer of sysctrl_obi_xbar in front of SS_Ctrl_reg_array, on one   *)
(* clock, out of reset.                                                    *)
(***************************************************************************)
EXTENDS ObiManagers, CtrlRegArray

CONSTANTS
  NoData,  \* stands for the unspecified data of an access without data
  RReady   \* the values rready takes: {TRUE} in the SoC, where it is tied

ASSUME CtrlPathAssumption ==
  /\ NoData \notin Data
  /\ RReady \subseteq BOOLEAN
  /\ \A a \in Addr : ResetValue(a) \in Data

vars == <<managerVars, ctrlVars>>

TypeOK == ManagersTypeOK /\ CtrlTypeOK

Init == ManagersInit /\ CtrlInit

\* One clock edge; the initiator takes the response when it has rready up.
ClkWith(rready) ==
  /\ CtrlEdge(req, Presented, rready)
  /\ ManagersEdge(gnt_reg, rvalid_reg /\ rready, FALSE, rdata_out_reg)

Clk == \E rready \in RReady : ClkWith(rready)

Ask(c, o) == Issue(c, o) /\ UNCHANGED ctrlVars
Select(c) == Arbitrate(c) /\ UNCHANGED ctrlVars

Next ==
  \/ \E c \in Clients, o \in Workload : Ask(c, o)
  \/ \E c \in Clients : Select(c)
  \/ Clk

Spec == Init /\ [][Next]_vars

\* The clock runs, an initiator has rready up in the end, and the multiplexer
\* (round robin) serves every initiator.
Fairness == WF_vars(ClkWith(TRUE)) /\ \A c \in Clients : SF_vars(Select(c))

FairSpec == Spec /\ Fairness

-----------------------------------------------------------------------------
(* Refinement of AtomicRegs: an access takes effect in the cycle it is      *)
(* granted.                                                                 *)
absPhase ==
  [c \in Clients |-> IF mphase[c] = "idle" THEN "idle"
                     ELSE IF mphase[c] = "req" THEN "pending" ELSE "done"]

Answer(o, e, d) ==
  [ err |-> e, data |-> IF ~o.we /\ Mapped(o.addr) THEN d ELSE NoData ]

absRes ==
  [c \in Clients |->
     IF mphase[c] = "req" THEN [err |-> FALSE, data |-> NoData]
     ELSE IF mphase[c] = "idle"
          THEN Answer(mop[c], mres[c].err, mres[c].data)
          ELSE Answer(mop[c], FALSE, rdata_out_reg)]

MappedOps == {o \in Ops : Mapped(o.addr)}
UnmappedOps == {o \in Ops : ~Mapped(o.addr)}

Atomic == INSTANCE AtomicRegs WITH
  OkOps <- MappedOps, ErrOps <- {}, VoidOps <- UnmappedOps,
  HwRegs <- {}, ResetVal <- [a \in Addr |-> ResetValue(a)],
  mem <- ctrl, phase <- absPhase, op <- mop, res <- absRes

\* Every access to the control registers takes effect atomically and exactly
\* once between its request and its response, and a read returns the register
\* of that instant, although a request stays up over two cycles when it
\* arrives in the response cycle of the previous one, and although the
\* initiator may keep the response waiting.
ImplementsAtomicRegs == Atomic!Spec

-----------------------------------------------------------------------------
(* The block grants exactly when it has no answer out.  The register write  *)
(* is enabled by rvalid_reg and the handshake by gnt_reg: were the two ever *)
(* both low, a request would be performed but never granted in that cycle,  *)
(* and performed again in the next.                                         *)
GrantMeansFree == gnt_reg <=> ~rvalid_reg

(* An answer is out exactly while an initiator waits for one, so that it    *)
(* always has one taker.                                                    *)
AnswerHasTaker ==
  /\ rvalid_reg <=> owner # NoClient
  /\ \A c \in Clients : mphase[c] = "wait" <=> c = owner

(* The inductive invariant behind the theorems.                             *)
IInv ==
  /\ TypeOK
  /\ GrantMeansFree
  /\ AnswerHasTaker
  /\ req => mphase[sel] = "req"

(* Every request is answered, also one to an offset without a register.     *)
EveryAccessAnswered ==
  \A c \in Clients : mphase[c] = "req" ~> mphase[c] = "idle"

=============================================================================
