------------------------------ MODULE ApbPath ------------------------------
(***************************************************************************)
(* One subsystem of the SoC seen from the bus: the initiators and the      *)
(* multiplexer of obi_icn_ss, the OBI-to-APB bridge of the target, and the *)
(* subsystem's APB registers, all on one clock, out of reset.              *)
(***************************************************************************)
EXTENDS ObiManagers, ObiToApb, ApbSubordinate

CONSTANT NoData  \* stands for the unspecified data of an access without data

ASSUME ApbPathAssumption == NoData \notin Data

vars == <<managerVars, bridgeVars, subordinateVars>>

TypeOK == ManagersTypeOK /\ BridgeTypeOK /\ SubordinateTypeOK

Init == ManagersInit /\ BridgeInit /\ SubordinateInit

\* The registers at a clock edge, each from the signals before the edge.
Edge ==
  /\ BridgeEdge(req, PREADY, PRDATA, PSLVERR)
  /\ SubordinateEdge(req, Presented)
  /\ ManagersEdge(gnt(PREADY), rvalid, err, data)

\* The clock edge in each state of the bridge.
ClkSetup == state = "SETUP" /\ Edge
ClkAccess == state = "ACCESS" /\ Edge
ClkHandshake == state = "HANDSHAKE" /\ Edge
Clk == ClkSetup \/ ClkAccess \/ ClkHandshake

Ask(c, o) == Issue(c, o) /\ UNCHANGED <<bridgeVars, subordinateVars>>
Select(c) == Arbitrate(c) /\ UNCHANGED <<bridgeVars, subordinateVars>>

Next ==
  \/ \E c \in Clients, o \in Workload : Ask(c, o)
  \/ \E c \in Clients : Select(c)
  \/ Clk

Spec == Init /\ [][Next]_vars

\* The clock runs, and the multiplexer (round robin) serves every initiator.
Fairness == WF_vars(Clk) /\ \A c \in Clients : SF_vars(Select(c))

FairSpec == Spec /\ Fairness

-----------------------------------------------------------------------------
(***************************************************************************)
(* Refinement of AtomicRegs.  The subsystem performs the access presented  *)
(* to it at the edge where PREADY rises, and its initiator is told in the  *)
(* handshake cycle; in between the result sits in the APB response         *)
(* registers, then in the bridge's.                                        *)
(***************************************************************************)
OutcomeOf(o) == Outcome(o.we, o.addr)
OpsWith(outcome) == {o \in Ops : OutcomeOf(o) = outcome}

absPhase ==
  [c \in Clients |-> CASE mphase[c] = "idle"                     -> "idle"
                       [] mphase[c] = "req" /\ ~(c = sel /\ PREADY) -> "pending"
                       [] OTHER                                  -> "done"]

\* rdata means something in the response of a successful read only.
Answer(o, e, d) ==
  [ err  |-> e,
    data |-> IF ~o.we /\ OutcomeOf(o) = "ok" THEN d ELSE NoData ]

absRes ==
  [c \in Clients |->
     CASE absPhase[c] = "pending" -> [err |-> FALSE, data |-> NoData]
       [] mphase[c] = "idle" -> Answer(mop[c], mres[c].err, mres[c].data)
       [] mphase[c] = "wait" -> Answer(mop[c], err, data)
       [] OTHER              -> Answer(mop[c], PSLVERR, PRDATA)]

Atomic == INSTANCE AtomicRegs WITH
  OkOps <- OpsWith("ok"), ErrOps <- OpsWith("err"), VoidOps <- {},
  HwRegs <- Sampled, ResetVal <- [a \in Addr |-> 0],
  mem <- regs, phase <- absPhase, op <- mop, res <- absRes

\* Every access of every initiator takes effect atomically and exactly once
\* between its request and its response, whatever the other initiator does
\* meanwhile and however closely the accesses follow one another, although
\* the subsystem acts in the setup phase and the bridge answers later from
\* registers it loads at every edge.
ImplementsAtomicRegs == Atomic!Spec

-----------------------------------------------------------------------------
(* The subsystem's answer is never older than the access on the bus: PREADY *)
(* is up only while that access is in its access phase, and says what the   *)
(* decoder says about that very access.  A PREADY left over from an earlier *)
(* access would grant the next one without performing it.                   *)
AnswerBelongsToAccess ==
  PREADY => /\ state = "ACCESS" /\ req
            /\ OutcomeOf(Presented) # "none"
            /\ PSLVERR = (OutcomeOf(Presented) = "err")

(* A subsystem that decodes an access never inserts a wait state: an access *)
(* phase that is still waiting is one that will wait for ever.              *)
WaitingMeansUndecoded ==
  state = "ACCESS" /\ ~PREADY => req /\ OutcomeOf(Presented) = "none"

(* The multiplexer never forwards a second grant before the first one has   *)
(* been answered, so a response always has exactly one taker.               *)
OneOutstanding ==
  /\ rvalid <=> owner # NoClient
  /\ \A c \in Clients : mphase[c] = "wait" <=> c = owner

(* The inductive invariant behind the theorems: the three invariants above, *)
(* and that the multiplexer keeps presenting a request that is still raised *)
(* and that PSLVERR never stands alone.                                     *)
IInv ==
  /\ TypeOK
  /\ AnswerBelongsToAccess
  /\ WaitingMeansUndecoded
  /\ OneOutstanding
  /\ req => mphase[sel] = "req"
  /\ PSLVERR => PREADY

(* Every request is answered, unless an access that the subsystem does not  *)
(* decode gets onto the bus, where it stays for ever.                       *)
EveryAccessAnswered ==
  \A c \in Clients :
    mphase[c] = "req" ~> mphase[c] = "idle" \/ (req /\ OutcomeOf(Presented) = "none")

=============================================================================
