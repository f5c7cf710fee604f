---------------------------- MODULE ObiManagers ----------------------------
(***************************************************************************)
(* The initiators of an OBI bus and the multiplexer in front of one of its *)
(* targets.  The crossbar (obi_xbar_intf, external IP) is configured with  *)
(* NumMaxTrans = 1: an initiator has one access under way, and the         *)
(* multiplexer keeps presenting the request it selected until the target   *)
(* grants it, then remembers whose response comes next.                    *)
(* rready of every target is tied to 1, so a response lasts one cycle.     *)
(***************************************************************************)
EXTENDS BusTypes

CONSTANTS
  Clients,   \* initiators: the core's data port, the debug module
  NoClient,  \* nobody
  Workload   \* the accesses the initiators may ask for

ASSUME ObiManagersAssumption ==
  /\ NoClient \notin Clients
  /\ Workload # {} /\ Workload \subseteq Ops

VARIABLES
  mphase,  \* mphase[c]: "idle", "req" (request raised), "wait" (granted)
  mop,     \* mop[c]: address-channel signals of c's access
  mres,    \* mres[c]: err and rdata of the response c received last
  sel,     \* whose request the multiplexer presents to the target
  owner    \* whose response the target is about to give

managerVars == <<mphase, mop, mres, sel, owner>>

ManagersTypeOK ==
  /\ mphase \in [Clients -> {"idle", "req", "wait"}]
  /\ mop \in [Clients -> Ops]
  /\ mres \in [Clients -> [err : BOOLEAN, data : Data]]
  /\ sel \in Clients \cup {NoClient}
  /\ owner \in Clients \cup {NoClient}

ManagersInit ==
  /\ mphase = [c \in Clients |-> "idle"]
  /\ mop = [c \in Clients |-> CHOOSE o \in Workload : TRUE]
  /\ mres = [c \in Clients |-> [err |-> FALSE, data |-> 0]]
  /\ sel = NoClient
  /\ owner = NoClient

\* An initiator raises req and drives addr, we and wdata.
Issue(c, o) ==
  /\ mphase[c] = "idle"
  /\ mphase' = [mphase EXCEPT ![c] = "req"]
  /\ mop' = [mop EXCEPT ![c] = o]
  /\ UNCHANGED <<mres, sel, owner>>

\* The multiplexer locks on one of the raised requests.
Arbitrate(c) ==
  /\ sel = NoClient
  /\ mphase[c] = "req"
  /\ sel' = c
  /\ UNCHANGED <<mphase, mop, mres, owner>>

\* What the target sees: req, and the address channel of the selected access.
req == sel # NoClient
Presented == mop[sel]

\* A clock edge, given the target's gnt, rvalid, err and rdata in that cycle.
ManagersEdge(gnt, rvalid, err, rdata) ==
  /\ mphase' = [c \in Clients |->
                  IF gnt /\ c = sel THEN "wait"
                  ELSE IF rvalid /\ c = owner THEN "idle" ELSE mphase[c]]
  /\ mres' = [c \in Clients |-> IF rvalid /\ c = owner
                                THEN [err |-> err, data |-> rdata]
                                ELSE mres[c]]
  /\ sel' = IF gnt THEN NoClient ELSE sel
  /\ owner' = IF gnt THEN sel ELSE IF rvalid THEN NoClient ELSE owner
  /\ UNCHANGED mop

=============================================================================
