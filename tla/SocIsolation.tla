---------------------------- MODULE SocIsolation ----------------------------
(***************************************************************************)
(* Isolation of the subsystems: the drivers of soc_ctrl.h switch the reset *)
(* and the clock gate of each subsystem through RST_CTRL and SSk_CTRL,     *)
(* while accesses to subsystems travel through obi_icn_ss (itself reset by *)
(* bit 0 of RST_CTRL) and its OBI-to-APB bridges.                          *)
(*                                                                         *)
(* An access names a subsystem only (Addr are the subsystem numbers); what *)
(* a released and clocked subsystem does with an access is ApbPath's       *)
(* subject, and here it simply performs it.  Accesses to the control       *)
(* registers are atomic, which is CtrlPath's result.  A register is the    *)
(* set of the numbers of its 1 bits.                                       *)
(***************************************************************************)
EXTENDS ObiManagers, BridgeFsm

CONSTANTS
  Tieoffs,        \* subsystems that are tied off: PREADY is 'd0
  Configurators,  \* the initiators that run the drivers
  Users,          \* the initiators that access subsystems
  Procedures      \* the driver calls they make: see AllProcedures

Subsystems == Addr

AllProcedures ==
  {"ss_init", "ss_init_high_speed", "ss_reset", "reset_all", "irq_enable"}

ASSUME SocIsolationAssumption ==
  /\ Subsystems \subseteq Nat
  /\ Tieoffs \subseteq Subsystems
  /\ Configurators \subseteq Clients /\ Users \subseteq Clients
  /\ Procedures \subseteq AllProcedures

VARIABLES
  rst,        \* ss_rst_reg: bit 0 releases the ICN, bit k+1 subsystem k
  ss_ctrl,    \* ss_ctrl[k]: ss_k_ctrl_reg
  call,       \* call[a]: the driver call initiator a is in, and where
  mask,       \* mask[a]: its local variable
  bridge,     \* bridge[k]: state_q of the bridge of subsystem k
  PREADY,     \* PREADY[k]: the response register of subsystem k
  performed   \* history: how often the access on the bus was performed since
              \* it was selected (counted to 2) and since the subsystem's reset

registerVars == <<rst, ss_ctrl>>
driverVars == <<call, mask>>
icnVars == <<bridge, PREADY, performed>>
vars == <<managerVars, registerVars, driverVars, icnVars>>

IcnBit == 0
SsBit(k) == k + 1
ClkBit == 0
HighSpeedBit == 1
IrqBit == 31

RstBits == {IcnBit} \cup {SsBit(k) : k \in Subsystems}
CtrlBits == {ClkBit, HighSpeedBit, IrqBit}

Pcs == {"none", "read_rst", "write_rst", "read_ctrl", "write_ctrl"}

TypeOK ==
  /\ ManagersTypeOK
  /\ rst \subseteq RstBits
  /\ ss_ctrl \in [Subsystems -> SUBSET CtrlBits]
  /\ call \in [Clients -> [proc : AllProcedures, ss : Subsystems, pc : Pcs]]
  /\ mask \in [Clients -> SUBSET (RstBits \cup CtrlBits)]
  /\ bridge \in [Subsystems -> States]
  /\ PREADY \in [Subsystems -> BOOLEAN]
  /\ performed \in 0 .. 2

Init ==
  /\ ManagersInit
  /\ rst = {}
  /\ ss_ctrl = [k \in Subsystems |-> {}]
  /\ call \in {[c \in Clients |-> [proc |-> "ss_init", ss |-> k, pc |-> "none"]] :
                 k \in Subsystems}
  /\ mask = [c \in Clients |-> {}]
  /\ bridge = [k \in Subsystems |-> "SETUP"]
  /\ PREADY = [k \in Subsystems |-> FALSE]
  /\ performed = 0

-----------------------------------------------------------------------------
(* The drivers.                                                             *)

\* An initiator is busy with one thing at a time: a driver or an access.
Free(a) == call[a].pc = "none" /\ mphase[a] = "idle"

\* The first load or store of a driver.  irq_enable is no driver of soc_ctrl.h,
\* which has none for the interrupt enable, but what a program has to do for
\* itself: set bit 31 of SSk_CTRL.
Entry(p) ==
  IF p = "irq_enable" THEN "read_ctrl"
  ELSE IF p = "reset_all" THEN "write_rst" ELSE "read_rst"

\* Deviations of the drivers the runs detect: the old value lost by ss_init;
\* the wrong shift; the interconnect put into reset by ss_reset; a subsystem that ss_reset gates but does not reset.
NewRstMaskLost(p, t, m) ==
  IF p = "reset_all" THEN {}
  ELSE IF p = "ss_reset" THEN m \ {SsBit(t)} ELSE {SsBit(t), IcnBit}

NewRstWrongShift(p, t, m) ==
  IF p = "reset_all" THEN {}
  ELSE IF p = "ss_reset" THEN m \ {SsBit(t)} ELSE m \cup {t, IcnBit}

NewRstShiftTooFar(p, t, m) ==
  IF p = "reset_all" THEN {}
  ELSE IF p = "ss_reset" THEN m \ {SsBit(t)} ELSE m \cup {t + 2, IcnBit}

NewRstIcnCleared(p, t, m) ==
  IF p = "reset_all" THEN {}
  ELSE IF p = "ss_reset" THEN m \ {SsBit(t), IcnBit}
  ELSE m \cup {SsBit(t), IcnBit}

NewRstGateOnly(p, t, m) ==
  IF p = "reset_all" THEN {}
  ELSE IF p = "ss_reset" THEN m ELSE m \cup {SsBit(t), IcnBit}

NewRst(p, t, m) ==
  IF p = "reset_all" THEN {}
  ELSE IF p = "ss_reset" THEN m \ {SsBit(t)}
  ELSE m \cup {SsBit(t), IcnBit}

NewCtrl(p, m) ==
  IF p = "ss_init" THEN m \cup {ClkBit}
  ELSE IF p = "ss_init_high_speed" THEN m \cup {HighSpeedBit}
  ELSE IF p = "irq_enable" THEN m \cup {IrqBit}
  ELSE m \ {ClkBit, HighSpeedBit}

\* reset_all has no target; its loop starts at the first subsystem.
Call(a, p, t) ==
  /\ Free(a)
  /\ p = "reset_all" => \A k \in Subsystems : t <= k
  /\ call' = [call EXCEPT ![a] = [proc |-> p, ss |-> t, pc |-> Entry(p)]]
  /\ UNCHANGED <<managerVars, registerVars, mask, icnVars>>

Goto(a, pc) == call' = [call EXCEPT ![a].pc = pc]

\* mask = RST_CTRL
ReadRst(a) ==
  /\ call[a].pc = "read_rst"
  /\ mask' = [mask EXCEPT ![a] = rst]
  /\ Goto(a, "write_rst")
  /\ UNCHANGED <<managerVars, registerVars, icnVars>>

\* The resets are asynchronous: what the new value r leaves in reset clears.
Presents(k) == req /\ Presented.addr = k

ApplyResets(r) ==
  /\ bridge' = IF IcnBit \in r THEN bridge ELSE [k \in Subsystems |-> "SETUP"]
  /\ PREADY' = [k \in Subsystems |-> SsBit(k) \in r /\ PREADY[k]]
  /\ performed' = IF \E k \in Subsystems : Presents(k) /\ SsBit(k) \notin r
                  THEN 0 ELSE performed

\* RST_CTRL = f(mask); reset_all goes on to clear every SSk_CTRL in turn.
WriteRst(a) ==
  /\ call[a].pc = "write_rst"
  /\ rst' = NewRst(call[a].proc, call[a].ss, mask[a])
  /\ ApplyResets(rst')
  /\ Goto(a, "read_ctrl")
  /\ UNCHANGED <<managerVars, ss_ctrl, mask>>

\* mask = SSk_CTRL
ReadCtrl(a) ==
  /\ call[a].pc = "read_ctrl"
  /\ mask' = [mask EXCEPT ![a] = ss_ctrl[call[a].ss]]
  /\ Goto(a, "write_ctrl")
  /\ UNCHANGED <<managerVars, registerVars, icnVars>>

\* The subsystem a loop over all of them comes to after k.
IsNext(k, n) ==
  n \in Subsystems /\ n > k /\ \A j \in Subsystems : j > k => j >= n

\* SSk_CTRL = f(mask), and return, or the next subsystem.
WriteCtrl(a) ==
  LET p == call[a].proc
      k == call[a].ss
  IN /\ call[a].pc = "write_ctrl"
     /\ ss_ctrl' = [ss_ctrl EXCEPT ![k] = NewCtrl(p, mask[a])]
     /\ \/ /\ p = "reset_all"
           /\ \E n \in Subsystems :
                /\ IsNext(k, n)
                /\ call' = [call EXCEPT ![a] = [proc |-> p, ss |-> n,
                                                pc |-> "read_ctrl"]]
        \/ /\ p = "reset_all" => \A n \in Subsystems : ~IsNext(k, n)
           /\ Goto(a, "none")
     /\ UNCHANGED <<managerVars, rst, mask, icnVars>>

Step(a) == ReadRst(a) \/ WriteRst(a) \/ ReadCtrl(a) \/ WriteCtrl(a)

-----------------------------------------------------------------------------
(* The interconnect and the subsystems.                                     *)

\* The registers of subsystem k move: out of reset, and the clock gate open.
Clocked(k) == SsBit(k) \in rst /\ ClkBit \in ss_ctrl[k]

\* Deviation the runs detect: a subsystem that acts in the setup phase only.
PerformsInSetup(k) ==
  /\ Presents(k) /\ Clocked(k) /\ ~PREADY[k] /\ k \notin Tieoffs
  /\ bridge[k] = "SETUP"

Performs(k) == Presents(k) /\ Clocked(k) /\ ~PREADY[k] /\ k \notin Tieoffs

NextPready(k) == IF Clocked(k) THEN Performs(k) ELSE PREADY[k]

NextBridge(k) ==
  IF IcnBit \in rst THEN NextState(bridge[k], Presents(k), PREADY[k])
                    ELSE "SETUP"

Granted == \E k \in Subsystems : Presents(k) /\ Grants(bridge[k], PREADY[k])
Answered == \E k \in Subsystems : Responds(bridge[k])

\* The clock edge of the interconnect and of the subsystems that are clocked.
Clk ==
  /\ bridge' = [k \in Subsystems |-> NextBridge(k)]
  /\ PREADY' = [k \in Subsystems |-> NextPready(k)]
  /\ performed' = IF Granted THEN 0
                  ELSE IF \E k \in Subsystems : Performs(k) /\ performed < 2
                  THEN performed + 1 ELSE performed
  /\ ManagersEdge(Granted, Answered, FALSE, 0)
  /\ UNCHANGED <<registerVars, driverVars>>

Ask(a, o) ==
  /\ Free(a)
  /\ Issue(a, o)
  /\ UNCHANGED <<registerVars, driverVars, icnVars>>

Select(a) == Arbitrate(a) /\ UNCHANGED <<registerVars, driverVars, icnVars>>

Next ==
  \/ \E a \in Configurators, p \in Procedures, t \in Subsystems : Call(a, p, t)
  \/ \E a \in Configurators : Step(a)
  \/ \E a \in Users, o \in Workload : Ask(a, o)
  \/ \E a \in Users : Select(a)
  \/ Clk

Spec == Init /\ [][Next]_vars

\* The clock runs, the multiplexer serves every initiator, and a program that
\* has entered a driver runs on.
Fairness ==
  /\ WF_vars(Clk)
  /\ \A a \in Users : SF_vars(Select(a))
  /\ \A a \in Configurators : WF_vars(Step(a))

FairSpec == Spec /\ Fairness

-----------------------------------------------------------------------------
Isolated(k) == ~Clocked(k) \/ IcnBit \notin rst \/ k \in Tieoffs

(* An access that is granted has been performed, and once: no reset or      *)
(* clock gate that hits the subsystem in the middle of an access leaves a   *)
(* PREADY behind that grants the next one, and none makes it act twice.     *)
GrantedExactlyOnce == Granted => performed = 1

(* An initiator that has been granted its access gets its response: the     *)
(* bridge that has it is never reset away.                                  *)
ResponseNotLost ==
  \A a \in Clients : mphase[a] = "wait" =>
     a = owner /\ \E k \in Subsystems :
                    bridge[k] = "HANDSHAKE" /\ mop[a].addr = k

(* Each subsystem is controlled separately: a driver call for one subsystem *)
(* never opens or closes the access to another.                             *)
SeparatelyControlled ==
  [][\A a \in Configurators, k \in Subsystems :
       Step(a) /\ call[a].proc # "reset_all" /\ k # call[a].ss
       => Isolated(k)' = Isolated(k)]_vars

(* When ss_init returns, its subsystem can be accessed.                     *)
InitOpens ==
  [][\A a \in Configurators, k \in Subsystems :
       /\ call[a].proc = "ss_init" /\ call[a].ss = k
       /\ call[a].pc # "none" /\ call'[a].pc = "none"
       => Isolated(k)' = (k \in Tieoffs)]_vars

(***************************************************************************)
(* The inductive invariant behind the theorems, for one configurator.      *)
(***************************************************************************)
SoleConfigurator == \A a, b \in Configurators : a = b

\* A driver knows the registers it has read and written so far.
DriverInv ==
  \A a \in Clients :
    LET p == call[a].proc  k == call[a].ss  pc == call[a].pc IN
    /\ a \notin Configurators => pc = "none"
    /\ p = "reset_all" => pc # "read_rst"
    /\ pc = "write_rst" /\ p # "reset_all" => mask[a] = rst
    /\ pc = "write_ctrl" => mask[a] = ss_ctrl[k]
    /\ pc \in {"read_ctrl", "write_ctrl"} =>
         /\ p \in {"ss_init", "ss_init_high_speed"} =>
              SsBit(k) \in rst /\ IcnBit \in rst
         /\ p = "ss_reset" => SsBit(k) \notin rst
         /\ p = "reset_all" => rst = {}

\* PREADY is up only for the access on the bus, which its subsystem has
\* performed once and is still clocked to withdraw it.
PreadyInv ==
  /\ \A k \in Subsystems :
       /\ SsBit(k) \in rst => IcnBit \in rst
       /\ PREADY[k] => /\ Clocked(k) /\ Presents(k)
                       /\ bridge[k] = "ACCESS" /\ performed = 1
  /\ performed # 0 => \E k \in Subsystems : PREADY[k]
  /\ req => mphase[sel] = "req"
  /\ owner # NoClient => mphase[owner] = "wait"

IInv == TypeOK /\ DriverInv /\ PreadyInv

\* A bridge in its handshake has the response of the owner, and no other
\* access can be granted in that cycle.
ResponseInv ==
  /\ \A a \in Clients : call[a].proc # "reset_all"
  /\ ResponseNotLost
  /\ \A k \in Subsystems : bridge[k] = "HANDSHAKE" =>
       IcnBit \in rst /\ \A j \in Subsystems : ~PREADY[j]

(* Nothing but an isolated subsystem keeps an access waiting, and an access *)
(* it has kept waiting completes once the subsystem is opened.              *)
OnlyIsolationBlocks ==
  \A a \in Users :
    mphase[a] = "req" ~>
      \/ mphase[a] = "idle"
      \/ \E b \in Users : mphase[b] = "req" /\ Isolated(mop[b].addr)

(* architecture.md: isolation is a "safety mechanism to avoid faut          *)
(* propagation".  Taken at its word: an access to a subsystem that stays    *)
(* open completes, whatever is done to isolated ones.                       *)
IsolationContainsFaults ==
  \A a \in Users :
    mphase[a] = "req" ~>
      mphase[a] = "idle" \/ Isolated(mop[a].addr)

(* soc_ctrl.h: "reset: reset + clock/high speed clock disabled + irq        *)
(* disabled".  Taken at its word: when ss_reset returns, all three are off. *)
ResetDisablesAll ==
  [][\A a \in Configurators :
       call[a].proc = "ss_reset" /\ call[a].pc # "none" /\ call'[a].pc = "none"
       => ss_ctrl'[call[a].ss] \cap CtrlBits = {}]_vars

=============================================================================
