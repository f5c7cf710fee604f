------------------------ MODULE SocIsolation_proofs ------------------------
(***************************************************************************)
(* Proofs about SocIsolation, for any number of initiators and subsystems, *)
(* when one initiator at a time runs the drivers.                          *)
(***************************************************************************)
EXTENDS SocIsolation, TLAPS

(* The bit numbers of RST_CTRL are different bits.                         *)
LEMMA Bits ==
  ASSUME NEW k \in Subsystems
  PROVE  /\ SsBit(k) # IcnBit /\ SsBit(k) \in RstBits /\ IcnBit \in RstBits
         /\ \A j \in Subsystems : SsBit(j) = SsBit(k) => j = k
BY SocIsolationAssumption DEF SsBit, IcnBit, RstBits, Subsystems

LEMMA InitIInv == Init => IInv
<1> SUFFICES ASSUME Init PROVE IInv
  OBVIOUS
<1> USE ObiManagersAssumption, BusTypesAssumption DEF Init, ManagersInit
<1>1. (CHOOSE o \in Workload : TRUE) \in Ops
  OBVIOUS
<1>2. ManagersTypeOK
  BY <1>1 DEF ManagersTypeOK
<1>3. PICK k \in Subsystems :
        call = [c \in Clients |-> [proc |-> "ss_init", ss |-> k, pc |-> "none"]]
  OBVIOUS
<1>4. TypeOK
  BY <1>2, <1>3 DEF TypeOK, States, Pcs, AllProcedures, RstBits, CtrlBits
<1>5. DriverInv
  BY <1>3 DEF DriverInv
<1>6. PreadyInv
  BY DEF PreadyInv, req
<1> QED BY <1>4, <1>5, <1>6 DEF IInv

(***************************************************************************)
(* Drivers.                                                                *)
(***************************************************************************)

(* The values a driver writes are register values.                         *)
LEMMA WrittenTypes ==
  ASSUME NEW p \in AllProcedures, NEW t \in Subsystems, NEW m
  PROVE  /\ m \subseteq RstBits => NewRst(p, t, m) \subseteq RstBits
         /\ m \subseteq CtrlBits => NewCtrl(p, m) \subseteq CtrlBits
BY Bits DEF NewRst, NewCtrl, CtrlBits, ClkBit, HighSpeedBit, IrqBit

(* What the configurator's write to RST_CTRL does to it.                    *)
LEMMA NewRstValue ==
  ASSUME IInv, NEW a \in Clients, call[a].pc = "write_rst"
  PROVE  LET r == NewRst(call[a].proc, call[a].ss, mask[a])
             k == call[a].ss
         IN /\ call[a].proc = "reset_all" => r = {}
            /\ call[a].proc = "ss_reset" => r = rst \ {SsBit(k)}
            /\ call[a].proc \notin {"reset_all", "ss_reset"} =>
                 r = rst \cup {SsBit(k), IcnBit}
            /\ r \subseteq RstBits
<1> USE DEF IInv, TypeOK
<1>1. call[a].proc # "reset_all" => mask[a] = rst
  BY DEF DriverInv
<1>2. call[a].proc \in AllProcedures /\ call[a].ss \in Subsystems
  OBVIOUS
<1>3. NewRst(call[a].proc, call[a].ss, mask[a]) \subseteq RstBits
  <2>1. CASE call[a].proc = "reset_all"
    BY <2>1 DEF NewRst
  <2>2. CASE call[a].proc # "reset_all"
    BY <1>1, <1>2, <2>2, WrittenTypes
  <2> QED BY <2>1, <2>2
<1> QED BY <1>1, <1>3 DEF NewRst

(* A write to RST_CTRL keeps PREADY for the access on the bus only.        *)
LEMMA WriteRstPready ==
  ASSUME IInv, NEW a \in Clients, WriteRst(a)
  PROVE  PreadyInv'
<1> USE DEF IInv, TypeOK, ManagersTypeOK
<1> DEFINE p == call[a].proc  t == call[a].ss
<1>1. /\ t \in Subsystems /\ p \in AllProcedures
      /\ UNCHANGED <<mphase, mop, sel, owner, ss_ctrl>>
      /\ ApplyResets(rst')
  BY DEF WriteRst, managerVars
<1>2. /\ p = "reset_all" => rst' = {}
      /\ p = "ss_reset" => rst' = rst \ {SsBit(t)}
      /\ p \notin {"reset_all", "ss_reset"} => rst' = rst \cup {SsBit(t), IcnBit}
  BY NewRstValue DEF WriteRst
<1>3. ASSUME NEW k \in Subsystems
      PROVE  /\ SsBit(k) \in rst' => IcnBit \in rst'
             /\ PREADY'[k] <=> SsBit(k) \in rst' /\ PREADY[k]
             /\ Presents(k)' <=> Presents(k)
  <2>1. SsBit(k) \in rst' => IcnBit \in rst'
    BY <1>1, <1>2, Bits DEF PreadyInv
  <2>2. PREADY'[k] <=> SsBit(k) \in rst' /\ PREADY[k]
    BY <1>1 DEF ApplyResets
  <2>3. Presents(k)' <=> Presents(k)
    BY <1>1 DEF Presents, req, Presented
  <2> QED BY <2>1, <2>2, <2>3
<1>4. ASSUME NEW k \in Subsystems, PREADY'[k]
      PROVE  /\ Clocked(k)' /\ Presents(k)'
             /\ bridge'[k] = "ACCESS" /\ performed' = 1
  <2>1. /\ PREADY[k] /\ Clocked(k) /\ Presents(k)
        /\ bridge[k] = "ACCESS" /\ performed = 1
        /\ SsBit(k) \in rst' /\ IcnBit \in rst'
    BY <1>3, <1>4 DEF PreadyInv
  <2>2. \A j \in Subsystems : Presents(j) => j = k
    BY <2>1 DEF Presents
  <2>3. bridge' = bridge /\ performed' = performed
    BY <1>1, <2>1, <2>2 DEF ApplyResets
  <2> QED BY <1>1, <1>3, <2>1, <2>3 DEF Clocked
<1>5. performed' # 0 => \E k \in Subsystems : PREADY'[k]
  <2>1. SUFFICES ASSUME performed' # 0 PROVE \E k \in Subsystems : PREADY'[k]
    OBVIOUS
  <2>2. /\ performed' = performed
        /\ ~ \E k \in Subsystems : Presents(k) /\ SsBit(k) \notin rst'
    BY <1>1, <2>1 DEF ApplyResets
  <2>3. PICK k \in Subsystems : PREADY[k]
    BY <2>1, <2>2 DEF PreadyInv
  <2>4. Presents(k)
    BY <2>3 DEF PreadyInv
  <2> QED BY <1>3, <2>2, <2>3, <2>4
<1>6. (req => mphase[sel] = "req")' /\ (owner # NoClient => mphase[owner] = "wait")'
  BY <1>1 DEF PreadyInv, req
<1> QED BY <1>3, <1>4, <1>5, <1>6 DEF PreadyInv

(* The other initiators are in no driver.                                  *)
LEMMA OthersIdle ==
  ASSUME SoleConfigurator, IInv, NEW a \in Configurators, NEW b \in Clients, a # b
  PROVE  call[b].pc = "none"
BY DEF SoleConfigurator, IInv, DriverInv

(* Each load and store of a driver preserves the invariant.                *)
LEMMA ReadRstIInv ==
  ASSUME SoleConfigurator, IInv, NEW a \in Configurators, ReadRst(a)
  PROVE  IInv'
<1> USE SocIsolationAssumption DEF IInv, TypeOK
<1>1. /\ a \in Clients /\ call[a].pc = "read_rst"
      /\ mask' = [mask EXCEPT ![a] = rst]
      /\ call' = [call EXCEPT ![a].pc = "write_rst"]
      /\ UNCHANGED <<managerVars, registerVars, icnVars>>
  BY DEF ReadRst, Goto
<1>2. UNCHANGED <<mphase, mop, mres, sel, owner, rst, ss_ctrl, bridge, PREADY,
                  performed>>
  BY <1>1 DEF managerVars, registerVars, icnVars
<1>3. TypeOK'
  BY <1>1, <1>2 DEF ManagersTypeOK, Pcs
<1>4. DriverInv'
  <2>1. ASSUME NEW b \in Clients
        PROVE  /\ b # a => call'[b] = call[b] /\ mask'[b] = mask[b]
               /\ call'[a].pc = "write_rst" /\ mask'[a] = rst
               /\ call'[a].proc = call[a].proc /\ call'[a].ss = call[a].ss
    BY <1>1
  <2> QED BY <1>1, <1>2, <2>1 DEF DriverInv
<1>5. PreadyInv'
  BY <1>2 DEF PreadyInv, Clocked, Presents, req, Presented
<1> QED BY <1>3, <1>4, <1>5

LEMMA ReadCtrlIInv ==
  ASSUME SoleConfigurator, IInv, NEW a \in Configurators, ReadCtrl(a)
  PROVE  IInv'
<1> USE SocIsolationAssumption DEF IInv, TypeOK
<1>1. /\ a \in Clients /\ call[a].pc = "read_ctrl"
      /\ mask' = [mask EXCEPT ![a] = ss_ctrl[call[a].ss]]
      /\ call' = [call EXCEPT ![a].pc = "write_ctrl"]
      /\ UNCHANGED <<managerVars, registerVars, icnVars>>
  BY DEF ReadCtrl, Goto
<1>2. UNCHANGED <<mphase, mop, mres, sel, owner, rst, ss_ctrl, bridge, PREADY,
                  performed>>
  BY <1>1 DEF managerVars, registerVars, icnVars
<1>3. TypeOK'
  <2>1. ss_ctrl[call[a].ss] \in SUBSET (RstBits \cup CtrlBits)
    BY <1>1
  <2> QED BY <1>1, <1>2, <2>1 DEF ManagersTypeOK, Pcs
<1>4. DriverInv'
  <2>1. ASSUME NEW b \in Clients
        PROVE  /\ b # a => call'[b] = call[b] /\ mask'[b] = mask[b]
               /\ call'[a].pc = "write_ctrl" /\ mask'[a] = ss_ctrl[call[a].ss]
               /\ call'[a].proc = call[a].proc /\ call'[a].ss = call[a].ss
    BY <1>1
  <2> QED BY <1>1, <1>2, <2>1 DEF DriverInv
<1>5. PreadyInv'
  BY <1>2 DEF PreadyInv, Clocked, Presents, req, Presented
<1> QED BY <1>3, <1>4, <1>5

LEMMA WriteRstIInv ==
  ASSUME SoleConfigurator, IInv, NEW a \in Configurators, WriteRst(a)
  PROVE  IInv'
<1> USE SocIsolationAssumption DEF IInv, TypeOK
<1>1. /\ a \in Clients /\ call[a].pc = "write_rst"
      /\ call' = [call EXCEPT ![a].pc = "read_ctrl"]
      /\ UNCHANGED <<mphase, mop, mres, sel, owner, ss_ctrl, mask>>
      /\ ApplyResets(rst')
  BY DEF WriteRst, Goto, managerVars
<1>2. /\ call[a].proc = "reset_all" => rst' = {}
      /\ call[a].proc = "ss_reset" => rst' = rst \ {SsBit(call[a].ss)}
      /\ call[a].proc \notin {"reset_all", "ss_reset"} =>
           rst' = rst \cup {SsBit(call[a].ss), IcnBit}
      /\ rst' \subseteq RstBits
  BY <1>1, NewRstValue DEF WriteRst
<1>3. TypeOK'
  BY <1>1, <1>2 DEF ManagersTypeOK, Pcs, ApplyResets, States
<1>4. DriverInv'
  <2>1. ASSUME NEW b \in Clients, b # a
        PROVE  call'[b] = call[b] /\ mask'[b] = mask[b] /\ call[b].pc = "none"
    BY <1>1, <2>1, OthersIdle
  <2>2. /\ call'[a].pc = "read_ctrl" /\ mask'[a] = mask[a]
        /\ call'[a].proc = call[a].proc /\ call'[a].ss = call[a].ss
    BY <1>1
  <2> QED BY <1>1, <1>2, <2>1, <2>2 DEF DriverInv
<1>5. PreadyInv'
  BY <1>1, WriteRstPready
<1> QED BY <1>3, <1>4, <1>5

LEMMA WriteCtrlIInv ==
  ASSUME SoleConfigurator, IInv, NEW a \in Configurators, WriteCtrl(a)
  PROVE  IInv'
<1> USE SocIsolationAssumption DEF IInv, TypeOK
<1> DEFINE p == call[a].proc  k == call[a].ss
<1>1. /\ a \in Clients /\ call[a].pc = "write_ctrl"
      /\ p \in AllProcedures /\ k \in Subsystems
      /\ ss_ctrl' = [ss_ctrl EXCEPT ![k] = NewCtrl(p, mask[a])]
      /\ UNCHANGED <<mphase, mop, mres, sel, owner, rst, mask, bridge, PREADY,
                     performed>>
  BY DEF WriteCtrl, managerVars, icnVars
<1>2. mask[a] = ss_ctrl[k] /\ ss_ctrl[k] \subseteq CtrlBits
  BY <1>1 DEF DriverInv
<1>3. \/ /\ p = "reset_all"
         /\ \E n \in Subsystems :
              call' = [call EXCEPT ![a] = [proc |-> p, ss |-> n, pc |-> "read_ctrl"]]
      \/ call' = [call EXCEPT ![a].pc = "none"]
  BY DEF WriteCtrl, Goto
<1>4. TypeOK'
  <2>1. NewCtrl(p, mask[a]) \in SUBSET CtrlBits
    BY <1>1, <1>2, WrittenTypes
  <2>2. ss_ctrl' \in [Subsystems -> SUBSET CtrlBits]
    BY <1>1, <2>1
  <2>3. call' \in [Clients -> [proc : AllProcedures, ss : Subsystems, pc : Pcs]]
    BY <1>1, <1>3 DEF Pcs
  <2> QED BY <1>1, <2>2, <2>3 DEF ManagersTypeOK
<1>5. DriverInv'
  <2>1. ASSUME NEW b \in Clients, b # a
        PROVE  call'[b] = call[b] /\ mask'[b] = mask[b] /\ call[b].pc = "none"
    BY <1>1, <1>3, <2>1, OthersIdle
  <2>2. \/ /\ p = "reset_all" /\ call'[a].proc = p /\ call'[a].pc = "read_ctrl"
        \/ call'[a].proc = p /\ call'[a].pc = "none"
    BY <1>1, <1>3
  <2>3. p = "reset_all" => rst = {}
    BY <1>1 DEF DriverInv
  <2> QED BY <1>1, <2>1, <2>2, <2>3 DEF DriverInv
<1>6. PreadyInv'
  <2>1. ASSUME NEW j \in Subsystems, Clocked(j) PROVE Clocked(j)'
    <3>1. CASE j # k
      BY <1>1, <2>1, <3>1 DEF Clocked
    <3>2. CASE j = k
      <4>1. SsBit(k) \in rst /\ ClkBit \in mask[a]
        BY <1>2, <2>1, <3>2 DEF Clocked
      <4>2. p \notin {"ss_reset", "reset_all"}
        BY <1>1, <4>1 DEF DriverInv
      <4>3. ClkBit \in NewCtrl(p, mask[a])
        BY <1>1, <4>1, <4>2 DEF NewCtrl, AllProcedures
      <4> QED BY <1>1, <3>2, <4>1, <4>3 DEF Clocked
    <3> QED BY <3>1, <3>2
  <2>2. ASSUME NEW j \in Subsystems PROVE Presents(j)' <=> Presents(j)
    BY <1>1 DEF Presents, req, Presented
  <2> QED BY <1>1, <2>1, <2>2 DEF PreadyInv, req
<1> QED BY <1>4, <1>5, <1>6

LEMMA CallIInv ==
  ASSUME IInv, NEW a \in Configurators, NEW p \in Procedures,
         NEW t \in Subsystems, Call(a, p, t)
  PROVE  IInv'
<1> USE SocIsolationAssumption DEF IInv, TypeOK
<1>1. /\ a \in Clients /\ p \in AllProcedures
      /\ call' = [call EXCEPT ![a] = [proc |-> p, ss |-> t, pc |-> Entry(p)]]
      /\ UNCHANGED <<mphase, mop, mres, sel, owner, rst, ss_ctrl, mask, bridge,
                     PREADY, performed>>
  BY DEF Call, managerVars, registerVars, icnVars
<1>2. CASE p = "irq_enable"
  <2>1. call' = [call EXCEPT ![a] = [proc |-> p, ss |-> t, pc |-> "read_ctrl"]]
    BY <1>1, <1>2 DEF Entry
  <2>2. TypeOK'
    BY <1>1, <2>1 DEF ManagersTypeOK, Pcs
  <2>3. DriverInv'
    BY <1>1, <1>2, <2>1 DEF DriverInv
  <2> QED BY <1>1, <2>2, <2>3 DEF PreadyInv, Clocked, Presents, req, Presented
<1>3. CASE p # "irq_enable"
  <2>0. PICK pc \in {"read_rst", "write_rst"} :
          /\ call' = [call EXCEPT ![a] = [proc |-> p, ss |-> t, pc |-> pc]]
          /\ pc = "read_rst" <=> p # "reset_all"
    BY <1>1, <1>3 DEF Entry
  <2>2. TypeOK'
    BY <1>1, <2>0 DEF ManagersTypeOK, Pcs
  <2>3. DriverInv'
    BY <1>1, <1>3, <2>0 DEF DriverInv
  <2> QED BY <1>1, <2>2, <2>3 DEF PreadyInv, Clocked, Presents, req, Presented
<1> QED BY <1>2, <1>3

(***************************************************************************)
(* The bus and the clock.                                                  *)
(***************************************************************************)

LEMMA AskIInv ==
  ASSUME IInv, NEW a \in Users, NEW o \in Workload, Ask(a, o)
  PROVE  IInv'
<1> USE SocIsolationAssumption, ObiManagersAssumption
    DEF IInv, TypeOK, ManagersTypeOK
<1>1. /\ a \in Clients /\ o \in Ops
      /\ mphase[a] = "idle"
      /\ mphase' = [mphase EXCEPT ![a] = "req"]
      /\ mop' = [mop EXCEPT ![a] = o]
      /\ UNCHANGED <<mres, sel, owner, rst, ss_ctrl, call, mask, bridge, PREADY,
                     performed>>
  BY DEF Ask, Issue, registerVars, driverVars, icnVars
<1>2. req => sel # a /\ Presented' = Presented
  BY <1>1 DEF PreadyInv, req, Presented
<1>3. TypeOK'
  BY <1>1
<1>4. DriverInv'
  BY <1>1 DEF DriverInv
<1>5. PreadyInv'
  BY <1>1, <1>2 DEF PreadyInv, Clocked, Presents, req
<1> QED BY <1>3, <1>4, <1>5

LEMMA SelectIInv ==
  ASSUME IInv, NEW a \in Users, Select(a)
  PROVE  IInv'
<1> USE SocIsolationAssumption, ObiManagersAssumption
    DEF IInv, TypeOK, ManagersTypeOK
<1>1. /\ a \in Clients /\ sel = NoClient /\ mphase[a] = "req" /\ sel' = a
      /\ UNCHANGED <<mphase, mop, mres, owner, rst, ss_ctrl, call, mask, bridge,
                     PREADY, performed>>
  BY DEF Select, Arbitrate, registerVars, driverVars, icnVars
<1>2. \A k \in Subsystems : ~PREADY[k]
  BY <1>1 DEF PreadyInv, Presents, req
<1>3. TypeOK'
  BY <1>1
<1>4. DriverInv'
  BY <1>1 DEF DriverInv
<1>5. PreadyInv'
  BY <1>1, <1>2 DEF PreadyInv, req
<1> QED BY <1>3, <1>4, <1>5

(* What a clock edge does to the multiplexer.                              *)
LEMMA ClkManagers ==
  ASSUME Clk
  PROVE  /\ sel' = IF Granted THEN NoClient ELSE sel
         /\ owner' = IF Granted THEN sel ELSE IF Answered THEN NoClient ELSE owner
         /\ mop' = mop
         /\ \A c \in Clients :
              mphase'[c] = IF Granted /\ c = sel THEN "wait"
                           ELSE IF Answered /\ c = owner THEN "idle" ELSE mphase[c]
         /\ UNCHANGED <<rst, ss_ctrl, call, mask>>
BY DEF Clk, ManagersEdge, registerVars, driverVars

(* PREADY comes up, once, for the access on the bus, in its access phase,   *)
(* and goes down again with the grant.                                     *)
LEMMA ClkPready ==
  ASSUME IInv, Clk
  PROVE  PreadyInv'
<1> USE DEF IInv, TypeOK, ManagersTypeOK
<1>1. \A k \in Subsystems : /\ PREADY'[k] = NextPready(k)
                            /\ bridge'[k] = NextBridge(k)
  BY DEF Clk
<1>2. \A k \in Subsystems : Clocked(k)' <=> Clocked(k)
  BY ClkManagers DEF Clocked
<1>3. ASSUME NEW k \in Subsystems, PREADY'[k]
      PROVE  /\ Clocked(k) /\ Presents(k) /\ ~Granted
             /\ bridge'[k] = "ACCESS" /\ performed' = 1
  <2>1. Clocked(k) /\ Performs(k)
    <3>1. CASE Clocked(k)
      BY <1>1, <1>3, <3>1 DEF NextPready
    <3>2. CASE ~Clocked(k)
      BY <1>1, <1>3, <3>2 DEF NextPready, PreadyInv
    <3> QED BY <3>1, <3>2
  <2>2. Presents(k) /\ ~PREADY[k] /\ IcnBit \in rst
    BY <2>1 DEF Performs, Clocked, PreadyInv
  <2>3. \A j \in Subsystems : Presents(j) => j = k
    BY <2>2 DEF Presents
  <2>4. \A j \in Subsystems : ~PREADY[j]
    BY <2>2, <2>3 DEF PreadyInv
  <2>5. ~Granted /\ performed = 0
    BY <2>4 DEF Granted, Grants, PreadyInv
  <2>6. bridge'[k] = "ACCESS"
    BY <1>1, <2>2 DEF NextBridge, NextState, States
  <2>7. performed' = 1
    BY <2>1, <2>5 DEF Clk
  <2> QED BY <2>1, <2>2, <2>5, <2>6, <2>7
<1>4. ASSUME NEW k \in Subsystems, PREADY'[k] PROVE Presents(k)'
  BY <1>3, <1>4, ClkManagers DEF Presents, req, Presented
<1>5. performed' # 0 => \E k \in Subsystems : PREADY'[k]
  <2>1. SUFFICES ASSUME performed' # 0 PROVE \E k \in Subsystems : PREADY'[k]
    OBVIOUS
  <2>2. ~Granted
    BY <2>1 DEF Clk
  <2>3. CASE performed = 0
    <3>1. PICK k \in Subsystems : Performs(k)
      BY <2>1, <2>2, <2>3 DEF Clk
    <3> QED BY <1>1, <3>1 DEF NextPready, Performs
  <2>4. CASE performed # 0
    <3>1. PICK k \in Subsystems : PREADY[k]
      BY <2>4 DEF PreadyInv
    <3>2. Granted
      BY <3>1 DEF Granted, Grants, PreadyInv
    <3> QED BY <2>2, <3>2
  <2> QED BY <2>3, <2>4
<1>6. (req => mphase[sel] = "req")'
  <2>1. CASE Granted
    BY <2>1, ClkManagers DEF req
  <2>2. CASE ~Granted /\ req
    <3>1. mphase[sel] = "req" /\ sel \in Clients /\ sel' = sel
      BY <2>2, ClkManagers DEF PreadyInv, req
    <3>2. sel # owner
      BY <3>1, <2>2 DEF PreadyInv, req
    <3> QED BY <2>2, <3>1, <3>2, ClkManagers
  <2>3. CASE ~Granted /\ ~req
    BY <2>3, ClkManagers DEF req
  <2> QED BY <2>1, <2>2, <2>3
<1>7. \A k \in Subsystems : SsBit(k) \in rst' => IcnBit \in rst'
  BY ClkManagers DEF PreadyInv
<1>8. (owner # NoClient => mphase[owner] = "wait")'
  <2>1. CASE Granted
    <3>1. sel \in Clients
      BY <2>1 DEF Granted, Presents, req
    <3> QED BY <2>1, <3>1, ClkManagers
  <2>2. CASE ~Granted /\ ~Answered /\ owner # NoClient
    BY <2>2, ClkManagers DEF PreadyInv
  <2>3. CASE ~Granted /\ (Answered \/ owner = NoClient)
    BY <2>3, ClkManagers
  <2> QED BY <2>1, <2>2, <2>3
<1> QED BY <1>2, <1>3, <1>4, <1>5, <1>6, <1>7, <1>8 DEF PreadyInv

LEMMA ClkIInv ==
  ASSUME IInv, Clk
  PROVE  IInv'
<1> USE ObiManagersAssumption DEF IInv, TypeOK
<1>1. ManagersTypeOK'
  <2>1. Granted => sel \in Clients
    BY DEF Granted, Presents, req, ManagersTypeOK
  <2>2. 0 \in Data
    BY BusTypesAssumption
  <2> QED BY <2>1, <2>2 DEF Clk, ManagersEdge, ManagersTypeOK
<1>2. bridge' \in [Subsystems -> States]
  BY DEF Clk, NextBridge, NextState, States
<1>3. PREADY' \in [Subsystems -> BOOLEAN]
  <2>1. \A k \in Subsystems : NextPready(k) \in BOOLEAN
    BY DEF NextPready, Performs, Presents, req
  <2> QED BY <2>1 DEF Clk
<1>4. performed' \in 0 .. 2
  BY DEF Clk
<1>5. TypeOK'
  BY <1>1, <1>2, <1>3, <1>4, ClkManagers
<1>6. DriverInv'
  BY ClkManagers DEF DriverInv
<1>7. PreadyInv'
  BY ClkPready
<1> QED BY <1>5, <1>6, <1>7

LEMMA StutterIInv == IInv /\ UNCHANGED vars => IInv'
BY DEF IInv, TypeOK, ManagersTypeOK, DriverInv, PreadyInv, Clocked, Presents,
       req, Presented, vars, managerVars, registerVars, driverVars, icnVars

LEMMA StepIInv ==
  ASSUME SoleConfigurator
  PROVE  IInv /\ [Next]_vars => IInv'
BY ReadRstIInv, WriteRstIInv, ReadCtrlIInv, WriteCtrlIInv, CallIInv, AskIInv,
   SelectIInv, ClkIInv, StutterIInv DEF Next, Step

(* The inductive invariant holds in every reachable state when one initiator *)
(* runs the drivers: it knows the registers it works on, and PREADY is up    *)
(* only in a subsystem that is still clocked to withdraw it.                 *)
THEOREM Invariance ==
  ASSUME SoleConfigurator
  PROVE  Spec => []IInv
<1>1. Init => IInv
  BY InitIInv
<1>2. IInv /\ [Next]_vars => IInv'
  BY StepIInv
<1> QED BY <1>1, <1>2, PTL DEF Spec

(* No reset and no clock gate in the middle of an access makes a grant     *)
(* without effect, or an effect twice, when one initiator runs the drivers: *)
(* they release and gate in the right order.                               *)
THEOREM ExactlyOnce ==
  ASSUME SoleConfigurator
  PROVE  Spec => []GrantedExactlyOnce
<1>1. IInv => GrantedExactlyOnce
  BY DEF IInv, PreadyInv, GrantedExactlyOnce, Granted, Grants
<1> QED BY <1>1, Invariance, PTL

(* Registers, drivers and bus state keep their types.                      *)
THEOREM TypeCorrect ==
  ASSUME SoleConfigurator
  PROVE  Spec => []TypeOK
<1>1. IInv => TypeOK
  BY DEF IInv
<1> QED BY <1>1, Invariance, PTL

-----------------------------------------------------------------------------
(***************************************************************************)
(* Responses.                                                              *)
(***************************************************************************)

(* Without reset_all no driver resets the interconnect.                    *)
LEMMA IcnStays ==
  ASSUME IInv, ResponseInv, NEW a \in Clients, WriteRst(a)
  PROVE  IcnBit \in rst => IcnBit \in rst'
<1>1. call[a].ss \in Subsystems /\ call[a].proc # "reset_all"
  BY DEF IInv, TypeOK, ResponseInv
<1>2. \/ rst' = rst \ {SsBit(call[a].ss)}
      \/ rst' = rst \cup {SsBit(call[a].ss), IcnBit}
  BY <1>1, NewRstValue DEF WriteRst
<1> QED BY <1>1, <1>2, Bits

(* A bridge leaves SETUP only when the interconnect is out of reset.       *)
LEMMA ClkResponse ==
  ASSUME IInv, ResponseInv, Clk
  PROVE  ResponseInv'
<1> USE DEF IInv, TypeOK, ManagersTypeOK
<1>1. \A k \in Subsystems : /\ PREADY'[k] = NextPready(k)
                            /\ bridge'[k] = NextBridge(k)
  BY DEF Clk
<1>2. CASE Granted
  <2>1. PICK k \in Subsystems : Presents(k) /\ bridge[k] = "ACCESS" /\ PREADY[k]
    BY <1>2 DEF Granted, Grants
  <2>2. /\ sel \in Clients /\ mop[sel].addr = k /\ IcnBit \in rst
        /\ \A j \in Subsystems : j # k => ~Presents(j)
    BY <2>1 DEF Presents, Presented, req, PreadyInv, Clocked
  <2>3. bridge'[k] = "HANDSHAKE"
    BY <1>1, <2>1, <2>2 DEF NextBridge, NextState
  <2>4. \A j \in Subsystems : bridge[j] # "HANDSHAKE"
    BY <2>1 DEF ResponseInv
  <2>5. \A c \in Clients : mphase[c] # "wait"
    BY <2>4 DEF ResponseInv, ResponseNotLost
  <2>6. \A c \in Clients : mphase'[c] = "wait" => c = sel
    BY <2>4, <2>5, <1>2, ClkManagers DEF Answered, Responds
  <2>7. \A j \in Subsystems : ~PREADY'[j]
    <3>1. ASSUME NEW j \in Subsystems, PREADY'[j] PROVE FALSE
      <4>1. Performs(j) \/ (~Clocked(j) /\ PREADY[j])
        BY <1>1, <3>1 DEF NextPready
      <4>2. Performs(j)
        BY <4>1 DEF PreadyInv
      <4> QED BY <2>1, <2>2, <4>2 DEF Performs
    <3> QED BY <3>1
  <2>8. owner' = sel /\ mop' = mop /\ call' = call
    BY <1>2, ClkManagers
  <2>9. rst' = rst
    BY ClkManagers
  <2> QED BY <2>2, <2>3, <2>9, <2>6, <2>7, <2>8 DEF ResponseInv, ResponseNotLost
<1>3. CASE ~Granted
  <2>1. \A k \in Subsystems : bridge'[k] # "HANDSHAKE"
    <3>1. ASSUME NEW k \in Subsystems, bridge'[k] = "HANDSHAKE" PROVE FALSE
      <4>1. bridge[k] = "ACCESS" /\ PREADY[k]
        BY <1>1, <3>1 DEF NextBridge, NextState, States
      <4> QED BY <1>3, <4>1 DEF PreadyInv, Granted, Grants
    <3> QED BY <3>1
  <2>2. \A c \in Clients : mphase'[c] # "wait"
    <3>1. ASSUME NEW c \in Clients, mphase'[c] = "wait" PROVE FALSE
      <4>1. mphase[c] = "wait" /\ ~(Answered /\ c = owner)
        BY <1>3, <3>1, ClkManagers
      <4> QED BY <4>1 DEF ResponseInv, ResponseNotLost, Answered, Responds
    <3> QED BY <3>1
  <2>3. call' = call
    BY ClkManagers
  <2> QED BY <2>1, <2>2, <2>3 DEF ResponseInv, ResponseNotLost
<1> QED BY <1>2, <1>3

LEMMA WriteRstResponse ==
  ASSUME IInv, ResponseInv, NEW a \in Clients, WriteRst(a)
  PROVE  ResponseInv'
<1> USE DEF IInv, TypeOK
<1>1. /\ UNCHANGED <<mphase, mop, owner>>
      /\ call' = [call EXCEPT ![a].pc = "read_ctrl"]
      /\ ApplyResets(rst')
  BY DEF WriteRst, Goto, managerVars
<1>2. \A b \in Clients : call'[b].proc # "reset_all"
  BY <1>1 DEF ResponseInv
<1>3. CASE \E k \in Subsystems : bridge[k] = "HANDSHAKE" \/ PREADY[k]
  <2>1. IcnBit \in rst'
    BY <1>3, IcnStays DEF PreadyInv, Clocked, ResponseInv
  <2>2. bridge' = bridge /\ \A k \in Subsystems : PREADY'[k] => PREADY[k]
    BY <1>1, <2>1 DEF ApplyResets
  <2> QED BY <1>1, <1>2, <2>1, <2>2 DEF ResponseInv, ResponseNotLost
<1>4. CASE ~ \E k \in Subsystems : bridge[k] = "HANDSHAKE" \/ PREADY[k]
  <2>1. /\ \A c \in Clients : mphase[c] # "wait"
        /\ \A k \in Subsystems : bridge'[k] # "HANDSHAKE"
    BY <1>1, <1>4 DEF ResponseInv, ResponseNotLost, ApplyResets
  <2> QED BY <1>1, <1>2, <2>1 DEF ResponseInv, ResponseNotLost
<1> QED BY <1>3, <1>4

LEMMA StepResponse ==
  ASSUME "reset_all" \notin Procedures
  PROVE  IInv /\ ResponseInv /\ [Next]_vars => ResponseInv'
<1> SUFFICES ASSUME IInv, ResponseInv, [Next]_vars PROVE ResponseInv'
  OBVIOUS
<1> USE SocIsolationAssumption, ObiManagersAssumption
    DEF IInv, TypeOK, ManagersTypeOK
<1>1. ASSUME NEW a \in Configurators, NEW p \in Procedures,
             NEW t \in Subsystems, Call(a, p, t)
      PROVE  ResponseInv'
  <2>1. /\ call' = [call EXCEPT ![a] = [proc |-> p, ss |-> t, pc |-> Entry(p)]]
        /\ p # "reset_all"
        /\ UNCHANGED <<mphase, mop, owner, rst, bridge, PREADY>>
    BY <1>1 DEF Call, managerVars, registerVars, icnVars
  <2> QED BY <2>1 DEF ResponseInv, ResponseNotLost
<1>2. ASSUME NEW a \in Configurators, ReadRst(a) \/ ReadCtrl(a)
      PROVE  ResponseInv'
  <2>1. /\ \E pc \in Pcs : call' = [call EXCEPT ![a].pc = pc]
        /\ UNCHANGED <<mphase, mop, owner, rst, bridge, PREADY>>
    BY <1>2 DEF ReadRst, ReadCtrl, Goto, Pcs, managerVars, registerVars, icnVars
  <2>2. \A c \in Clients : call'[c].proc = call[c].proc
    BY <2>1
  <2> QED BY <2>1, <2>2 DEF ResponseInv, ResponseNotLost
<1>3. ASSUME NEW a \in Configurators, WriteCtrl(a)
      PROVE  ResponseInv'
  <2>1. /\ call' = [call EXCEPT ![a].pc = "none"]
        /\ UNCHANGED <<mphase, mop, owner, rst, bridge, PREADY>>
    BY <1>3 DEF WriteCtrl, Goto, ResponseInv, managerVars, icnVars
  <2>2. \A c \in Clients : call'[c].proc = call[c].proc
    BY <2>1
  <2> QED BY <2>1, <2>2 DEF ResponseInv, ResponseNotLost
<1>4. ASSUME NEW a \in Users, NEW o \in Workload, Ask(a, o)
      PROVE  ResponseInv'
  <2>1. /\ mphase' = [mphase EXCEPT ![a] = "req"]
        /\ mop' = [mop EXCEPT ![a] = o]
        /\ UNCHANGED <<owner, rst, call, bridge, PREADY>>
    BY <1>4 DEF Ask, Issue, registerVars, driverVars, icnVars
  <2>2. ASSUME NEW c \in Clients, mphase'[c] = "wait"
        PROVE  mphase[c] = "wait" /\ mop'[c] = mop[c]
    BY <2>1, <2>2
  <2> QED BY <2>1, <2>2 DEF ResponseInv, ResponseNotLost
<1>5. ASSUME NEW a \in Users, Select(a)
      PROVE  ResponseInv'
  BY <1>5 DEF Select, Arbitrate, registerVars, driverVars, icnVars,
     ResponseInv, ResponseNotLost
<1>6. CASE UNCHANGED vars
  BY <1>6 DEF vars, managerVars, registerVars, driverVars, icnVars,
     ResponseInv, ResponseNotLost
<1> QED BY <1>1, <1>2, <1>3, <1>4, <1>5, <1>6, WriteRstResponse, ClkResponse
        DEF Next, Step

(* A granted access gets its response: as long as nobody resets all, no     *)
(* driver resets the interconnect under an initiator.                      *)
THEOREM ResponsesArrive ==
  ASSUME SoleConfigurator, "reset_all" \notin Procedures
  PROVE  Spec => []ResponseNotLost
<1>1. Init => ResponseInv
  BY DEF Init, ManagersInit, ResponseInv, ResponseNotLost
<1>2. IInv /\ ResponseInv /\ [Next]_vars => ResponseInv'
  BY StepResponse
<1>3. ResponseInv => ResponseNotLost
  BY DEF ResponseInv
<1> QED BY <1>1, <1>2, <1>3, Invariance, PTL DEF Spec

-----------------------------------------------------------------------------
(***************************************************************************)
(* What a driver call does to the subsystems.                              *)
(***************************************************************************)

LEMMA StepSeparate ==
  ASSUME IInv, NEW a \in Configurators, Step(a), call[a].proc # "reset_all",
         NEW k \in Subsystems, k # call[a].ss
  PROVE  Isolated(k)' = Isolated(k)
<1> USE SocIsolationAssumption DEF IInv, TypeOK
<1>1. CASE ReadRst(a) \/ ReadCtrl(a)
  BY <1>1 DEF ReadRst, ReadCtrl, registerVars, Isolated, Clocked
<1>2. CASE WriteRst(a)
  <2>1. /\ ss_ctrl' = ss_ctrl /\ call[a].ss \in Subsystems
        /\ \/ rst' = rst \ {SsBit(call[a].ss)}
           \/ rst' = rst \cup {SsBit(call[a].ss), IcnBit}
    BY <1>2, NewRstValue DEF WriteRst
  <2>2. SsBit(k) \in rst' <=> SsBit(k) \in rst
    BY <2>1, Bits
  <2>3. SsBit(k) \in rst => (IcnBit \in rst' <=> IcnBit \in rst)
    BY <2>1, Bits DEF PreadyInv
  <2> QED BY <2>1, <2>2, <2>3 DEF Isolated, Clocked
<1>3. CASE WriteCtrl(a)
  <2>1. rst' = rst /\ ss_ctrl'[k] = ss_ctrl[k]
    BY <1>3 DEF WriteCtrl
  <2> QED BY <2>1 DEF Isolated, Clocked
<1> QED BY <1>1, <1>2, <1>3 DEF Step

(* ss_init and ss_reset of one subsystem leave the access to the others as  *)
(* it was: the read-modify-writes lose no bit.                             *)
THEOREM SeparateControl ==
  ASSUME SoleConfigurator
  PROVE  Spec => SeparatelyControlled
<1>1. IInv /\ [Next]_vars =>
        [\A a \in Configurators, k \in Subsystems :
           Step(a) /\ call[a].proc # "reset_all" /\ k # call[a].ss
           => Isolated(k)' = Isolated(k)]_vars
  BY StepSeparate
<1> QED BY <1>1, Invariance, PTL DEF Spec, SeparatelyControlled

(* A driver call returns with its last store only.                          *)
LEMMA ReturnIsWriteCtrl ==
  ASSUME IInv, [Next]_vars, NEW a \in Configurators,
         call[a].pc # "none", call'[a].pc = "none"
  PROVE  WriteCtrl(a)
<1> USE SocIsolationAssumption DEF IInv, TypeOK
<1>1. call' # call
  OBVIOUS
<1>2. ASSUME NEW b \in Configurators, NEW p \in Procedures,
             NEW t \in Subsystems, Call(b, p, t)
      PROVE  FALSE
  BY <1>2 DEF Call, Free, Entry
<1>3. ASSUME NEW b \in Configurators, Step(b) PROVE WriteCtrl(a)
  <2>1. CASE ReadRst(b) \/ WriteRst(b) \/ ReadCtrl(b)
    <3>1. PICK pc \in Pcs \ {"none"} : call' = [call EXCEPT ![b].pc = pc]
      BY <2>1 DEF ReadRst, WriteRst, ReadCtrl, Goto, Pcs
    <3>2. call'[a].pc = "none" => call[a].pc = "none"
      BY <3>1
    <3> QED BY <3>2
  <2>2. CASE WriteCtrl(b)
    <3>1. b = a
      BY <2>2 DEF WriteCtrl, Goto
    <3> QED BY <2>2, <3>1
  <2> QED BY <1>3, <2>1, <2>2 DEF Step
<1>4. ASSUME Clk \/ (\E b \in Users : Select(b))
             \/ (\E b \in Users, o \in Workload : Ask(b, o)) \/ UNCHANGED vars
      PROVE  FALSE
  BY <1>1, <1>4 DEF Clk, Select, Ask, vars, driverVars
<1> QED BY <1>2, <1>3, <1>4 DEF Next

LEMMA ReturnOpens ==
  ASSUME IInv, NEW a \in Configurators, WriteCtrl(a), call[a].proc = "ss_init",
         NEW k \in Subsystems, call[a].ss = k
  PROVE  Isolated(k)' = (k \in Tieoffs)
<1> USE SocIsolationAssumption DEF IInv, TypeOK
<1>1. /\ rst' = rst
      /\ ss_ctrl'[k] = mask[a] \cup {ClkBit}
  BY DEF WriteCtrl, NewCtrl
<1>2. SsBit(k) \in rst /\ IcnBit \in rst
  BY DEF DriverInv, WriteCtrl
<1> QED BY <1>1, <1>2 DEF Isolated, Clocked

(* ss_init hands over a subsystem that answers.                            *)
THEOREM InitHandsOver ==
  ASSUME SoleConfigurator
  PROVE  Spec => InitOpens
<1>1. IInv /\ [Next]_vars =>
        [\A a \in Configurators, k \in Subsystems :
           /\ call[a].proc = "ss_init" /\ call[a].ss = k
           /\ call[a].pc # "none" /\ call'[a].pc = "none"
           => Isolated(k)' = (k \in Tieoffs)]_vars
  BY ReturnIsWriteCtrl, ReturnOpens
<1> QED BY <1>1, Invariance, PTL DEF Spec, InitOpens

=============================================================================
