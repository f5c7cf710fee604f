---------------------------- MODULE StudentBench ----------------------------
(***************************************************************************)
(* The student bench as a whole: one of its tests, from the reset to the   *)
(* end of the run phase, with the APB producer, the gbus drivers and the   *)
(* assertion checkers, against student_ss_example.  The monitors, which    *)
(* only watch, and the drivers' handling of a reset that comes later than  *)
(* the one at the start are the subject of ApbUvc and GbusUvc.             *)
(***************************************************************************)
EXTENDS ApbDrivers, GbusAgent, BenchBuild, RegModel

CONSTANTS
  Kind, Threshold,  \* of the DUT
  Nibbles,          \* the values random items have, of those that fit
  ResetCycles,      \* how long the reset may last, randint(2, 20) in the code
  Rounds            \* rounds of the random test, 100 in the code

ASSUME StudentBenchAssumption ==
  /\ Kind = "student_ss_example"
  /\ ApbPorts = {Producer} /\ Buses = DOMAIN AgentCfg
  /\ Ports = ApbPorts \cup Buses /\ Clients = Ports
  /\ Data \subseteq Nat /\ \A w \in Data : Masked(w) \subseteq Data
  /\ {0, 4, 8, 12} \subseteq Addr
  /\ Nibbles \subseteq Nat /\ ResetCycles \subseteq Nat \ {0}
  /\ Threshold \in Nat /\ Rounds \in Nat

VARIABLES
  regs, oe, IRQ_REG, COUNT_REG,  \* the DUT
  test,               \* the test that runs
  at,                 \* the step it is at
  left,               \* the clock edges it still waits for
  round,              \* of the random test
  starting, running,  \* the sequences it has forked and waits for
  got,                \* what the sequences leave for the checks
  objections,         \* raised and not dropped
  verdict,            \* of the asserts in the test
  pulse,              \* what the checker irq_pulse is at; "off": there is none
  passed              \* assertion_checker.passed

dutVars == <<responseVars, regs, oe, IRQ_REG, COUNT_REG>>
testVars == <<test, at, left, round, starting, running, got, objections, verdict>>
checkVars == <<pulse, passed>>
vars == <<cocotbVars, sequencerVars, process, requestVars, gbusVars, dutVars,
          testVars, checkVars>>

-----------------------------------------------------------------------------
(* The pins of the DUT are the signals of the gbus agents.                  *)
AgentAt(signal) == CHOOSE g \in Buses : SignalOf(g) = signal
At(signal) == bus[AgentAt(signal)]

Dut == INSTANCE ExampleRtl WITH
         gpi <- At("pmod_0_gpi") + 16 * At("pmod_1_gpi"),
         gpo <- At("pmod_0_gpo") + 16 * At("pmod_1_gpo"),
         irq_en <- (At("irq_en") = 1)

ShowOutputs(word) ==
  bus' = [bus EXCEPT ![AgentAt("pmod_0_gpo")] = word % 16,
                     ![AgentAt("pmod_1_gpo")] = word \div 16]

\* A clock edge of the DUT.  Before the first reset its registers have any
\* value and keep it.
DutEdge ==
  IF rst = "1"
  THEN /\ Dut!SubordinateEdge(PSEL, op)
       /\ Dut!Direction /\ Dut!Sample /\ Dut!SampleCtrl(At("ss_ctrl"))
       /\ Dut!IrqEdge
       /\ \E word \in Data : ShowOutputs(word) /\ Dut!Latch
  ELSE UNCHANGED <<dutVars, bus>>

-----------------------------------------------------------------------------
(* The tests.  A test is at the step it has begun last, and begins the next   *)
(* when that one is over.                                                   *)
Drive(agents) == [do |-> "drive", clients |-> agents, reg |-> "none"]
Access(what, register) == [do |-> what, clients |-> {Producer}, reg |-> register]

DriveGpiPins == Drive({Handle.pmod_0_gpi, Handle.pmod_1_gpi})
SampleGpoPins == [Drive({Handle.pmod_0_gpo, Handle.pmod_1_gpo}) EXCEPT !.do = "sample"]
DynamicSeq == Access("dynamic", "any")

\* What the steps of the virtual sequences send, and to which agents.
RwVseq == [write_rw |-> Access("write", "rw_reg"), read_rw |-> Access("read", "rw_reg")]
ReadPmodVseq == [drive_gpi |-> DriveGpiPins, read_gpio |-> Access("read", "gpio_r_reg")]
WritePmodVseq ==
  [write_gpio |-> Access("write", "gpio_w_reg"), sample_gpo |-> SampleGpoPins]
SsCtrlVseq ==
  [drive_ctrl |-> Drive({Handle.ss_ctrl}), read_ctrl |-> Access("read", "ss_ctrl_reg")]
IrqVseq == [enable_irq |-> [Drive({Handle.irq_en}) EXCEPT !.do = "enable"]]
RandomVseq ==
  [drive_round |-> DriveGpiPins,
   dynamic_1 |-> DynamicSeq, dynamic_2 |-> DynamicSeq, dynamic_3 |-> DynamicSeq]

Forks ==
  DOMAIN RwVseq \cup DOMAIN ReadPmodVseq \cup DOMAIN WritePmodVseq
    \cup DOMAIN SsCtrlVseq \cup DOMAIN IrqVseq \cup DOMAIN RandomVseq

Sends(l) ==
  CASE l \in DOMAIN RwVseq        -> RwVseq[l]
    [] l \in DOMAIN ReadPmodVseq  -> ReadPmodVseq[l]
    [] l \in DOMAIN WritePmodVseq -> WritePmodVseq[l]
    [] l \in DOMAIN SsCtrlVseq    -> SsCtrlVseq[l]
    [] l \in DOMAIN IrqVseq       -> IrqVseq[l]
    [] l \in DOMAIN RandomVseq    -> RandomVseq[l]

\* The steps that are a wait for clock edges, as the one in trigger_reset that
\* every test begins with.
Waits ==
  {"power_up", "hold_reset", "settle", "wait_gpi", "wait_gpo", "wait_ctrl",
   "wait_irq", "wait"}

\* What comes after a step: in run_phase of the base test, which the run phase
\* of every test begins with, and in each of the tests.
BaseTest ==
  [power_up |-> "assert_reset", assert_reset |-> "hold_reset",
   hold_reset |-> "release_reset", release_reset |-> "clear_irq_en",
   clear_irq_en |-> "settle", settle |-> "drop_base"]

RwTest ==
  [drop_base |-> "write_rw", write_rw |-> "read_rw", read_rw |-> "check",
   check |-> "wait", wait |-> "drop"]

ReadPmodTest ==
  [drop_base |-> "drive_gpi", drive_gpi |-> "wait_gpi", wait_gpi |-> "read_gpio",
   read_gpio |-> "check", check |-> "wait", wait |-> "drop"]

WritePmodTest ==
  [drop_base |-> "write_gpio", write_gpio |-> "wait_gpo", wait_gpo |-> "sample_gpo",
   sample_gpo |-> "check", check |-> "wait", wait |-> "drop"]

SsCtrlTest ==
  [drop_base |-> "drive_ctrl", drive_ctrl |-> "read_ctrl", read_ctrl |-> "wait_ctrl",
   wait_ctrl |-> "check", check |-> "drop"]

IrqTest ==
  [drop_base |-> "enable_irq", enable_irq |-> "wait_irq", wait_irq |-> "check",
   check |-> "drop"]

RandomTest ==
  [drop_base |-> "enable_irq", enable_irq |-> "wait_irq", wait_irq |-> "check",
   check |-> "drive_ctrl", drive_ctrl |-> "read_ctrl", read_ctrl |-> "wait",
   wait |-> IF round < Rounds THEN "drive_round" ELSE "drop",
   drive_round |-> "dynamic_1", dynamic_1 |-> "dynamic_2",
   dynamic_2 |-> "dynamic_3", dynamic_3 |-> "wait"]

Tests ==
  [rw |-> RwTest, read_pmod |-> ReadPmodTest, write_pmod |-> WritePmodTest,
   ss_ctrl |-> SsCtrlTest, irq |-> IrqTest, random |-> RandomTest]

Following == IF at \in DOMAIN BaseTest THEN BaseTest[at] ELSE Tests[test][at]

\* The assert statements of the tests.
RwCheck == got.written = got.read

ReadPmodCheck ==
  /\ got[Handle.pmod_0_gpi] = got.read % 16
  /\ got[Handle.pmod_1_gpi] = (got.read % 256) \div 16

WritePmodCheck ==
  /\ got[Handle.pmod_0_gpo] = got.written % 16
  /\ got[Handle.pmod_1_gpo] = (got.written % 256) \div 16

SsCtrlCheck == got[Handle.ss_ctrl] = got.read
IrqCheck == seen.bus[Handle.irq_en] = 1

Checks ==
  CASE test = "rw" -> RwCheck
    [] test = "read_pmod" -> ReadPmodCheck
    [] test = "write_pmod" -> WritePmodCheck
    [] test = "ss_ctrl" -> SsCtrlCheck
    [] test \in {"irq", "random"} -> IrqCheck

-----------------------------------------------------------------------------
\* The tasks irq_enable and irq_pulse, which run in the same phases and only
\* look at the signals, are taken as one.
Checkers == "checkers"

\* Both the test and its base class have raised an objection; the assertion
\* checkers take a reset_int of "z" for one that is over.
Init ==
  /\ CocotbInit /\ SequencerInit
  /\ DriversInit /\ GbusInit
  /\ Dut!SubordinateInit
  /\ oe = [p \in Dut!Pmods |-> FALSE]
  /\ IRQ_REG \in BOOLEAN /\ COUNT_REG = 0
  /\ seen = [apb |-> ApbSignals, bus |-> bus, irq |-> FALSE]
  /\ at = "power_up" /\ left = 1 /\ round = 0
  /\ test \in DOMAIN Tests
  /\ starting = {} /\ running = {}
  /\ got = [k \in {"written", "read"} \cup Buses |-> None]
  /\ objections = 2 /\ verdict = "none"
  /\ pulse = "watch" /\ passed = TRUE

\* A failing assert ends the test as well.
RunPhaseOver == objections = 0 \/ verdict = "failed"

\* The test goes on, in the simulation step of the edge that has resumed it.
TestRuns ==
  /\ EdgeTasksDone
  /\ left = 0 /\ starting = {} /\ running = {}
  /\ ~RunPhaseOver

Begin(steps) ==
  /\ TestRuns
  /\ at' = Following /\ at' \in steps

\* Nothing is left to run before the ReadOnly phase.
Settled ==
  /\ EdgeTasksDone /\ ~TestRuns
  /\ starting = {}
  /\ \A d \in ApbPorts : process[d] = "get" => item_queue[d] = <<>>
  /\ \A g \in Buses : driving[g] = "item" => item_queue[g] = <<>>
  /\ \A c \in running : stage[c] # "finished"

Clk ==
  /\ Settled /\ reading = {}
  /\ ~RunPhaseOver
  /\ DutEdge
  /\ seen' = [apb |-> ApbSignals, bus |-> bus, irq |-> Dut!irq]
  /\ awake' = {d \in ApbPorts : WakesProducer} \cup WakesGbus
                \cup {k \in {Checkers} : pulse = "off" /\ rst = "1"}
  /\ dying' = KilledByEdge
  /\ reading' = {k \in {Checkers} : pulse # "off"}
  /\ left' = IF left = 0 THEN 0 ELSE left - 1
  /\ UNCHANGED <<rst, sequencerVars, process, requestVars, driving, test, at,
                 round, starting, running, got, objections, verdict, checkVars>>

-----------------------------------------------------------------------------
(* The steps of a test.                                                     *)
testData == <<starting, running, got>>

\* The drivers are still without a process, and only the checkers are killed.
AssertReset ==
  /\ Begin({"assert_reset"})
  /\ rst' = "0"
  /\ dying' = KillsGbus
  /\ reading' = {} /\ pulse' = "off"
  /\ Dut!Cleared
  /\ UNCHANGED <<seen, awake, sequencerVars, process, requestVars, gbusVars,
                 test, left, round, testData, objections, verdict, passed>>

ReleaseReset ==
  /\ Begin({"release_reset"})
  /\ rst' = "1"
  /\ awake' = ReleasesGbus
  /\ UNCHANGED <<seen, dying, reading, sequencerVars, process, requestVars, gbusVars,
                 dutVars, test, left, round, testData, objections, verdict, checkVars>>

\* The test writes the signal itself.
ClearIrqEn ==
  /\ Begin({"clear_irq_en"})
  /\ bus' = [bus EXCEPT ![AgentAt("irq_en")] = 0]
  /\ UNCHANGED <<cocotbVars, sequencerVars, process, requestVars, driving, dutVars,
                 test, left, round, testData, objections, verdict, checkVars>>

benchVars == <<cocotbVars, sequencerVars, process, requestVars, gbusVars, dutVars,
               test, checkVars>>

Wait ==
  /\ Begin(Waits)
  /\ left' \in IF at' = "hold_reset" THEN ResetCycles ELSE {1}
  /\ UNCHANGED <<round, testData, objections, verdict, benchVars>>

ForkStep ==
  /\ Begin(Forks)
  /\ starting' = Sends(at').clients
  /\ round' = IF at' = "drive_round" THEN round + 1 ELSE round
  /\ UNCHANGED <<left, running, got, objections, verdict, benchVars>>

Check ==
  /\ Begin({"check"})
  /\ verdict' = IF Checks THEN "passed" ELSE "failed"
  /\ UNCHANGED <<left, round, testData, objections, benchVars>>

DropObjection ==
  /\ Begin({"drop_base", "drop"})
  /\ objections' = objections - 1
  /\ UNCHANGED <<left, round, testData, verdict, benchVars>>

-----------------------------------------------------------------------------
(* The sequences.                                                           *)
\* The name a sequence has given the items of agent c.
SeqName(c) ==
  CASE c \in {Handle.pmod_0_gpi, Handle.pmod_0_gpo} -> "pmod_0_seq"
    [] c \in {Handle.pmod_1_gpi, Handle.pmod_1_gpo} -> "pmod_1_seq"
    [] c = Handle.ss_ctrl -> "ss_ctrl_seq"
    [] c = Handle.irq_en  -> "irq_en_seq"

GbusItem(c, cmd, values) ==
  {[cmd |-> cmd, value |-> v] : v \in {v \in values : Fits(v, ItemWidth(SeqName(c)))}}

WriteItems(reg) == {WriteItem(reg, d) : d \in UNION {Masked(w) : w \in Data}}

\* The registers that register_type has.
Dynamic == {"rw_reg", "gpio_r_reg", "gpio_w_reg"}

DynamicItems ==
  (UNION {WriteItems(reg) : reg \in Dynamic}) \cup {ReadItem(reg) : reg \in Dynamic}

\* What the sequence of step l sends to agent c; random values of sampling
\* items do not matter.
ItemsFor(l, c) ==
  LET step == Sends(l) IN
  CASE step.do = "drive"   -> GbusItem(c, "DRIVE", Nibbles)
    [] step.do = "enable"  -> GbusItem(c, "DRIVE", {1})
    [] step.do = "sample"  -> GbusItem(c, "SAMPLE", {0})
    [] step.do = "write"   -> WriteItems(step.reg)
    [] step.do = "read"    -> {ReadItem(step.reg)}
    [] step.do = "dynamic" -> DynamicItems

StartSeq(c) ==
  /\ EdgeTasksDone
  /\ c \in starting
  /\ \E i \in ItemsFor(at, c) :
       /\ StartItem(c, c, i)
       /\ got' = IF Sends(at).do = "write" THEN [got EXCEPT !.written = i.data] ELSE got
  /\ starting' = starting \ {c}
  /\ running' = running \cup {c}
  /\ UNCHANGED <<cocotbVars, process, requestVars, gbusVars, dutVars, test, at,
                 left, round, objections, verdict, checkVars>>

\* A gbus sequence leaves the value of its response.
EndPinSeq(c) ==
  /\ c \in running
  /\ EndGbusSeq(c, c)
  /\ got' = [got EXCEPT ![c] = item'[c].value]
  /\ running' = running \ {c}
  /\ UNCHANGED <<cocotbVars, process, requestVars, gbusVars, dutVars, test, at,
                 left, round, starting, objections, verdict, checkVars>>

\* A read leaves its data; the status says IS_OK even after an error, because
\* bus2reg is given the request item, whose slverr nothing ever sets.
EndRegSeq ==
  /\ EdgeTasksDone
  /\ Ended(Producer)
  /\ got' = IF item[Producer].we THEN got
            ELSE [got EXCEPT !.read = item[Producer].data]
  /\ item' = [item EXCEPT ![Producer] = None]
  /\ running' = running \ {Producer}
  /\ UNCHANGED <<item_queue, current_item, responses, cocotbVars, process,
                 requestVars, gbusVars, dutVars, test, at, left, round, starting,
                 objections, verdict, checkVars>>

-----------------------------------------------------------------------------
(* The drivers and the assertion checkers.                                  *)
ProducerRuns ==
  /\ StartProcess(Producer) \/ GetItem(Producer)
     \/ DriveSetup \/ DriveEnable \/ Complete
  /\ UNCHANGED <<gbusVars, regs, oe, IRQ_REG, COUNT_REG, testVars, checkVars>>

GbusRuns(g) ==
  /\ StartGbus(g) \/ GetGbusItem(g) \/ HandleRequest(g)
  /\ UNCHANGED <<process, requestVars, dutVars, testVars, checkVars>>

\* An assertion that fails is only noted: the checker goes on.
Assertions(irq, irq_en) ==
  /\ passed' = (passed /\ (irq => irq_en = 1) /\ ~(pulse = "high" /\ irq))
  /\ pulse' = IF irq /\ pulse # "high" THEN "high" ELSE "watch"

\* check_assertions finds the reset over and starts both checkers.
StartChecking ==
  /\ Resume(Checkers)
  /\ Assertions(seen.irq, seen.bus[AgentAt("irq_en")])
  /\ UNCHANGED <<rst, seen, dying, reading, sequencerVars, process, requestVars,
                 gbusVars, dutVars, testVars>>

CheckAssertions ==
  /\ Settled
  /\ Checkers \in reading
  /\ reading' = reading \ {Checkers}
  /\ Assertions(Dut!irq, At("irq_en"))
  /\ UNCHANGED <<rst, seen, awake, dying, sequencerVars, process, requestVars,
                 gbusVars, dutVars, testVars>>

Tasks ==
  \/ AssertReset \/ ReleaseReset \/ ClearIrqEn
  \/ Wait \/ ForkStep \/ Check \/ DropObjection
  \/ \E c \in Clients : StartSeq(c)
  \/ \E c \in Buses : EndPinSeq(c)
  \/ EndRegSeq
  \/ ProducerRuns
  \/ \E g \in Buses : GbusRuns(g)
  \/ StartChecking \/ CheckAssertions

Next == Clk \/ Tasks

Spec == Init /\ [][Next]_vars

\* The simulator runs the tasks and the clock until the run phase is over.
FairSpec == Spec /\ WF_vars(Tasks) /\ WF_vars(Clk)

-----------------------------------------------------------------------------
(* The last part: no agent drives a value that its bus has no room for,     *)
(* though the factory decides the width of an item by its name and not by   *)
(* the agent it is for.                                                     *)
TypeOK ==
  /\ rst \in {"z", "0", "1"}
  /\ awake \subseteq Ports \cup {Checkers}
  /\ dying = {} /\ reading \subseteq {Checkers}
  /\ stage \in [Clients -> Stages]
  /\ process \in [ApbPorts -> {"reset", "get", "align", "enable", "ready"}]
  /\ driving \in [Buses -> {"release", "item", "align"}]
  /\ item[Producer] \in ApbItems \cup {None}
  /\ op \in [we : BOOLEAN, addr : Addr \cup {X}, wdata : Data \cup {X}]
  /\ Dut!SubordinateTypeOK
  /\ IRQ_REG \in BOOLEAN /\ COUNT_REG \in 0 .. Threshold + 15
  /\ test \in DOMAIN Tests
  /\ at \in DOMAIN BaseTest \cup DOMAIN Tests[test] \cup {"drop"}
  /\ starting \cup running \subseteq IF at \in Forks THEN Sends(at).clients ELSE {}
  /\ objections \in 0 .. 2 /\ verdict \in {"none", "passed", "failed"}
  /\ pulse \in {"off", "watch", "high"} /\ passed \in BOOLEAN
  /\ \A g \in Buses : Fits(bus[g], BusWidth[AgentCfg[g]])

(* Every test passes on this design: what it has written, driven or sampled *)
(* is what it finds on the other side when it looks, with the cycles it     *)
(* waits in between, the addresses of its register model and the signals    *)
(* its agents are connected to; nor do the assertion checkers find anything *)
(* by then, whatever is driven on the pins that the interrupt counts.       *)
TestsPass == RunPhaseOver => verdict = "passed" /\ passed

(* Every test comes to its end: no sequence waits for ever for its driver,  *)
(* nor the producer for the design.                                         *)
TestsEnd == <>RunPhaseOver

=============================================================================
