------------------------- MODULE StudentBench_proofs -------------------------
(* Proofs about StudentBench: for any values of the data, any random         *)
(* pin values, any number of rounds, any threshold of the interrupt and any *)
(* length of the reset, with and without masked data, every assert of the   *)
(* tests and of the assertion checkers holds, every step brings a test      *)
(* closer to its end, and until then there is one to take.                  *)
EXTENDS StudentBench, TLAPS

-----------------------------------------------------------------------------
(* The inductive invariant: what holds at each step of each test.  TestsPass *)
(* needs nearly all of it, because a check at the end compares what has      *)
(* passed through a sequence, a driver, the design and its pins.             *)
Over == starting \cup running = {}

Unchecked ==
  DOMAIN BaseTest
    \cup {"drop_base", "write_rw", "read_rw", "drive_gpi", "wait_gpi", "read_gpio",
          "write_gpio", "wait_gpo", "sample_gpo", "wait_ctrl", "enable_irq", "wait_irq"}
    \cup IF test = "ss_ctrl" THEN {"drive_ctrl", "read_ctrl"} ELSE {}

\* What follows from the step that the test is at.
ProgramInv ==
  /\ left \in Nat /\ (left > 0 => at \in Waits)
  /\ rst = IF at = "power_up" THEN "z"
           ELSE IF at \in {"assert_reset", "hold_reset"} THEN "0" ELSE "1"
  /\ objections = IF at \in DOMAIN BaseTest THEN 2 ELSE IF at = "drop" THEN 0 ELSE 1
  /\ verdict = IF at \in Unchecked THEN "none" ELSE "passed"

\* Every sequence has its sequencer for itself.
HandshakeInv ==
  /\ DOMAIN item = Clients /\ DOMAIN responses = Ports
  /\ DOMAIN got = {"written", "read"} \cup Buses
  /\ starting \cap running = {}
  /\ \A c \in Clients : stage[c] = "idle" <=> c \notin running
  /\ item_queue = [p \in Ports |-> IF stage[p] = "queued" THEN <<p>> ELSE <<>>]
  /\ current_item = [p \in Ports |-> IF stage[p] = "sent" THEN p ELSE None]
  /\ \A g \in Buses : driving[g] = "align" <=> stage[g] = "sent"
  /\ process[Producer] \in {"align", "enable", "ready"} <=> stage[Producer] = "sent"

\* Nothing runs before the reset is released.
StoppedInv ==
  rst # "1" =>
    /\ awake = {} /\ process[Producer] = "reset"
    /\ \A g \in Buses : driving[g] = "release"

Sent == item[Producer]

ItemInv ==
  /\ \A c \in Clients : stage[c] \in {"queued", "sent"} => item[c] \in ItemsFor(at, c)
  /\ stage[Producer] # "idle" =>
       /\ Sent \in ApbItems
       /\ Sends(at).do = "read" => ~Sent.we
       /\ Sends(at).do = "write" => Sent.we /\ got.written = Sent.data

\* The pins are as they were when the response was made.
ResponseInv ==
  \A g \in Buses :
    IF stage[g] = "finished"
    THEN /\ responses[g] # <<>> /\ Tail(responses[g]) = <<>>
         /\ Head(responses[g]).value = bus[g]
    ELSE responses[g] = <<>>

ApbInv ==
  /\ PSEL <=> process[Producer] \in {"enable", "ready"}
  /\ PREADY <=> process[Producer] = IF Producer \in awake THEN "enable" ELSE "ready"
  /\ PSEL => /\ op.we = Sent.we /\ op.addr = Sent.addr
             /\ op.we => op.wdata = Sent.data
  /\ process[Producer] = "ready" /\ Producer \in awake => seen.apb.rdata = PRDATA

\* The design has performed the access of the producer.
Performed ==
  \/ process[Producer] = "ready"
  \/ process[Producer] = "enable" /\ Producer \in awake

WordInv ==
  /\ oe \in [Dut!Pmods -> BOOLEAN]
  /\ bus \in [Buses -> Nat]
  /\ regs[8] < 256

Written ==
  \/ /\ at \in {"write_rw", "write_gpio"} /\ Producer \notin starting
     /\ stage[Producer] \in {"idle", "finished"} \/ Performed
  \/ at \in {"read_rw", "wait_gpo", "sample_gpo"}

Gpi == At("pmod_0_gpi") + 16 * At("pmod_1_gpi")
Gpo == At("pmod_0_gpo") + 16 * At("pmod_1_gpo")

\* What is written is in the register from then on, and on the pins.
WrittenInv ==
  Written =>
    /\ test = "rw" => regs[0] = got.written
    /\ test = "write_pmod" => oe[0] /\ regs[8] = got.written /\ Gpo = got.written

\* The pins of agent g are those that the sequence at step l has left.
Since(l, g, later) == (at = l /\ g \notin starting \cup running) \/ at \in later

GotInv ==
  /\ test = "read_pmod" =>
       \A g \in {Handle.pmod_0_gpi, Handle.pmod_1_gpi} :
         Since("drive_gpi", g, {"wait_gpi", "read_gpio"}) => got[g] = bus[g]
  /\ test = "ss_ctrl" =>
       LET g == Handle.ss_ctrl IN
       Since("drive_ctrl", g, {"read_ctrl", "wait_ctrl"}) => got[g] = bus[g]
  /\ test = "write_pmod" =>
       \A g \in {Handle.pmod_0_gpo, Handle.pmod_1_gpo} :
         Since("sample_gpo", g, {}) => got[g] = bus[g]

SampleInv ==
  at = "sample_gpo" => \A g \in Buses \cap awake : seen.bus[g] = bus[g]

\* The pins are in their registers when the read is performed.
LoadedInv ==
  /\ test = "read_pmod" =>
       /\ ~oe[0]
       /\ (at = "wait_gpi" /\ left = 0) \/ at = "read_gpio" => regs[4] = Gpi
  /\ /\ at = "read_ctrl"
     /\ PSEL \/ (process[Producer] = "align" /\ Producer \in awake)
     => regs[12] = At("ss_ctrl")

\* What the read of the test is to find.
Intended ==
  IF test = "rw" THEN got.written
  ELSE IF test = "read_pmod"
  THEN got[Handle.pmod_0_gpi] + 16 * got[Handle.pmod_1_gpi]
  ELSE got[Handle.ss_ctrl]

ReadInv ==
  test # "random" =>
    /\ at \in {"read_rw", "read_gpio", "read_ctrl"} =>
         /\ Performed => PRDATA = Intended
         /\ stage[Producer] = "finished" => Sent.data = Intended
         /\ Over => got.read = Intended
    /\ at = "wait_ctrl" => got.read = Intended

IrqEnInv ==
  LET g == Handle.irq_en IN
  /\ at = "enable_irq" /\ g \notin starting /\ stage[g] \in {"idle", "finished"} =>
       bus[g] = 1
  /\ at = "wait_irq" => bus[g] = 1
  /\ at = "wait_irq" /\ left = 0 => seen.bus[g] = 1

\* A pulse that the checkers have found is over at the next edge.
CheckersInv ==
  /\ passed
  /\ at \in DOMAIN BaseTest => At("irq_en") = 0
  /\ rst = "z" => pulse = "watch"
  /\ rst = "0" => pulse = "off"
  /\ Checkers \in reading => pulse # "off"
  /\ Checkers \in awake => pulse = "off" /\ ~seen.irq
  /\ pulse = "off" /\ Checkers \notin awake => ~IRQ_REG
  /\ pulse = "high" =>
       IF Checkers \in reading THEN ~IRQ_REG ELSE IRQ_REG /\ At("irq_en") = 1

IInv ==
  /\ TypeOK /\ ProgramInv /\ HandshakeInv /\ StoppedInv
  /\ ItemInv /\ ResponseInv /\ ApbInv /\ WordInv
  /\ WrittenInv /\ GotInv /\ SampleInv /\ LoadedInv /\ ReadInv
  /\ IrqEnInv /\ CheckersInv

-----------------------------------------------------------------------------
(* The seven agents, their drivers and sequences, beside the producer. *)
LEMMA Names ==
  /\ Buses = {"pmod_0_gpi_agent", "pmod_0_gpo_agent", "pmod_1_gpi_agent",
              "pmod_1_gpo_agent", "ss_ctrl_agent", "irq_en_agent", "irq_agent"}
  /\ Producer = "producer" /\ ApbPorts = {Producer} /\ Producer \notin Buses
  /\ Ports = Buses \cup {Producer} /\ Clients = Ports
  /\ None \notin Clients
BY StudentBenchAssumption, UvmSequencerAssumption DEF AgentCfg, Producer

(* The constants as numbers. *)
LEMMA Limits == Threshold \in Nat /\ Data \subseteq Nat /\ {0, 4, 8, 12} \subseteq Addr
BY StudentBenchAssumption

(* The agents the virtual sequencer has, by handle. *)
LEMMA Handles ==
  /\ Handle.pmod_0_gpi = "pmod_0_gpi_agent" /\ Handle.pmod_0_gpo = "pmod_0_gpo_agent"
  /\ Handle.pmod_1_gpi = "pmod_1_gpi_agent" /\ Handle.pmod_1_gpo = "pmod_1_gpo_agent"
  /\ Handle.ss_ctrl = "ss_ctrl_agent" /\ Handle.irq_en = "irq_en_agent"
BY DEF Handle

(* Each signal of the design is the bus of the agent that the virtual       *)
(* sequencer has the handle of.                                             *)
LEMMA Wiring ==
  /\ AgentAt("pmod_0_gpi") = "pmod_0_gpi_agent"
  /\ AgentAt("pmod_0_gpo") = "pmod_0_gpo_agent"
  /\ AgentAt("pmod_1_gpi") = "pmod_1_gpi_agent"
  /\ AgentAt("pmod_1_gpo") = "pmod_1_gpo_agent"
  /\ AgentAt("ss_ctrl") = "ss_ctrl_agent"
  /\ AgentAt("irq_en") = "irq_en_agent"
<1>1. /\ SignalOf("pmod_0_gpi_agent") = "pmod_0_gpi"
      /\ SignalOf("pmod_0_gpo_agent") = "pmod_0_gpo"
      /\ SignalOf("pmod_1_gpi_agent") = "pmod_1_gpi"
      /\ SignalOf("pmod_1_gpo_agent") = "pmod_1_gpo"
      /\ SignalOf("ss_ctrl_agent") = "ss_ctrl"
      /\ SignalOf("irq_en_agent") = "irq_en"
      /\ SignalOf("irq_agent") = "irq"
  BY DEF SignalOf, Signal, Vif, AgentCfg
<1> QED BY <1>1, Names DEF AgentAt

(* The width of an agent's bus, and that of the items its sequences send. *)
LEMMA Widths ==
  /\ \A g \in {"pmod_0_gpi_agent", "pmod_0_gpo_agent", "pmod_1_gpi_agent",
               "pmod_1_gpo_agent"} : BusWidth[AgentCfg[g]] = 4
  /\ BusWidth[AgentCfg["ss_ctrl_agent"]] = 8
  /\ \A g \in {"irq_en_agent", "irq_agent"} : BusWidth[AgentCfg[g]] = 1
BY DEF BusWidth, AgentCfg

(* The factory gives each sequence items as wide as the bus they are for. *)
LEMMA ItemWidths ==
  /\ \A g \in {"pmod_0_gpi_agent", "pmod_0_gpo_agent", "pmod_1_gpi_agent",
               "pmod_1_gpo_agent"} : ItemWidth(SeqName(g)) = 4
  /\ ItemWidth(SeqName("ss_ctrl_agent")) = 8
  /\ ItemWidth(SeqName("irq_en_agent")) = 1
<1>1. DOMAIN InstOverrides = {"ss_ctrl", "pmod", "irq"}
  BY DEF InstOverrides
<1>2. /\ NamedLike("ss_ctrl") = {"ss_ctrl_seq"}
      /\ NamedLike("pmod") = {"pmod_0_seq", "pmod_1_seq"}
      /\ NamedLike("irq") = {"irq_en_seq"}
  BY DEF NamedLike
<1>3. ASSUME NEW s \in {"pmod_0_seq", "pmod_1_seq"} PROVE ItemWidth(s) = 4
  <2>1. \A p \in DOMAIN InstOverrides : s \in NamedLike(p) <=> p = "pmod"
    BY <1>1, <1>2
  <2>2. (CHOOSE p \in DOMAIN InstOverrides : s \in NamedLike(p)) = "pmod"
    BY <1>1, <2>1
  <2> QED BY <1>1, <2>1, <2>2 DEF ItemWidth, InstOverrides
<1>4. ItemWidth("ss_ctrl_seq") = 8
  <2>1. \A p \in DOMAIN InstOverrides : "ss_ctrl_seq" \in NamedLike(p) <=> p = "ss_ctrl"
    BY <1>1, <1>2
  <2>2. (CHOOSE p \in DOMAIN InstOverrides : "ss_ctrl_seq" \in NamedLike(p)) = "ss_ctrl"
    BY <1>1, <2>1
  <2> QED BY <1>1, <2>1, <2>2 DEF ItemWidth, InstOverrides
<1>5. ItemWidth("irq_en_seq") = 1
  <2>1. \A p \in DOMAIN InstOverrides : "irq_en_seq" \in NamedLike(p) <=> p = "irq"
    BY <1>1, <1>2
  <2>2. (CHOOSE p \in DOMAIN InstOverrides : "irq_en_seq" \in NamedLike(p)) = "irq"
    BY <1>1, <2>1
  <2> QED BY <1>1, <2>1, <2>2 DEF ItemWidth, InstOverrides
<1>6. /\ SeqName("pmod_0_gpi_agent") = "pmod_0_seq"
      /\ SeqName("pmod_0_gpo_agent") = "pmod_0_seq"
      /\ SeqName("pmod_1_gpi_agent") = "pmod_1_seq"
      /\ SeqName("pmod_1_gpo_agent") = "pmod_1_seq"
      /\ SeqName("ss_ctrl_agent") = "ss_ctrl_seq"
      /\ SeqName("irq_en_agent") = "irq_en_seq"
  BY Handles DEF SeqName
<1> QED BY <1>3, <1>4, <1>5, <1>6

(* What fits into the widths that occur. *)
LEMMA Spans ==
  \A v \in Nat : /\ Fits(v, 1) <=> v < 2
                 /\ Fits(v, 4) <=> v < 16
                 /\ Fits(v, 8) <=> v < 256
BY DEF Fits

(* The addresses of the register model are the offsets of the design. *)
LEMMA Addresses ==
  /\ Address("rw_reg") = 0 /\ Address("gpio_r_reg") = 4
  /\ Address("gpio_w_reg") = 8 /\ Address("ss_ctrl_reg") = 12
BY DEF Address, Offset

-----------------------------------------------------------------------------
(* The steps that start sequences: on which agents, and what they send. *)
Writes == {"write_rw", "write_gpio"}
Reads == {"read_rw", "read_gpio", "read_ctrl"}
Dynamics == {"dynamic_1", "dynamic_2", "dynamic_3"}
Drives == {"drive_gpi", "drive_round", "drive_ctrl"}

(* Each step by what it sends. *)
LEMMA ForkSteps ==
  /\ Forks = Writes \cup Reads \cup Dynamics \cup Drives
               \cup {"enable_irq", "sample_gpo"}
  /\ \A l \in Writes : Sends(l).do = "write" /\ Sends(l).clients = {Producer}
  /\ \A l \in Reads : Sends(l).do = "read" /\ Sends(l).clients = {Producer}
  /\ \A l \in Dynamics : Sends(l).do = "dynamic" /\ Sends(l).clients = {Producer}
  /\ \A l \in Drives : Sends(l).do = "drive"
  /\ \A l \in {"drive_gpi", "drive_round"} :
       Sends(l).clients = {"pmod_0_gpi_agent", "pmod_1_gpi_agent"}
  /\ Sends("drive_ctrl").clients = {"ss_ctrl_agent"}
  /\ Sends("enable_irq").do = "enable" /\ Sends("enable_irq").clients = {"irq_en_agent"}
  /\ Sends("sample_gpo").do = "sample"
  /\ Sends("sample_gpo").clients = {"pmod_0_gpo_agent", "pmod_1_gpo_agent"}
  /\ Sends("write_rw").reg = "rw_reg" /\ Sends("write_gpio").reg = "gpio_w_reg"
  /\ Sends("read_rw").reg = "rw_reg" /\ Sends("read_gpio").reg = "gpio_r_reg"
  /\ Sends("read_ctrl").reg = "ss_ctrl_reg"
<1> USE Handles DEF Drive, Access, DriveGpiPins, SampleGpoPins, DynamicSeq, RwVseq,
      ReadPmodVseq, WritePmodVseq, SsCtrlVseq, IrqVseq, RandomVseq
<1>1. Forks = Writes \cup Reads \cup Dynamics \cup Drives
                \cup {"enable_irq", "sample_gpo"}
  BY DEF Forks, Writes, Reads, Dynamics, Drives
<1>2. /\ Sends("write_rw") = Access("write", "rw_reg")
      /\ Sends("write_gpio") = Access("write", "gpio_w_reg")
      /\ Sends("read_rw") = Access("read", "rw_reg")
      /\ Sends("read_gpio") = Access("read", "gpio_r_reg")
      /\ Sends("read_ctrl") = Access("read", "ss_ctrl_reg")
      /\ Sends("dynamic_1") = DynamicSeq
      /\ Sends("dynamic_2") = DynamicSeq
      /\ Sends("dynamic_3") = DynamicSeq
  BY DEF Sends
<1>3. /\ Sends("drive_gpi") = DriveGpiPins
      /\ Sends("drive_round") = DriveGpiPins
      /\ Sends("drive_ctrl") = Drive({Handle.ss_ctrl})
      /\ Sends("sample_gpo") = SampleGpoPins
      /\ Sends("enable_irq") = [Drive({Handle.irq_en}) EXCEPT !.do = "enable"]
  BY DEF Sends
<1> QED BY <1>1, <1>2, <1>3 DEF Writes, Reads, Dynamics, Drives

(* What a register access sends: the mask leaves one byte of the word. *)
LEMMA WordsMasked ==
  ASSUME NEW w \in Data, NEW d \in Masked(w) PROVE d \in Data /\ d \in Nat /\ d < 256
<1>1. w \in Nat /\ d \in Data /\ d \in Nat
  BY StudentBenchAssumption
<1>2. d = w % 16 \/ d = (w % 256) - (w % 16) \/ d = w % 256
  BY DEF Masked
<1> QED BY <1>1, <1>2

(* A write item is a write of one byte at the address of its register. *)
LEMMA WriteItemsAre ==
  ASSUME NEW reg \in Registers, NEW i \in WriteItems(reg)
  PROVE  /\ i \in ApbItems /\ i.strb = TRUE /\ i.we = TRUE
         /\ i.addr = Address(reg) /\ i.data \in Data /\ i.data < 256
<1>1. PICK d \in UNION {Masked(w) : w \in Data} : i = WriteItem(reg, d)
  BY DEF WriteItems
<1>2. d \in Data /\ d < 256
  BY WordsMasked
<1>3. Address(reg) \in Addr
  BY Addresses, StudentBenchAssumption DEF Registers
<1> QED BY <1>1, <1>2, <1>3 DEF WriteItem, ApbItems

(* A read item is a read at the address of its register. *)
LEMMA ReadItemsAre ==
  ASSUME NEW reg \in Registers
  PROVE  /\ ReadItem(reg) \in ApbItems /\ ReadItem(reg).strb = TRUE
         /\ ReadItem(reg).we = FALSE /\ ReadItem(reg).addr = Address(reg)
<1>1. Address(reg) \in Addr
  BY Addresses, StudentBenchAssumption DEF Registers
<1> QED BY <1>1, BusTypesAssumption DEF ReadItem, ApbItems

(* The items of a register access, and where they go. *)
LEMMA AccessItems ==
  \A l \in Writes \cup Reads \cup Dynamics, c \in Clients : \A i \in ItemsFor(l, c) :
    /\ i \in ApbItems /\ i.strb = TRUE
    /\ i.we = TRUE => i.data \in Data /\ i.data < 256
    /\ l \in Writes => i.we = TRUE
    /\ l \in Reads => i.we = FALSE
    /\ l \in {"write_rw", "read_rw"} => i.addr = 0
    /\ l = "read_gpio" => i.addr = 4
    /\ l = "write_gpio" => i.addr = 8
    /\ l = "read_ctrl" => i.addr = 12
<1> SUFFICES ASSUME NEW l \in Writes \cup Reads \cup Dynamics, NEW c \in Clients,
                    NEW i \in ItemsFor(l, c)
             PROVE  /\ i \in ApbItems /\ i.strb = TRUE
                    /\ i.we = TRUE => i.data \in Data /\ i.data < 256
                    /\ l \in Writes => i.we = TRUE
                    /\ l \in Reads => i.we = FALSE
                    /\ l \in {"write_rw", "read_rw"} => i.addr = 0
                    /\ l = "read_gpio" => i.addr = 4
                    /\ l = "write_gpio" => i.addr = 8
                    /\ l = "read_ctrl" => i.addr = 12
  OBVIOUS
<1>1. CASE l \in Writes
  <2>1. ItemsFor(l, c) = WriteItems(Sends(l).reg)
    BY <1>1, ForkSteps DEF ItemsFor
  <2>2. Sends(l).reg = IF l = "write_rw" THEN "rw_reg" ELSE "gpio_w_reg"
    BY <1>1, ForkSteps DEF Writes
  <2>3. Sends(l).reg \in Registers
    BY <2>2 DEF Registers
  <2>4. /\ i \in ApbItems /\ i.strb = TRUE /\ i.we = TRUE
        /\ i.addr = Address(Sends(l).reg) /\ i.data \in Data /\ i.data < 256
    BY <2>1, <2>3, WriteItemsAre
  <2> QED BY <1>1, <2>2, <2>4, Addresses DEF Writes, Reads
<1>2. CASE l \in Reads
  <2>1. ItemsFor(l, c) = {ReadItem(Sends(l).reg)}
    BY <1>2, ForkSteps DEF ItemsFor
  <2>2. Sends(l).reg = IF l = "read_rw" THEN "rw_reg"
                       ELSE IF l = "read_gpio" THEN "gpio_r_reg" ELSE "ss_ctrl_reg"
    BY <1>2, ForkSteps DEF Reads
  <2> QED BY <1>2, <2>1, <2>2, ReadItemsAre, Addresses DEF Registers, Writes, Reads
<1>3. CASE l \in Dynamics
  <2>1. ItemsFor(l, c) = DynamicItems
    BY <1>3, ForkSteps DEF ItemsFor
  <2>2. PICK reg \in Dynamic : i \in WriteItems(reg) \/ i = ReadItem(reg)
    <3> DEFINE W == UNION {WriteItems(reg) : reg \in Dynamic}
               R == {ReadItem(reg) : reg \in Dynamic}
    <3>1. CASE i \in W
      <4>1. PICK S \in {WriteItems(reg) : reg \in Dynamic} : i \in S
        BY <3>1
      <4> QED BY <4>1
    <3>2. CASE i \in R
      BY <3>2
    <3>3. ItemsFor(l, c) = W \cup R
      BY <2>1 DEF DynamicItems
    <3> HIDE DEF W, R
    <3> QED BY <3>1, <3>2, <3>3
  <2>3. reg \in Registers
    BY DEF Dynamic, Registers
  <2>4. CASE i \in WriteItems(reg)
    BY <1>3, <2>3, <2>4, WriteItemsAre DEF Writes, Reads, Dynamics
  <2>5. CASE i = ReadItem(reg)
    BY <1>3, <2>3, <2>5, ReadItemsAre DEF Writes, Reads, Dynamics
  <2> QED BY <2>2, <2>4, <2>5
<1> QED BY <1>1, <1>2, <1>3

(* What the agents of the pins are sent: only the test that samples them    *)
(* sends samples, and nothing is driven that is too wide.                   *)
LEMMA PinItems ==
  ASSUME NEW l \in Drives \cup {"enable_irq", "sample_gpo"}, NEW g \in Sends(l).clients,
         NEW i \in ItemsFor(l, g)
  PROVE  /\ g \in Buses /\ i.value \in Nat /\ Fits(i.value, BusWidth[AgentCfg[g]])
         /\ i = [cmd |-> i.cmd, value |-> i.value]
         /\ i.cmd = IF l = "sample_gpo" THEN "SAMPLE" ELSE "DRIVE"
         /\ l = "enable_irq" => i.value = 1
         /\ g = "irq_en_agent" <=> l = "enable_irq"
<1> DEFINE cmd == IF l = "sample_gpo" THEN "SAMPLE" ELSE "DRIVE"
           values == IF l = "sample_gpo" THEN {0} ELSE IF l = "enable_irq" THEN {1}
                     ELSE Nibbles
<1>1. ItemsFor(l, g) = GbusItem(g, cmd, values)
  BY ForkSteps DEF ItemsFor, Drives
<1>2. PICK v \in values : /\ Fits(v, ItemWidth(SeqName(g)))
                          /\ i = [cmd |-> cmd, value |-> v]
  BY <1>1 DEF GbusItem
<1>3. /\ g \in {"pmod_0_gpi_agent", "pmod_0_gpo_agent", "pmod_1_gpi_agent",
               "pmod_1_gpo_agent", "ss_ctrl_agent", "irq_en_agent"}
      /\ g = "irq_en_agent" <=> l = "enable_irq"
  BY ForkSteps DEF Drives
<1>4. g \in Buses /\ ItemWidth(SeqName(g)) = BusWidth[AgentCfg[g]]
  BY <1>3, Names, Widths, ItemWidths
<1>5. v \in Nat
  BY StudentBenchAssumption
<1> QED BY <1>2, <1>3, <1>4, <1>5

-----------------------------------------------------------------------------
(* The order of the steps: where a test can be when it begins one. *)
BaseSteps ==
  {"power_up", "assert_reset", "hold_reset", "release_reset", "clear_irq_en", "settle"}

(* The steps there are. *)
LEMMA StepNames ==
  /\ DOMAIN BaseTest = BaseSteps
  /\ DOMAIN Tests = {"rw", "read_pmod", "write_pmod", "ss_ctrl", "irq", "random"}
  /\ DOMAIN RwTest = {"drop_base", "write_rw", "read_rw", "check", "wait"}
  /\ DOMAIN ReadPmodTest =
       {"drop_base", "drive_gpi", "wait_gpi", "read_gpio", "check", "wait"}
  /\ DOMAIN WritePmodTest =
       {"drop_base", "write_gpio", "wait_gpo", "sample_gpo", "check", "wait"}
  /\ DOMAIN SsCtrlTest = {"drop_base", "drive_ctrl", "read_ctrl", "wait_ctrl", "check"}
  /\ DOMAIN IrqTest = {"drop_base", "enable_irq", "wait_irq", "check"}
  /\ DOMAIN RandomTest =
       {"drop_base", "enable_irq", "wait_irq", "check", "drive_ctrl", "read_ctrl",
        "wait", "drive_round"} \cup Dynamics
BY DEF BaseTest, BaseSteps, Tests, RwTest, ReadPmodTest, WritePmodTest, SsCtrlTest,
       IrqTest, RandomTest, Dynamics

TestIs(name, steps) == test = name /\ at \in steps

(* A step is begun from one place, and in the tests that have it only. *)
LEMMA Predecessors ==
  ASSUME test \in DOMAIN Tests, at \in DOMAIN BaseTest \cup DOMAIN Tests[test],
         NEW n, n = Following
  PROVE  /\ n # "power_up"
         /\ n = "assert_reset" => at = "power_up"
         /\ n = "hold_reset" => at = "assert_reset"
         /\ n = "release_reset" => at = "hold_reset"
         /\ n = "clear_irq_en" => at = "release_reset"
         /\ n = "settle" => at = "clear_irq_en"
         /\ n = "drop_base" => at = "settle"
         /\ n = "write_rw" => TestIs("rw", {"drop_base"})
         /\ n = "read_rw" => TestIs("rw", {"write_rw"})
         /\ n = "drive_gpi" => TestIs("read_pmod", {"drop_base"})
         /\ n = "wait_gpi" => TestIs("read_pmod", {"drive_gpi"})
         /\ n = "read_gpio" => TestIs("read_pmod", {"wait_gpi"})
         /\ n = "write_gpio" => TestIs("write_pmod", {"drop_base"})
         /\ n = "wait_gpo" => TestIs("write_pmod", {"write_gpio"})
         /\ n = "sample_gpo" => TestIs("write_pmod", {"wait_gpo"})
         /\ n = "drive_ctrl" =>
              TestIs("ss_ctrl", {"drop_base"}) \/ TestIs("random", {"check"})
         /\ n = "read_ctrl" => at = "drive_ctrl" /\ test \in {"ss_ctrl", "random"}
         /\ n = "wait_ctrl" => TestIs("ss_ctrl", {"read_ctrl"})
         /\ n = "enable_irq" => at = "drop_base" /\ test \in {"irq", "random"}
         /\ n = "wait_irq" => at = "enable_irq" /\ test \in {"irq", "random"}
         /\ n \in {"drive_round"} \cup Dynamics =>
              TestIs("random", {"wait", "drive_round"} \cup Dynamics)
         /\ n = "check" =>
              \/ TestIs("rw", {"read_rw"}) \/ TestIs("read_pmod", {"read_gpio"})
              \/ TestIs("write_pmod", {"sample_gpo"}) \/ TestIs("ss_ctrl", {"wait_ctrl"})
              \/ TestIs("irq", {"wait_irq"}) \/ TestIs("random", {"wait_irq"})
         /\ n = "wait" =>
              \/ at = "check" /\ test \in {"rw", "read_pmod", "write_pmod"}
              \/ TestIs("random", {"read_ctrl"} \cup Dynamics)
         /\ n = "drop" =>
              \/ at = "wait" /\ test \in {"rw", "read_pmod", "write_pmod", "random"}
              \/ at = "check" /\ test \in {"ss_ctrl", "irq"}
         /\ n \in DOMAIN BaseTest \cup DOMAIN Tests[test] \cup {"drop"}
<1> USE DEF TestIs, Dynamics
<1>1. CASE at \in BaseSteps
  <2>1. n = BaseTest[at]
    BY <1>1, StepNames DEF Following
  <2> QED BY <1>1, <2>1, StepNames DEF BaseTest, BaseSteps, Tests
<1>2. CASE at \notin BaseSteps
  <2>1. n = Tests[test][at] /\ at \in DOMAIN Tests[test]
    BY <1>2, StepNames DEF Following
  <2>2. CASE test = "rw"
    BY <2>1, <2>2, StepNames DEF Tests, RwTest
  <2>3. CASE test = "read_pmod"
    BY <2>1, <2>3, StepNames DEF Tests, ReadPmodTest
  <2>4. CASE test = "write_pmod"
    BY <2>1, <2>4, StepNames DEF Tests, WritePmodTest
  <2>5. CASE test = "ss_ctrl"
    BY <2>1, <2>5, StepNames DEF Tests, SsCtrlTest
  <2>6. CASE test = "irq"
    BY <2>1, <2>6, StepNames DEF Tests, IrqTest
  <2>7. CASE test = "random"
    BY <2>1, <2>7, StepNames DEF Tests, RandomTest
  <2> QED BY <2>2, <2>3, <2>4, <2>5, <2>6, <2>7, StepNames
<1> QED BY <1>1, <1>2

(* The steps of a test are the same in every round, what follows them is not. *)
LEMMA NextStepNames ==
  /\ DOMAIN Tests' = DOMAIN Tests
  /\ \A t \in DOMAIN Tests : DOMAIN (Tests'[t]) = DOMAIN (Tests[t])
BY DEF Tests, RwTest, ReadPmodTest, WritePmodTest, SsCtrlTest, IrqTest, RandomTest

-----------------------------------------------------------------------------
(* While the test runs nobody else does: no sequence, and no driver that    *)
(* has an item.                                                             *)
LEMMA NobodyElse ==
  ASSUME IInv, TestRuns
  PROVE  /\ awake = {} /\ dying = {} /\ left = 0 /\ starting = {} /\ running = {}
         /\ at \in DOMAIN BaseTest \cup DOMAIN Tests[test]
         /\ \A c \in Clients : stage[c] = "idle"
         /\ process[Producer] \in {"reset", "get"}
         /\ ~PSEL /\ ~PREADY
         /\ \A g \in Buses : driving[g] \in {"release", "item"}
<1>1. awake = {} /\ dying = {} /\ left = 0 /\ starting = {} /\ running = {}
  BY DEF TestRuns, EdgeTasksDone
<1>2. \A c \in Clients : stage[c] = "idle"
  BY <1>1 DEF IInv, HandshakeInv
<1>3. process[Producer] \in {"reset", "get"}
  BY <1>2, Names DEF IInv, HandshakeInv, TypeOK
<1>4. ~PSEL /\ ~PREADY
  BY <1>1, <1>3 DEF IInv, ApbInv
<1>5. \A g \in Buses : driving[g] \in {"release", "item"}
  BY <1>2, Names DEF IInv, HandshakeInv, TypeOK
<1>6. at # "drop"
  BY DEF TestRuns, RunPhaseOver, IInv, ProgramInv, BaseTest
<1> QED BY <1>1, <1>2, <1>3, <1>4, <1>5, <1>6 DEF IInv, TypeOK

(* The parts of the invariant that are about steps of the tests. *)
LEMMA Unconcerned ==
  ASSUME at' \in BaseSteps \cup {"drop_base", "check", "wait", "drop"}
  PROVE  WrittenInv' /\ GotInv' /\ SampleInv' /\ ReadInv' /\ IrqEnInv'
BY DEF BaseSteps, WrittenInv, Written, GotInv, Since, SampleInv, ReadInv, IrqEnInv

(* The test has gone on to its next step. *)
LEMMA Advances ==
  ASSUME IInv, TestRuns, at' = Following, test' = test
  PROVE  /\ test' \in DOMAIN Tests'
         /\ at' \in DOMAIN BaseTest \cup DOMAIN (Tests'[test']) \cup {"drop"}
<1>1. test \in DOMAIN Tests
  BY DEF IInv, TypeOK
<1>2. at' \in DOMAIN BaseTest \cup DOMAIN Tests[test] \cup {"drop"}
  BY <1>1, NobodyElse, Predecessors
<1> QED BY <1>1, <1>2, NextStepNames

(* The reset is pulled: the checkers are killed and the design is cleared. *)
LEMMA AssertResetInv == ASSUME IInv, AssertReset PROVE IInv'
<1>1. /\ awake = {} /\ left = 0 /\ starting = {} /\ running = {}
      /\ \A c \in Clients : stage[c] = "idle"
      /\ \A g \in Buses : driving[g] \in {"release", "item"}
      /\ TestRuns
  BY NobodyElse DEF AssertReset, Begin
<1>2. at = "power_up" /\ at' = "assert_reset"
  BY <1>1, NobodyElse, Predecessors DEF AssertReset, Begin, IInv, TypeOK
<1>3. /\ rst = "z" /\ process[Producer] = "reset"
      /\ \A g \in Buses : driving[g] = "release"
  BY <1>2 DEF IInv, ProgramInv, StoppedInv
<1>4. dying' = {}
  BY <1>3 DEF AssertReset, KillsGbus, GbusAlive
<1>5. /\ PREADY' = FALSE /\ PSLVERR' = FALSE /\ PRDATA' = 0
      /\ regs' = [a \in Addr |-> 0] /\ oe' = [q \in Dut!Pmods |-> FALSE]
      /\ IRQ_REG' = FALSE /\ COUNT_REG' = 0
  BY DEF AssertReset, Dut!Cleared, Dut!SubordinateReset
<1>6. TypeOK'
  <2>1. Dut!SubordinateTypeOK'
    BY <1>5, BusTypesAssumption DEF Dut!SubordinateTypeOK
  <2>2. /\ test' \in DOMAIN Tests'
        /\ at' \in DOMAIN BaseTest \cup DOMAIN (Tests'[test']) \cup {"drop"}
    BY <1>1, Advances DEF AssertReset, Begin
  <2>3. COUNT_REG' \in 0 .. Threshold + 15
    BY <1>5, Limits
  <2>4. IRQ_REG' \in BOOLEAN
    BY <1>5
  <2> QED BY <1>1, <1>4, <2>1, <2>2, <2>3, <2>4
          DEF AssertReset, TypeOK, IInv, sequencerVars, requestVars, gbusVars, testData
<1>7. ProgramInv'
  BY <1>1, <1>2 DEF IInv, ProgramInv, AssertReset, BaseTest, Unchecked
<1>8. HandshakeInv'
  BY DEF IInv, HandshakeInv, AssertReset, sequencerVars, gbusVars, testData
<1>9. StoppedInv'
  BY <1>1, <1>3 DEF IInv, StoppedInv, AssertReset, gbusVars
<1>10. ItemInv' /\ ResponseInv'
  BY <1>1, Names DEF IInv, ItemInv, ResponseInv, AssertReset, sequencerVars, gbusVars
<1>11. ApbInv'
  BY <1>1, <1>3, <1>5 DEF IInv, ApbInv, Sent, AssertReset, sequencerVars, requestVars
<1>12. WordInv'
  BY <1>5, Limits DEF IInv, WordInv, AssertReset, gbusVars
<1>13. WrittenInv' /\ GotInv' /\ SampleInv' /\ ReadInv' /\ IrqEnInv'
  BY <1>2, Unconcerned DEF BaseSteps
<1>14. LoadedInv'
  BY <1>2, <1>5 DEF LoadedInv, Dut!Pmods
<1>15. CheckersInv'
  <2>1. At("irq_en")' = 0
    BY <1>2, StepNames DEF IInv, CheckersInv, BaseSteps, At, AssertReset, gbusVars
  <2> QED BY <1>1, <1>2, <1>5, <2>1 DEF IInv, CheckersInv, AssertReset
<1> QED BY <1>6, <1>7, <1>8, <1>9, <1>10, <1>11, <1>12, <1>13, <1>14, <1>15 DEF IInv

(* The reset is released: the drivers are let go. *)
LEMMA ReleaseResetInv == ASSUME IInv, ReleaseReset PROVE IInv'
<1>1. /\ awake = {} /\ left = 0 /\ starting = {} /\ running = {} /\ ~PSEL /\ ~PREADY
      /\ \A c \in Clients : stage[c] = "idle"
      /\ TestRuns
  BY NobodyElse DEF ReleaseReset, Begin
<1>2. at = "hold_reset" /\ at' = "release_reset"
  BY <1>1, NobodyElse, Predecessors DEF ReleaseReset, Begin, IInv, TypeOK
<1>3. /\ rst = "0" /\ process[Producer] = "reset" /\ pulse = "off" /\ ~IRQ_REG
      /\ \A g \in Buses : driving[g] = "release"
  BY <1>1, <1>2 DEF IInv, ProgramInv, StoppedInv, BaseTest, CheckersInv
<1>4. awake' = Buses /\ Producer \notin awake' /\ Checkers \notin awake'
  BY <1>3, Names DEF ReleaseReset, ReleasesGbus, Checkers
<1>5. TypeOK'
  <2>1. /\ test' \in DOMAIN Tests'
        /\ at' \in DOMAIN BaseTest \cup DOMAIN (Tests'[test']) \cup {"drop"}
    BY <1>1, Advances DEF ReleaseReset, Begin
  <2>2. Dut!SubordinateTypeOK'
    BY DEF IInv, TypeOK, Dut!SubordinateTypeOK, ReleaseReset, dutVars, responseVars
  <2> QED BY <1>1, <1>4, <2>1, <2>2, Names
          DEF ReleaseReset, TypeOK, IInv, sequencerVars, requestVars, gbusVars,
              testData,
              dutVars, checkVars
<1>6. ProgramInv'
  BY <1>1, <1>2 DEF IInv, ProgramInv, ReleaseReset, BaseTest, Unchecked
<1>7. HandshakeInv'
  BY DEF IInv, HandshakeInv, ReleaseReset, sequencerVars, gbusVars, testData
<1>8. StoppedInv'
  BY DEF StoppedInv, ReleaseReset
<1>9. ItemInv' /\ ResponseInv'
  BY <1>1, Names DEF IInv, ItemInv, ResponseInv, ReleaseReset, sequencerVars, gbusVars
<1>10. ApbInv'
  BY <1>1, <1>3, <1>4
     DEF IInv, ApbInv, Sent, ReleaseReset, sequencerVars, requestVars, dutVars, responseVars
<1>11. WordInv'
  BY DEF IInv, WordInv, ReleaseReset, gbusVars, dutVars
<1>12. WrittenInv' /\ GotInv' /\ SampleInv' /\ ReadInv' /\ IrqEnInv'
  BY <1>2, Unconcerned DEF BaseSteps
<1>13. LoadedInv'
  BY <1>2 DEF IInv, LoadedInv, ReleaseReset, dutVars
<1>14. CheckersInv'
  <2>1. At("irq_en")' = 0
    BY <1>2, StepNames DEF IInv, CheckersInv, BaseSteps, At, ReleaseReset, gbusVars
  <2> QED BY <1>1, <1>2, <1>3, <1>4, <2>1
          DEF IInv, CheckersInv, ReleaseReset, dutVars, checkVars
<1> QED BY <1>5, <1>6, <1>7, <1>8, <1>9, <1>10, <1>11, <1>12, <1>13, <1>14 DEF IInv

(* The test takes irq_en away, before an agent can have it. *)
LEMMA ClearIrqEnInv == ASSUME IInv, ClearIrqEn PROVE IInv'
<1>1. /\ awake = {} /\ left = 0 /\ starting = {} /\ running = {} /\ ~PSEL
      /\ \A c \in Clients : stage[c] = "idle"
      /\ TestRuns
  BY NobodyElse DEF ClearIrqEn, Begin
<1>2. at = "release_reset" /\ at' = "clear_irq_en"
  BY <1>1, NobodyElse, Predecessors DEF ClearIrqEn, Begin, IInv, TypeOK
<1>3. bus' = [bus EXCEPT !["irq_en_agent"] = 0]
  BY Wiring DEF ClearIrqEn
<1>4. rst = "1" /\ rst' = "1"
  BY <1>2 DEF IInv, ProgramInv, ClearIrqEn, cocotbVars
<1>5. TypeOK'
  <2>1. /\ test' \in DOMAIN Tests'
        /\ at' \in DOMAIN BaseTest \cup DOMAIN (Tests'[test']) \cup {"drop"}
    BY <1>1, Advances DEF ClearIrqEn, Begin
  <2>2. Dut!SubordinateTypeOK'
    BY DEF IInv, TypeOK, Dut!SubordinateTypeOK, ClearIrqEn, dutVars, responseVars
  <2>3. \A g \in Buses : Fits(bus'[g], BusWidth[AgentCfg[g]])
    BY <1>3, Spans, Widths DEF IInv, TypeOK, WordInv
  <2> QED BY <1>1, <2>1, <2>2, <2>3
          DEF ClearIrqEn, TypeOK, IInv, cocotbVars, sequencerVars, requestVars,
              testData,
              dutVars, checkVars
<1>6. ProgramInv'
  BY <1>1, <1>2, <1>4 DEF IInv, ProgramInv, ClearIrqEn, BaseTest, Unchecked
<1>7. HandshakeInv'
  BY DEF IInv, HandshakeInv, ClearIrqEn, sequencerVars, testData
<1>8. StoppedInv'
  BY <1>4 DEF StoppedInv
<1>9. ItemInv' /\ ResponseInv'
  BY <1>1, Names DEF IInv, ItemInv, ResponseInv, ClearIrqEn, sequencerVars
<1>10. ApbInv'
  BY <1>1 DEF IInv, ApbInv, Sent, ClearIrqEn, cocotbVars, sequencerVars, requestVars,
              dutVars, responseVars
<1>11. WordInv'
  <2>1. bus' \in [Buses -> Nat]
    BY <1>3 DEF IInv, WordInv
  <2> QED BY <2>1 DEF IInv, WordInv, ClearIrqEn, dutVars
<1>12. WrittenInv' /\ GotInv' /\ SampleInv' /\ ReadInv' /\ IrqEnInv'
  BY <1>2, Unconcerned DEF BaseSteps
<1>13. LoadedInv'
  BY <1>2 DEF IInv, LoadedInv, ClearIrqEn, dutVars
<1>14. CheckersInv'
  <2>1. At("irq_en") = 0
    BY <1>2, StepNames DEF IInv, CheckersInv, BaseSteps
  <2>2. At("irq_en")' = 0
    BY <1>3, Wiring, Names DEF At, IInv, WordInv
  <2> QED BY <1>1, <1>2, <1>4, <2>1, <2>2
          DEF IInv, CheckersInv, ClearIrqEn, cocotbVars, dutVars, checkVars
<1> QED BY <1>5, <1>6, <1>7, <1>8, <1>9, <1>10, <1>11, <1>12, <1>13, <1>14 DEF IInv

(* The steps that change nothing but the state of the test itself. *)
LEMMA BenchStays ==
  ASSUME IInv, TestRuns, at' = Following, UNCHANGED benchVars
  PROVE  /\ \A c \in Clients : stage'[c] = "idle"
         /\ awake' = {} /\ ~PSEL' /\ ~PREADY'
         /\ StoppedInv' /\ ItemInv' /\ ResponseInv' /\ ApbInv' /\ WordInv'
         /\ CheckersInv'
         /\ Dut!SubordinateTypeOK'
         /\ test' \in DOMAIN Tests'
         /\ at' \in DOMAIN BaseTest \cup DOMAIN (Tests'[test']) \cup {"drop"}
<1> USE DEF benchVars, cocotbVars, sequencerVars, requestVars, gbusVars, dutVars,
        responseVars, checkVars
<1>1. /\ \A c \in Clients : stage[c] = "idle"
      /\ awake = {} /\ ~PSEL /\ ~PREADY /\ process[Producer] \in {"reset", "get"}
  BY NobodyElse
<1>2. StoppedInv'
  BY DEF IInv, StoppedInv
<1>3. ItemInv' /\ ResponseInv'
  BY <1>1, Names DEF IInv, ItemInv, ResponseInv
<1>4. ApbInv' /\ WordInv'
  BY <1>1 DEF IInv, ApbInv, Sent, WordInv
<1>5. CheckersInv'
  <2>1. at' \in DOMAIN BaseTest => at \in DOMAIN BaseTest
    BY NobodyElse, Predecessors, StepNames DEF IInv, TypeOK, BaseSteps
  <2> QED BY <2>1 DEF IInv, CheckersInv, At
<1>6. Dut!SubordinateTypeOK'
  BY DEF IInv, TypeOK, Dut!SubordinateTypeOK
<1> QED BY <1>1, <1>2, <1>3, <1>4, <1>5, <1>6, Advances

(* The test begins to wait. *)
LEMMA WaitInv == ASSUME IInv, Wait PROVE IInv'
<1> USE DEF benchVars, cocotbVars, sequencerVars, requestVars, gbusVars, dutVars,
        checkVars, testData
<1>1. TestRuns /\ at' = Following /\ at' \in Waits
  BY DEF Wait, Begin
<1>2. /\ \A c \in Clients : stage[c] = "idle"
      /\ left = 0 /\ starting = {} /\ running = {} /\ awake = {} /\ ~PSEL
      /\ process[Producer] \in {"reset", "get"}
      /\ test \in DOMAIN Tests /\ at \in DOMAIN BaseTest \cup DOMAIN Tests[test]
  BY <1>1, NobodyElse DEF IInv, TypeOK
<1>3. left' \in Nat
  BY StudentBenchAssumption DEF Wait
<1>4. at' # "hold_reset" => left' = 1
  BY DEF Wait
<1>5. TypeOK'
  BY <1>1, <1>2, BenchStays DEF Wait, TypeOK, IInv
<1>6. ProgramInv'
  BY <1>1, <1>2, <1>3, Predecessors, StepNames
     DEF IInv, ProgramInv, Wait, Waits, Unchecked, BaseSteps, TestIs, Dynamics
<1>7. HandshakeInv'
  BY <1>2 DEF IInv, HandshakeInv, Wait
<1>8. WrittenInv'
  <2>1. Written' => at' = "wait_gpo" /\ at = "write_gpio" /\ Written
    BY <1>1, <1>2, Names, Predecessors DEF Written, Waits, TestIs
  <2> QED BY <2>1 DEF IInv, WrittenInv, Wait, Gpo, At
<1>9. GotInv'
  <2>1. at' = "wait_gpi" => at = "drive_gpi"
    BY <1>1, <1>2, Predecessors DEF TestIs
  <2>2. at' = "wait_ctrl" => at = "read_ctrl"
    BY <1>1, <1>2, Predecessors DEF TestIs
  <2> QED BY <1>1, <1>2, <2>1, <2>2 DEF IInv, GotInv, Since, Wait, Waits
<1>10. SampleInv'
  BY <1>1 DEF SampleInv, Waits
<1>11. LoadedInv'
  BY <1>1, <1>4 DEF IInv, LoadedInv, Wait, Waits
<1>12. ReadInv'
  <2>1. at' = "wait_ctrl" => at = "read_ctrl" /\ Over
    BY <1>1, <1>2, Predecessors DEF TestIs, Over
  <2> QED BY <1>1, <2>1 DEF IInv, ReadInv, Wait, Waits, Intended
<1>13. IrqEnInv'
  <2>1. at' = "wait_irq" => at = "enable_irq"
    BY <1>1, <1>2, Predecessors
  <2> QED BY <1>1, <1>2, <1>4, <2>1, Names, Handles DEF IInv, IrqEnInv, Wait, Waits
<1> QED BY <1>1, <1>5, <1>6, <1>7, <1>8, <1>9, <1>10, <1>11, <1>12, <1>13, BenchStays
        DEF IInv, Wait

(* The test forks the sequences of a step. *)
LEMMA ForkStepInv == ASSUME IInv, ForkStep PROVE IInv'
<1> USE DEF benchVars, cocotbVars, sequencerVars, requestVars, gbusVars, dutVars,
        checkVars
<1>1. TestRuns /\ at' = Following /\ at' \in Forks
  BY DEF ForkStep, Begin
<1>2. /\ \A c \in Clients : stage[c] = "idle"
      /\ left = 0 /\ starting = {} /\ running = {} /\ awake = {} /\ ~PSEL
      /\ process[Producer] \in {"reset", "get"}
      /\ test \in DOMAIN Tests /\ at \in DOMAIN BaseTest \cup DOMAIN Tests[test]
  BY <1>1, NobodyElse DEF IInv, TypeOK
<1>3. starting' = Sends(at').clients /\ running' = {}
  BY <1>2 DEF ForkStep
<1>4. TypeOK'
  <2>1. starting' \cup running' \subseteq
          IF at' \in Forks THEN Sends(at').clients ELSE {}
    BY <1>1, <1>3
  <2> QED BY <1>1, <1>2, <2>1, BenchStays DEF ForkStep, TypeOK, IInv
<1>5. ProgramInv'
  BY <1>1, <1>2, Predecessors, StepNames, ForkSteps
     DEF IInv, ProgramInv, ForkStep, Unchecked, BaseSteps, TestIs, Writes, Reads,
         Drives,
         Dynamics
<1>6. HandshakeInv'
  BY <1>2, <1>3 DEF IInv, HandshakeInv, ForkStep
<1>7. WrittenInv'
  <2>1. at' \in {"write_rw", "write_gpio"} => Producer \in starting'
    BY <1>3, ForkSteps DEF Writes
  <2>2. Written' => at' \in {"read_rw", "sample_gpo"}
    BY <1>1, <1>2, <2>1, ForkSteps
       DEF Written, Performed, Writes, Reads, Drives, Dynamics, ForkStep
  <2>3. at' = "read_rw" => at = "write_rw" /\ Written
    BY <1>1, <1>2, Names, Predecessors DEF Written, TestIs
  <2>4. at' = "sample_gpo" => at = "wait_gpo" /\ Written
    BY <1>1, <1>2, Predecessors DEF Written, TestIs
  <2> QED BY <2>2, <2>3, <2>4 DEF IInv, WrittenInv, ForkStep, Gpo, At
<1>8. GotInv'
  <2>1. at' = "read_gpio" => at = "wait_gpi"
    BY <1>1, <1>2, Predecessors DEF TestIs
  <2>2. at' = "read_ctrl" => at = "drive_ctrl"
    BY <1>1, <1>2, Predecessors
  <2>3. at' \notin {"wait_gpi", "wait_ctrl"}
    BY <1>1, ForkSteps DEF Writes, Reads, Drives, Dynamics
  <2> QED BY <1>2, <1>3, <2>1, <2>2, <2>3, ForkSteps, Handles
          DEF IInv, GotInv, Since, ForkStep, Drives
<1>9. SampleInv'
  BY <1>2 DEF SampleInv, ForkStep
<1>10. LoadedInv'
  <2>1. at' = "read_gpio" => at = "wait_gpi"
    BY <1>1, <1>2, Predecessors DEF TestIs
  <2>2. at' # "wait_gpi"
    BY <1>1, ForkSteps DEF Writes, Reads, Drives, Dynamics
  <2> QED BY <1>2, <2>1, <2>2 DEF IInv, LoadedInv, ForkStep, Gpi, At
<1>11. ReadInv'
  <2>1. at' \in Reads => Producer \in starting'
    BY <1>3, ForkSteps DEF Reads
  <2>2. at' # "wait_ctrl"
    BY <1>1, ForkSteps DEF Writes, Reads, Drives, Dynamics
  <2> QED BY <1>2, <2>1, <2>2, Names DEF ReadInv, ForkStep, Reads, Performed, Over
<1>12. IrqEnInv'
  <2>1. at' = "enable_irq" => "irq_en_agent" \in starting'
    BY <1>3, ForkSteps
  <2>2. at' # "wait_irq"
    BY <1>1, ForkSteps DEF Writes, Reads, Drives, Dynamics
  <2> QED BY <2>1, <2>2, Handles DEF IrqEnInv
<1> QED BY <1>1, <1>4, <1>5, <1>6, <1>7, <1>8, <1>9, <1>10, <1>11, <1>12, BenchStays
        DEF IInv, ForkStep

(* Whatever a test looks at is as it should be when it looks. *)
LEMMA ChecksPass == ASSUME IInv, TestRuns, Following = "check" PROVE Checks
<1>1. /\ \A c \in Clients : stage[c] = "idle"
      /\ starting = {} /\ running = {} /\ Over /\ left = 0
      /\ test \in DOMAIN Tests /\ at \in DOMAIN BaseTest \cup DOMAIN Tests[test]
  BY NobodyElse DEF IInv, TypeOK, Over
<1>2. \/ TestIs("rw", {"read_rw"}) \/ TestIs("read_pmod", {"read_gpio"})
      \/ TestIs("write_pmod", {"sample_gpo"}) \/ TestIs("ss_ctrl", {"wait_ctrl"})
      \/ TestIs("irq", {"wait_irq"}) \/ TestIs("random", {"wait_irq"})
  BY <1>1, Predecessors
<1>3. CASE test = "rw"
  <2>1. got.read = Intended
    BY <1>1, <1>2, <1>3 DEF TestIs, IInv, ReadInv
  <2> QED BY <1>3, <2>1 DEF Checks, RwCheck, Intended
<1>4. ASSUME NEW a \in Nat, NEW b \in Nat, a < 16, b < 16
      PROVE  (a + 16 * b) % 16 = a /\ ((a + 16 * b) % 256) \div 16 = b
  BY <1>4
<1>5. \A g \in {"pmod_0_gpi_agent", "pmod_0_gpo_agent", "pmod_1_gpi_agent",
                "pmod_1_gpo_agent"} : bus[g] \in Nat /\ bus[g] < 16
  BY Names, Spans, Widths DEF IInv, TypeOK, WordInv
<1>6. CASE test = "read_pmod"
  <2>1. at = "read_gpio"
    BY <1>2, <1>6 DEF TestIs
  <2>2. got.read = got["pmod_0_gpi_agent"] + 16 * got["pmod_1_gpi_agent"]
    BY <1>1, <1>6, <2>1, Handles DEF IInv, ReadInv, Intended
  <2>3. got["pmod_0_gpi_agent"] = bus["pmod_0_gpi_agent"]
        /\ got["pmod_1_gpi_agent"] = bus["pmod_1_gpi_agent"]
    BY <1>6, <2>1, Handles DEF IInv, GotInv, Since
  <2> QED BY <1>4, <1>5, <1>6, <2>2, <2>3, Handles DEF Checks, ReadPmodCheck
<1>7. CASE test = "write_pmod"
  <2>1. at = "sample_gpo"
    BY <1>2, <1>7 DEF TestIs
  <2>2. got.written = bus["pmod_0_gpo_agent"] + 16 * bus["pmod_1_gpo_agent"]
    BY <1>7, <2>1, Wiring DEF IInv, WrittenInv, Written, Gpo, At
  <2>3. got["pmod_0_gpo_agent"] = bus["pmod_0_gpo_agent"]
        /\ got["pmod_1_gpo_agent"] = bus["pmod_1_gpo_agent"]
    BY <1>1, <1>7, <2>1, Handles DEF IInv, GotInv, Since
  <2> QED BY <1>4, <1>5, <1>7, <2>2, <2>3, Handles DEF Checks, WritePmodCheck
<1>8. CASE test = "ss_ctrl"
  <2>1. got.read = Intended
    BY <1>1, <1>2, <1>8 DEF TestIs, IInv, ReadInv
  <2> QED BY <1>8, <2>1 DEF Checks, SsCtrlCheck, Intended
<1>9. CASE test \in {"irq", "random"}
  BY <1>1, <1>2, <1>9 DEF TestIs, IInv, IrqEnInv, Checks, IrqCheck
<1> QED BY <1>2, <1>3, <1>6, <1>7, <1>8, <1>9 DEF TestIs

(* The test asserts what it has found. *)
LEMMA CheckInv == ASSUME IInv, Check PROVE IInv'
<1> USE DEF benchVars, cocotbVars, sequencerVars, requestVars, gbusVars, dutVars,
        checkVars, testData
<1>1. TestRuns /\ at' = Following /\ at' = "check"
  BY DEF Check, Begin
<1>2. /\ left = 0 /\ starting = {} /\ running = {}
      /\ test \in DOMAIN Tests /\ at \in DOMAIN BaseTest \cup DOMAIN Tests[test]
  BY <1>1, NobodyElse DEF IInv, TypeOK
<1>3. verdict' = "passed"
  BY <1>1, ChecksPass DEF Check
<1>4. TypeOK'
  BY <1>1, <1>2, <1>3, BenchStays DEF Check, TypeOK, IInv
<1>5. ProgramInv'
  BY <1>1, <1>2, <1>3, Predecessors, StepNames
     DEF IInv, ProgramInv, Check, Waits, Unchecked, BaseSteps, TestIs
<1>6. HandshakeInv'
  BY DEF IInv, HandshakeInv, Check
<1>7. WrittenInv' /\ GotInv' /\ SampleInv' /\ ReadInv' /\ IrqEnInv'
  BY <1>1, Unconcerned
<1>8. LoadedInv'
  BY <1>1 DEF IInv, LoadedInv, Check
<1> QED BY <1>1, <1>4, <1>5, <1>6, <1>7, <1>8, BenchStays DEF IInv, Check

(* The base class, or the test, drops its objection. *)
LEMMA DropObjectionInv == ASSUME IInv, DropObjection PROVE IInv'
<1> USE DEF benchVars, cocotbVars, sequencerVars, requestVars, gbusVars, dutVars,
        checkVars, testData
<1>1. TestRuns /\ at' = Following /\ at' \in {"drop_base", "drop"}
  BY DEF DropObjection, Begin
<1>2. /\ left = 0 /\ starting = {} /\ running = {}
      /\ test \in DOMAIN Tests /\ at \in DOMAIN BaseTest \cup DOMAIN Tests[test]
  BY <1>1, NobodyElse DEF IInv, TypeOK
<1>3. ProgramInv'
  BY <1>1, <1>2, Predecessors, StepNames
     DEF IInv, ProgramInv, DropObjection, Unchecked, BaseSteps, TestIs
<1>4. TypeOK'
  <2>1. objections' \in 0 .. 2
    BY <1>3 DEF ProgramInv
  <2> QED BY <1>1, <1>2, <2>1, BenchStays DEF DropObjection, TypeOK, IInv
<1>5. HandshakeInv'
  BY DEF IInv, HandshakeInv, DropObjection
<1>6. WrittenInv' /\ GotInv' /\ SampleInv' /\ ReadInv' /\ IrqEnInv'
  BY <1>1, Unconcerned
<1>7. LoadedInv'
  BY <1>1 DEF IInv, LoadedInv, DropObjection
<1> QED BY <1>1, <1>3, <1>4, <1>5, <1>6, <1>7, BenchStays DEF IInv, DropObjection

-----------------------------------------------------------------------------
(* While a sequence is under way. *)
LEMMA Stays ==
  ASSUME IInv, test' = test, at' = at
  PROVE  /\ test' \in DOMAIN Tests'
         /\ at' \in DOMAIN BaseTest \cup DOMAIN (Tests'[test']) \cup {"drop"}
BY NextStepNames DEF IInv, TypeOK

(* A sequence that runs is one of those that the step has forked. *)
LEMMA Belongs ==
  ASSUME IInv, NEW c \in Clients, c \in starting \cup running
  PROVE  /\ at \in Forks /\ c \in Sends(at).clients
         /\ c = Producer => at \in Writes \cup Reads \cup Dynamics
         /\ c \in Buses => at \in Drives \cup {"enable_irq", "sample_gpo"}
         /\ at \notin BaseSteps \cup {"wait_gpi", "wait_gpo", "wait_ctrl", "wait_irq"}
<1>1. at \in Forks /\ c \in Sends(at).clients
  BY DEF IInv, TypeOK
<1>2. at \in Writes \cup Reads \cup Dynamics \cup Drives
               \cup {"enable_irq", "sample_gpo"}
  BY <1>1, ForkSteps
<1>3. at \in Writes \cup Reads \cup Dynamics => c = Producer
  BY <1>1, ForkSteps
<1>4. at \in Drives \cup {"enable_irq", "sample_gpo"} => c \in Buses
  BY <1>1, ForkSteps, Names DEF Drives
<1> QED BY <1>1, <1>2, <1>3, <1>4, Names DEF Writes, Reads, Dynamics, Drives, BaseSteps

(* A sequence that is not idle is one that runs. *)
LEMMA Busy ==
  ASSUME IInv, NEW c \in Clients, stage[c] # "idle"
  PROVE  c \in running /\ c \notin starting
BY DEF IInv, HandshakeInv

(* Which test it is can be told from most of its steps. *)
LEMMA WhichTest ==
  ASSUME IInv
  PROVE  /\ at \in {"write_rw", "read_rw"} => test = "rw"
         /\ at \in {"drive_gpi", "wait_gpi", "read_gpio"} => test = "read_pmod"
         /\ at \in {"write_gpio", "wait_gpo", "sample_gpo"} => test = "write_pmod"
         /\ at = "read_ctrl" /\ test # "random" => test = "ss_ctrl"
         /\ at = "wait_ctrl" => test = "ss_ctrl"
<1>1. /\ test \in DOMAIN Tests
      /\ at \in DOMAIN BaseTest \cup DOMAIN Tests[test] \cup {"drop"}
  BY DEF IInv, TypeOK
<1>2. CASE test = "rw"
  BY <1>1, <1>2, StepNames DEF Tests, BaseSteps
<1>3. CASE test = "read_pmod"
  BY <1>1, <1>3, StepNames DEF Tests, BaseSteps
<1>4. CASE test = "write_pmod"
  BY <1>1, <1>4, StepNames DEF Tests, BaseSteps
<1>5. CASE test = "ss_ctrl"
  BY <1>1, <1>5, StepNames DEF Tests, BaseSteps
<1>6. CASE test = "irq"
  BY <1>1, <1>6, StepNames DEF Tests, BaseSteps
<1>7. CASE test = "random"
  BY <1>1, <1>7, StepNames DEF Tests, BaseSteps, Dynamics
<1> QED BY <1>1, <1>2, <1>3, <1>4, <1>5, <1>6, <1>7, StepNames

(* A sequence hands its item to its sequencer. *)
LEMMA StartSeqInv == ASSUME IInv, NEW c \in Clients, StartSeq(c) PROVE IInv'
<1> USE DEF cocotbVars, requestVars, gbusVars, dutVars, responseVars, checkVars
<1>1. /\ c \in starting /\ c \notin running /\ stage[c] = "idle" /\ awake = {}
      /\ DOMAIN stage = Clients
  BY DEF StartSeq, EdgeTasksDone, IInv, HandshakeInv, TypeOK
<1>2. /\ at \in Forks /\ c \in Sends(at).clients
      /\ c = Producer => at \in Writes \cup Reads \cup Dynamics
      /\ c \in Buses => at \in Drives \cup {"enable_irq", "sample_gpo"}
      /\ at \notin BaseSteps \cup {"wait_gpi", "wait_gpo", "wait_ctrl", "wait_irq"}
  BY <1>1, Belongs
<1>3. PICK i \in ItemsFor(at, c) :
        /\ StartItem(c, c, i)
        /\ got' = IF Sends(at).do = "write" THEN [got EXCEPT !.written = i.data]
                  ELSE got
  BY DEF StartSeq
<1>4. /\ item' = [item EXCEPT ![c] = i] /\ stage' = [stage EXCEPT ![c] = "queued"]
      /\ item_queue' = [item_queue EXCEPT ![c] = Append(@, c)]
      /\ UNCHANGED <<current_item, responses>>
  BY <1>3 DEF StartItem
<1>5. /\ starting' = starting \ {c} /\ running' = running \cup {c}
      /\ UNCHANGED <<test, at>>
  BY DEF StartSeq
<1>6. /\ stage' \in [Clients -> Stages] /\ DOMAIN item' = Clients
      /\ stage'[c] = "queued" /\ item'[c] = i
      /\ \A d \in Clients \ {c} : stage'[d] = stage[d] /\ item'[d] = item[d]
  BY <1>4 DEF IInv, TypeOK, HandshakeInv, Stages
<1>7. c = Producer => /\ i \in ApbItems
                      /\ Sends(at).do = "read" => ~i.we
                      /\ Sends(at).do = "write" => i.we /\ got'.written = i.data
  <2> SUFFICES ASSUME c = Producer
               PROVE  /\ i \in ApbItems
                      /\ Sends(at).do = "read" => ~i.we
                      /\ Sends(at).do = "write" => i.we /\ got'.written = i.data
    OBVIOUS
  <2>1. at \in Writes \cup Reads \cup Dynamics
    BY <1>2
  <2>2. i \in ApbItems
    BY <2>1, AccessItems
  <2>3. Sends(at).do = "write" => i.we = TRUE
    <3>1. Sends(at).do = "write" => at \in Writes
      BY <2>1, ForkSteps
    <3> QED BY <2>1, <3>1, AccessItems
  <2>4. Sends(at).do = "read" => i.we = FALSE
    <3>1. Sends(at).do = "read" => at \in Reads
      BY <2>1, ForkSteps
    <3> QED BY <2>1, <3>1, AccessItems
  <2>5. "written" \in DOMAIN got
    BY DEF IInv, HandshakeInv
  <2> QED BY <1>3, <2>2, <2>3, <2>4, <2>5
<1>8. got' = got \/ (at \in Writes /\ c = Producer)
  <2>1. Sends(at).do = "write" => at \in Writes
    BY <1>2, ForkSteps DEF Writes, Reads, Dynamics, Drives
  <2> QED BY <1>2, <1>3, <2>1, Names DEF Writes, Drives
<1>9. TypeOK'
  <2>1. item'[Producer] \in ApbItems \cup {None}
    BY <1>6, <1>7, Names DEF IInv, TypeOK
  <2>2. starting' \cup running' \subseteq
          IF at' \in Forks THEN Sends(at').clients ELSE {}
    BY <1>1, <1>2, <1>5 DEF IInv, TypeOK
  <2>3. Dut!SubordinateTypeOK'
    BY DEF IInv, TypeOK, Dut!SubordinateTypeOK, StartSeq
  <2> QED BY <1>5, <1>6, <2>1, <2>2, <2>3, Stays DEF StartSeq, TypeOK, IInv
<1>10. ProgramInv'
  BY DEF IInv, ProgramInv, StartSeq, Unchecked
<1>11. HandshakeInv'
  <2>1. item_queue' = [p \in Ports |-> IF stage'[p] = "queued" THEN <<p>> ELSE <<>>]
    <3>1. item_queue[c] = <<>> /\ c \in Ports
      BY <1>1, Names DEF IInv, HandshakeInv
    <3>2. Append(item_queue[c], c) = <<c>>
      BY <3>1
    <3>3. item_queue = [p \in Ports |-> IF stage[p] = "queued" THEN <<p>> ELSE <<>>]
      BY DEF IInv, HandshakeInv
    <3>4. item_queue' = [p \in Ports |-> IF p = c THEN <<c>> ELSE item_queue[p]]
      BY <1>4, <3>1, <3>2, <3>3
    <3> QED BY <1>6, <3>3, <3>4, Names
  <2>2. current_item' = [p \in Ports |-> IF stage'[p] = "sent" THEN p ELSE None]
    BY <1>1, <1>4, <1>6, Names DEF IInv, HandshakeInv
  <2>3. \A d \in Clients : stage'[d] = "idle" <=> d \notin running'
    BY <1>5, <1>6 DEF IInv, HandshakeInv
  <2>4. DOMAIN got' = {"written", "read"} \cup Buses
    BY <1>3 DEF IInv, HandshakeInv
  <2>5. starting' \cap running' = {}
    BY <1>1, <1>5 DEF IInv, HandshakeInv
  <2>6. DOMAIN item' = Clients /\ DOMAIN responses' = Ports
    BY <1>4 DEF IInv, HandshakeInv
  <2>7. \A d \in Clients : stage'[d] = "sent" <=> stage[d] = "sent"
    BY <1>1, <1>6
  <2>8. UNCHANGED <<driving, process>>
    BY DEF StartSeq, gbusVars
  <2> QED BY <2>1, <2>2, <2>3, <2>4, <2>5, <2>6, <2>7, <2>8, Names
          DEF IInv, HandshakeInv
<1>12. StoppedInv'
  BY DEF IInv, StoppedInv, StartSeq
<1>13. ItemInv'
  <2>1. \A d \in Clients :
          stage'[d] \in {"queued", "sent"} => item'[d] \in ItemsFor(at', d)
    BY <1>3, <1>5, <1>6 DEF IInv, ItemInv
  <2>2. CASE c = Producer
    BY <1>5, <1>6, <1>7, <2>1, <2>2 DEF ItemInv, Sent
  <2>3. CASE c # Producer
    BY <1>5, <1>6, <1>8, <2>1, <2>3, Names DEF IInv, ItemInv, Sent
  <2> QED BY <2>2, <2>3
<1>14. ResponseInv'
  <2>1. \A g \in Buses : stage'[g] = "finished" <=> stage[g] = "finished"
    BY <1>1, <1>6, Names
  <2>2. UNCHANGED <<bus, responses>>
    BY <1>4 DEF StartSeq, gbusVars
  <2> QED BY <2>1, <2>2 DEF IInv, ResponseInv
<1>15. c = Producer => process[Producer] \in {"reset", "get"} /\ ~PSEL
  BY <1>1, Names DEF IInv, HandshakeInv, TypeOK, ApbInv
<1>16. ApbInv'
  <2>1. PSEL => item'[Producer] = item[Producer]
    BY <1>6, <1>15, Names
  <2> QED BY <1>1, <2>1 DEF IInv, ApbInv, Sent, StartSeq
<1>17. WordInv'
  BY DEF IInv, WordInv, StartSeq
<1>18. WrittenInv'
  <2>1. Written' => Written /\ ~(at \in Writes /\ c = Producer)
    BY <1>1, <1>5, <1>6, <1>15, Names DEF Written, Performed, StartSeq, Writes
  <2> QED BY <1>8, <2>1 DEF IInv, WrittenInv, StartSeq, Gpo, At
<1>19. GotInv'
  <2>1. starting' \cup running' = starting \cup running
    BY <1>1, <1>5
  <2>2. \A g \in Buses : got'[g] = got[g]
    BY <1>3, Names DEF IInv, HandshakeInv
  <2> QED BY <1>5, <2>1, <2>2, Names, Handles DEF IInv, GotInv, Since, StartSeq
<1>20. SampleInv'
  BY <1>1 DEF SampleInv, StartSeq
<1>21. LoadedInv'
  BY <1>5 DEF IInv, LoadedInv, StartSeq, Gpi, At
<1>22. ReadInv'
  <2>1. ~Over'
    BY <1>5 DEF Over
  <2>2. at \in {"read_rw", "read_gpio", "read_ctrl"} => c = Producer
    BY <1>2, Names DEF Drives
  <2> QED BY <1>1, <1>2, <1>5, <1>6, <1>15, <2>1, <2>2
          DEF ReadInv, Performed, StartSeq
<1>23. IrqEnInv'
  <2>1. at = "enable_irq" => c = "irq_en_agent"
    BY <1>2, ForkSteps
  <2> QED BY <1>2, <1>5, <1>6, <2>1, Handles DEF IrqEnInv
<1>24. CheckersInv'
  BY DEF IInv, CheckersInv, StartSeq, At
<1> QED BY <1>9, <1>10, <1>11, <1>12, <1>13, <1>14, <1>16, <1>17, <1>18, <1>19, <1>20,
           <1>21, <1>22, <1>23, <1>24 DEF IInv

(* A sequence of a pin agent takes its response. *)
LEMMA EndPinSeqInv == ASSUME IInv, NEW c \in Buses, EndPinSeq(c) PROVE IInv'
<1> USE DEF cocotbVars, requestVars, gbusVars, dutVars, responseVars, checkVars
<1>1. /\ c \in running /\ c \in Clients /\ c # Producer
      /\ stage[c] = "finished" /\ awake = {}
      /\ DOMAIN stage = Clients
  BY Names DEF EndPinSeq, EndGbusSeq, Ended, EdgeTasksDone, IInv, TypeOK
<1>2. /\ at \in Forks /\ c \in Sends(at).clients
      /\ at \in Drives \cup {"enable_irq", "sample_gpo"}
      /\ at \notin {"wait_gpi", "wait_gpo", "wait_ctrl", "wait_irq"}
  BY <1>1, Belongs
<1>3. at \notin {"write_rw", "write_gpio", "read_rw", "read_gpio", "read_ctrl"}
  BY <1>2 DEF Drives
<1>4. /\ stage' = [stage EXCEPT ![c] = "idle"]
      /\ item' = [item EXCEPT ![c] = Head(responses[c])]
      /\ responses' = [responses EXCEPT ![c] = Tail(@)]
      /\ UNCHANGED <<item_queue, current_item>>
  BY DEF EndPinSeq, EndGbusSeq, Ended
<1>5. /\ stage'[c] = "idle" /\ stage' \in [Clients -> Stages]
      /\ \A d \in Clients \ {c} : stage'[d] = stage[d] /\ item'[d] = item[d]
      /\ DOMAIN item' = Clients
  BY <1>1, <1>4 DEF IInv, TypeOK, HandshakeInv, Stages
<1>6. /\ DOMAIN got' = {"written", "read"} \cup Buses
      /\ got'[c] = bus[c] /\ \A k \in DOMAIN got \ {c} : got'[k] = got[k]
  <2>1. Head(responses[c]).value = bus[c] /\ Tail(responses[c]) = <<>>
    BY <1>1 DEF IInv, ResponseInv
  <2>2. item'[c] = Head(responses[c])
    BY <1>1, <1>4 DEF IInv, HandshakeInv
  <2>3. got' = [got EXCEPT ![c] = item'[c].value]
    BY DEF EndPinSeq
  <2> QED BY <2>1, <2>2, <2>3 DEF IInv, HandshakeInv
<1>7. running' = running \ {c} /\ starting' = starting /\ UNCHANGED <<test, at>>
  BY DEF EndPinSeq
<1>8. TypeOK'
  <2>1. item'[Producer] \in ApbItems \cup {None}
    BY <1>1, <1>5, Names DEF IInv, TypeOK
  <2>2. starting' \cup running' \subseteq
          IF at' \in Forks THEN Sends(at').clients ELSE {}
    BY <1>7 DEF IInv, TypeOK
  <2>3. Dut!SubordinateTypeOK'
    BY DEF IInv, TypeOK, Dut!SubordinateTypeOK, EndPinSeq
  <2> QED BY <1>5, <1>7, <2>1, <2>2, <2>3, Stays DEF EndPinSeq, TypeOK, IInv
<1>9. ProgramInv'
  BY DEF IInv, ProgramInv, EndPinSeq, Unchecked
<1>10. HandshakeInv'
  <2>1. item_queue' = [p \in Ports |-> IF stage'[p] = "queued" THEN <<p>> ELSE <<>>]
    BY <1>1, <1>4, <1>5, Names DEF IInv, HandshakeInv
  <2>2. current_item' = [p \in Ports |-> IF stage'[p] = "sent" THEN p ELSE None]
    BY <1>1, <1>4, <1>5, Names DEF IInv, HandshakeInv
  <2>3. \A d \in Clients : stage'[d] = "idle" <=> d \notin running'
    BY <1>5, <1>7 DEF IInv, HandshakeInv
  <2>4. DOMAIN responses' = Ports
    BY <1>4 DEF IInv, HandshakeInv
  <2> QED BY <1>1, <1>5, <1>6, <1>7, <2>1, <2>2, <2>3, <2>4, Names
          DEF IInv, HandshakeInv, EndPinSeq
<1>11. StoppedInv'
  BY DEF IInv, StoppedInv, EndPinSeq
<1>12. ItemInv'
  <2>1. got'.written = got.written
    BY <1>6, Names DEF IInv, HandshakeInv
  <2> QED BY <1>1, <1>5, <1>7, <2>1, Names DEF IInv, ItemInv, Sent
<1>13. ResponseInv'
  BY <1>1, <1>4, <1>5, Names DEF IInv, ResponseInv, HandshakeInv, EndPinSeq
<1>14. ApbInv'
  BY <1>1, <1>5, Names DEF IInv, ApbInv, Sent, EndPinSeq
<1>15. WordInv'
  BY DEF IInv, WordInv, EndPinSeq
<1>16. WrittenInv'
  <2>1. got'.written = got.written
    BY <1>6, Names DEF IInv, HandshakeInv
  <2> QED BY <1>3, <1>7, <2>1 DEF IInv, WrittenInv, Written, EndPinSeq, Gpo, At
<1>17. GotInv'
  <2>1. \A g \in Buses : got'[g] = IF g = c THEN bus[g] ELSE got[g]
    BY <1>6 DEF IInv, HandshakeInv
  <2> QED BY <1>7, <2>1, Names, Handles DEF IInv, GotInv, Since, EndPinSeq
<1>18. SampleInv'
  BY <1>1 DEF SampleInv, EndPinSeq
<1>19. LoadedInv'
  BY DEF IInv, LoadedInv, EndPinSeq, Gpi, At
<1>20. ReadInv'
  BY <1>2, <1>3, <1>7 DEF ReadInv
<1>21. IrqEnInv'
  BY <1>1, <1>2, <1>5, <1>7, Handles, Names DEF IInv, IrqEnInv, EndPinSeq
<1>22. CheckersInv'
  BY DEF IInv, CheckersInv, EndPinSeq, At
<1> QED BY <1>8, <1>9, <1>10, <1>11, <1>12, <1>13, <1>14, <1>15, <1>16, <1>17, <1>18,
           <1>19, <1>20, <1>21, <1>22 DEF IInv

(* A register sequence ends, a read with the word in its item. *)
LEMMA EndRegSeqInv == ASSUME IInv, EndRegSeq PROVE IInv'
<1> USE DEF cocotbVars, requestVars, gbusVars, dutVars, responseVars, checkVars
<1>1. /\ Producer \in Clients /\ stage[Producer] = "finished" /\ awake = {}
      /\ DOMAIN stage = Clients
  BY Names DEF EndRegSeq, Ended, EdgeTasksDone, IInv, TypeOK
<1>2. /\ Producer \in running /\ Producer \notin starting /\ at \in Forks
      /\ at \in Writes \cup Reads \cup Dynamics
      /\ at \notin {"wait_gpi", "wait_gpo", "wait_ctrl", "wait_irq"}
  BY <1>1, Busy, Belongs
<1>3. at \notin Drives \cup {"enable_irq", "sample_gpo"}
  BY <1>2 DEF Drives, Writes, Reads, Dynamics
<1>4. /\ stage' = [stage EXCEPT ![Producer] = "idle"]
      /\ item' = [item EXCEPT ![Producer] = None]
      /\ UNCHANGED <<responses, item_queue, current_item>>
  BY DEF EndRegSeq, Ended
<1>5. /\ stage'[Producer] = "idle" /\ stage' \in [Clients -> Stages]
      /\ \A d \in Clients \ {Producer} : stage'[d] = stage[d] /\ item'[d] = item[d]
      /\ DOMAIN item' = Clients /\ item'[Producer] = None
  BY <1>1, <1>4 DEF IInv, TypeOK, HandshakeInv, Stages
<1>6. /\ DOMAIN got' = {"written", "read"} \cup Buses
      /\ \A k \in DOMAIN got \ {"read"} : got'[k] = got[k]
      /\ ~Sent.we => got'.read = Sent.data
  BY DEF EndRegSeq, Sent, IInv, HandshakeInv
<1>7. running' = running \ {Producer} /\ starting' = starting /\ UNCHANGED <<test, at>>
  BY DEF EndRegSeq
<1>8. process[Producer] \in {"reset", "get"} /\ ~PSEL
  BY <1>1, Names DEF IInv, HandshakeInv, TypeOK, ApbInv
<1>9. TypeOK'
  <2>1. starting' \cup running' \subseteq
          IF at' \in Forks THEN Sends(at').clients ELSE {}
    BY <1>7 DEF IInv, TypeOK
  <2>2. Dut!SubordinateTypeOK'
    BY DEF IInv, TypeOK, Dut!SubordinateTypeOK, EndRegSeq
  <2> QED BY <1>5, <1>7, <2>1, <2>2, Stays DEF EndRegSeq, TypeOK, IInv
<1>10. ProgramInv'
  BY DEF IInv, ProgramInv, EndRegSeq, Unchecked
<1>11. HandshakeInv'
  <2>1. item_queue' = [p \in Ports |-> IF stage'[p] = "queued" THEN <<p>> ELSE <<>>]
    BY <1>1, <1>4, <1>5, Names DEF IInv, HandshakeInv
  <2>2. current_item' = [p \in Ports |-> IF stage'[p] = "sent" THEN p ELSE None]
    BY <1>1, <1>4, <1>5, Names DEF IInv, HandshakeInv
  <2>3. \A d \in Clients : stage'[d] = "idle" <=> d \notin running'
    BY <1>5, <1>7 DEF IInv, HandshakeInv
  <2> QED BY <1>1, <1>4, <1>5, <1>6, <1>7, <2>1, <2>2, <2>3, Names
          DEF IInv, HandshakeInv, EndRegSeq
<1>12. StoppedInv'
  BY DEF IInv, StoppedInv, EndRegSeq
<1>13. ItemInv'
  BY <1>5, <1>7, Names DEF IInv, ItemInv
<1>14. ResponseInv'
  BY <1>1, <1>4, <1>5, Names DEF IInv, ResponseInv, HandshakeInv, EndRegSeq
<1>15. ApbInv'
  BY <1>1, <1>8 DEF IInv, ApbInv, EndRegSeq
<1>16. WordInv'
  BY DEF IInv, WordInv, EndRegSeq
<1>17. WrittenInv'
  <2>1. got'.written = got.written
    BY <1>6, Names DEF IInv, HandshakeInv
  <2>2. Written' => Written
    BY <1>1, <1>7, <1>8 DEF Written, Performed, EndRegSeq
  <2> QED BY <2>1, <2>2 DEF IInv, WrittenInv, EndRegSeq, Gpo, At
<1>18. \A g \in Buses : got'[g] = got[g]
  BY <1>6, Names DEF IInv, HandshakeInv
<1>19. GotInv'
  BY <1>3, <1>7, <1>18, Names, Handles DEF IInv, GotInv, Since, EndRegSeq, Drives
<1>20. SampleInv'
  BY <1>1 DEF SampleInv, EndRegSeq
<1>21. LoadedInv'
  BY DEF IInv, LoadedInv, EndRegSeq, Gpi, At
<1>22. ReadInv'
  <2>1. Intended' = Intended
    BY <1>6, <1>7, <1>18, Names, Handles DEF Intended, IInv, HandshakeInv
  <2>2. at \in Reads => ~Sent.we
    BY <1>1, ForkSteps DEF IInv, ItemInv
  <2>3. at \in Reads /\ test # "random" => got'.read = Intended
    BY <1>1, <1>6, <2>2 DEF IInv, ReadInv, Reads
  <2> QED BY <1>2, <1>5, <1>7, <1>8, <2>1, <2>3 DEF ReadInv, Reads, Performed, EndRegSeq
<1>23. IrqEnInv'
  BY <1>2, <1>3, <1>7 DEF IrqEnInv
<1>24. CheckersInv'
  BY DEF IInv, CheckersInv, EndRegSeq, At
<1> QED BY <1>9, <1>10, <1>11, <1>12, <1>13, <1>14, <1>15, <1>16, <1>17, <1>19, <1>20,
           <1>21, <1>22, <1>23, <1>24 DEF IInv

-----------------------------------------------------------------------------
(* The producer: it leaves the test, the pins and the design alone. *)
OthersStay == UNCHANGED <<gbusVars, regs, oe, IRQ_REG, COUNT_REG, testVars, checkVars>>

(* What the producer does concerns no pin and no other sequence. *)
LEMMA ProducerLeaves ==
  ASSUME IInv, OthersStay, UNCHANGED <<rst, seen, dying, reading, responseVars>>,
         awake' \in {awake, awake \ {Producer}}
  PROVE  /\ ProgramInv' /\ WordInv' /\ GotInv' /\ SampleInv' /\ CheckersInv'
         /\ Dut!SubordinateTypeOK'
         /\ test' \in DOMAIN Tests'
         /\ at' \in DOMAIN BaseTest \cup DOMAIN (Tests'[test']) \cup {"drop"}
<1> USE DEF OthersStay, gbusVars, testVars, checkVars, responseVars
<1>1. ProgramInv'
  BY DEF IInv, ProgramInv, Unchecked
<1>2. WordInv'
  BY DEF IInv, WordInv
<1>3. GotInv'
  BY DEF IInv, GotInv, Since
<1>4. SampleInv'
  BY Names DEF IInv, SampleInv
<1>5. CheckersInv'
  <2>1. Checkers \in awake' <=> Checkers \in awake
    BY Names DEF Checkers
  <2> QED BY <2>1 DEF IInv, CheckersInv, At
<1>6. Dut!SubordinateTypeOK'
  BY DEF IInv, TypeOK, Dut!SubordinateTypeOK
<1> QED BY <1>1, <1>2, <1>3, <1>4, <1>5, <1>6, Stays

(* The producer begins to ask for items. *)
LEMMA StartProcessInv == ASSUME IInv, StartProcess(Producer), OthersStay PROVE IInv'
<1> USE DEF OthersStay, gbusVars, testVars, checkVars, responseVars, requestVars,
        sequencerVars
<1>1. /\ Producer \in awake /\ awake' = awake \ {Producer}
      /\ process[Producer] = "reset" /\ process' = [process EXCEPT ![Producer] = "get"]
      /\ UNCHANGED <<rst, seen, dying, reading, sequencerVars, requestVars,
                     responseVars>>
  BY DEF StartProcess, Resume
<1>2. /\ process'[Producer] = "get" /\ ~PSEL /\ ~PREADY
      /\ process' \in [ApbPorts -> {"reset", "get", "align", "enable", "ready"}]
  BY <1>1, Names DEF IInv, TypeOK, ApbInv
<1>3. TypeOK' /\ StoppedInv'
  BY <1>1, <1>2, ProducerLeaves DEF IInv, TypeOK, StoppedInv
<1>4. HandshakeInv'
  BY <1>1, <1>2 DEF IInv, HandshakeInv
<1>5. ItemInv' /\ ResponseInv' /\ IrqEnInv'
  BY <1>1 DEF IInv, ItemInv, Sent, ResponseInv, IrqEnInv
<1>6. ApbInv'
  BY <1>1, <1>2 DEF IInv, ApbInv, Sent
<1>7. Written' => Written
  BY <1>1, <1>2 DEF Written, Performed
<1>8. WrittenInv'
  BY <1>7 DEF IInv, WrittenInv, Gpo, At
<1>9. LoadedInv'
  BY <1>1, <1>2 DEF IInv, LoadedInv, Gpi, At
<1>10. ReadInv'
  <2>1. Performed' => Performed
    BY <1>1, <1>2 DEF Performed
  <2> QED BY <1>1, <2>1 DEF IInv, ReadInv, Over, Intended, Sent
<1> QED BY <1>1, <1>3, <1>4, <1>5, <1>6, <1>8, <1>9, <1>10, ProducerLeaves DEF IInv

(* The producer gets the only item there is for it. *)
LEMMA GetItemInv == ASSUME IInv, GetItem(Producer), OthersStay PROVE IInv'
<1> USE DEF OthersStay, cocotbVars, gbusVars, testVars, checkVars, responseVars,
        requestVars
<1>1. /\ awake = {} /\ awake' = {} /\ process[Producer] = "get"
      /\ process' = [process EXCEPT ![Producer] = "align"]
      /\ UNCHANGED <<rst, seen, dying, reading, requestVars, responseVars>>
      /\ GetNextItem(Producer)
  BY DEF GetItem, EdgeTasksDone
<1>2. /\ process'[Producer] = "align" /\ ~PSEL /\ ~PREADY
      /\ process' \in [ApbPorts -> {"reset", "get", "align", "enable", "ready"}]
  BY <1>1, Names DEF IInv, TypeOK, ApbInv
<1>3. stage[Producer] = "queued" /\ item_queue[Producer] = <<Producer>>
  BY <1>1, Names DEF GetNextItem, IInv, HandshakeInv
<1>4. /\ current_item' = [current_item EXCEPT ![Producer] = Producer]
      /\ stage' = [stage EXCEPT ![Producer] = "sent"]
      /\ item_queue' = [item_queue EXCEPT ![Producer] = <<>>]
      /\ UNCHANGED <<item, responses>>
  BY <1>1, <1>3 DEF GetNextItem
<1>5. /\ stage'[Producer] = "sent" /\ stage' \in [Clients -> Stages]
      /\ \A d \in Clients \ {Producer} : stage'[d] = stage[d]
  BY <1>4, Names DEF IInv, TypeOK, Stages
<1>6. TypeOK' /\ StoppedInv'
  BY <1>1, <1>2, <1>4, <1>5, ProducerLeaves DEF IInv, TypeOK, StoppedInv
<1>7. HandshakeInv'
  <2>1. item_queue' = [p \in Ports |-> IF stage'[p] = "queued" THEN <<p>> ELSE <<>>]
    BY <1>4, <1>5, Names DEF IInv, HandshakeInv
  <2>2. current_item' = [p \in Ports |-> IF stage'[p] = "sent" THEN p ELSE None]
    BY <1>4, <1>5, Names DEF IInv, HandshakeInv
  <2>3. \A c \in Clients : stage'[c] = "idle" <=> c \notin running'
    BY <1>3, <1>5 DEF IInv, HandshakeInv
  <2>4. \A g \in Buses : driving'[g] = "align" <=> stage'[g] = "sent"
    BY <1>5, Names DEF IInv, HandshakeInv
  <2>5. process'[Producer] \in {"align", "enable", "ready"}
          <=> stage'[Producer] = "sent"
    BY <1>2, <1>5
  <2> QED BY <1>4, <2>1, <2>2, <2>3, <2>4, <2>5 DEF IInv, HandshakeInv
<1>8. ItemInv'
  BY <1>3, <1>4, <1>5, Names DEF IInv, ItemInv, Sent
<1>9. ResponseInv' /\ IrqEnInv'
  BY <1>1, <1>4, <1>5, Names, Handles DEF IInv, ResponseInv, IrqEnInv
<1>10. ApbInv'
  BY <1>1, <1>2, <1>4 DEF IInv, ApbInv, Sent
<1>11. WrittenInv'
  <2>1. Written' => Written
    BY <1>1, <1>2, <1>5 DEF Written, Performed
  <2> QED BY <2>1 DEF IInv, WrittenInv, Gpo, At
<1>12. LoadedInv' /\ ReadInv'
  BY <1>1, <1>2, <1>4, <1>5
     DEF IInv, LoadedInv, ReadInv, Performed, Over, Intended, Gpi, At
<1> QED BY <1>1, <1>6, <1>7, <1>8, <1>9, <1>10, <1>11, <1>12, ProducerLeaves DEF IInv

(* Drives the request of its own item, all of whose bytes are strobed. *)
LEMMA DriveSetupInv == ASSUME IInv, DriveSetup, OthersStay PROVE IInv'
<1> USE DEF OthersStay, gbusVars, testVars, checkVars, responseVars, sequencerVars
<1>1. /\ Producer \in awake /\ awake' = awake \ {Producer}
      /\ process[Producer] = "align"
      /\ process' = [process EXCEPT ![Producer] = "enable"]
      /\ PSEL' = TRUE
      /\ UNCHANGED <<rst, seen, dying, reading, sequencerVars, responseVars>>
  BY DEF DriveSetup, Resume
<1>2. /\ process'[Producer] = "enable" /\ ~PREADY
      /\ process' \in [ApbPorts -> {"reset", "get", "align", "enable", "ready"}]
  BY <1>1, Names DEF IInv, TypeOK, ApbInv
<1>3. stage[Producer] = "sent" /\ current_item[Producer] = Producer
  BY <1>1, Names DEF IInv, HandshakeInv
<1>4. at \in Writes \cup Reads \cup Dynamics
  BY <1>3, Names, Busy, Belongs
<1>5. Sent \in ItemsFor(at, Producer) /\ Producer \in Clients
  BY <1>3, Names DEF IInv, ItemInv, Sent
<1>6. Sent \in ApbItems /\ Sent.strb = TRUE
  <2>1. Sent \in ApbItems
    BY <1>4, <1>5, AccessItems
  <2>2. Sent.strb = TRUE
    BY <1>4, <1>5, AccessItems
  <2> QED BY <2>1, <2>2
<1>7. op' = [we |-> Sent.we, addr |-> Sent.addr,
             wdata |-> IF Sent.we THEN Sent.data ELSE op.wdata]
  BY <1>3, <1>6 DEF DriveSetup, ProducerItem, Sent, DrivenData
<1>8. TypeOK' /\ StoppedInv'
  <2>1. op' \in [we : BOOLEAN, addr : Addr \cup {X}, wdata : Data \cup {X}]
    BY <1>6, <1>7 DEF IInv, TypeOK, ApbItems
  <2> QED BY <1>1, <1>2, <2>1, ProducerLeaves DEF IInv, TypeOK, StoppedInv
<1>9. HandshakeInv'
  BY <1>1, <1>2, <1>3 DEF IInv, HandshakeInv
<1>10. ItemInv' /\ ResponseInv' /\ IrqEnInv'
  BY <1>1 DEF IInv, ItemInv, Sent, ResponseInv, IrqEnInv
<1>11. ApbInv'
  <2>1. op'.we = Sent.we /\ op'.addr = Sent.addr /\ (op'.we => op'.wdata = Sent.data)
    BY <1>7
  <2> QED BY <1>1, <1>2, <2>1 DEF ApbInv, Sent
<1>12. LoadedInv'
  BY <1>1 DEF IInv, LoadedInv, Gpi, At
<1>13. ~Performed' /\ (Written' => Written)
  BY <1>1, <1>2 DEF Written, Performed
<1>14. WrittenInv'
  BY <1>13 DEF IInv, WrittenInv, Gpo, At
<1>15. ReadInv'
  BY <1>1, <1>13 DEF IInv, ReadInv, Over, Intended, Sent
<1> QED BY <1>1, <1>8, <1>9, <1>10, <1>11, <1>12, <1>14, <1>15, ProducerLeaves
        DEF IInv

(* The second cycle of an access. *)
LEMMA DriveEnableInv == ASSUME IInv, DriveEnable, OthersStay PROVE IInv'
<1> USE DEF OthersStay, gbusVars, testVars, checkVars, responseVars, sequencerVars
<1>1. /\ Producer \in awake /\ awake' = awake \ {Producer}
      /\ process[Producer] = "enable"
      /\ process' = [process EXCEPT ![Producer] = "ready"]
      /\ UNCHANGED <<rst, seen, dying, reading, sequencerVars, PSEL, op, responseVars>>
  BY DEF DriveEnable, Resume
<1>2. /\ process'[Producer] = "ready" /\ PREADY /\ PSEL
      /\ process' \in [ApbPorts -> {"reset", "get", "align", "enable", "ready"}]
  BY <1>1, Names DEF IInv, TypeOK, ApbInv
<1>3. TypeOK' /\ StoppedInv'
  BY <1>1, <1>2, ProducerLeaves DEF IInv, TypeOK, StoppedInv
<1>4. HandshakeInv'
  BY <1>1, <1>2 DEF IInv, HandshakeInv
<1>5. ItemInv' /\ ResponseInv' /\ IrqEnInv'
  BY <1>1 DEF IInv, ItemInv, Sent, ResponseInv, IrqEnInv
<1>6. ApbInv'
  BY <1>1, <1>2 DEF IInv, ApbInv, Sent
<1>7. Written' => Written
  BY <1>1, <1>2 DEF Written, Performed
<1>8. WrittenInv'
  BY <1>7 DEF IInv, WrittenInv, Gpo, At
<1>9. LoadedInv'
  BY <1>1, <1>2 DEF IInv, LoadedInv, Gpi, At
<1>10. ReadInv'
  <2>1. Performed' => Performed
    BY <1>1, <1>2 DEF Performed
  <2> QED BY <1>1, <2>1 DEF IInv, ReadInv, Over, Intended, Sent
<1> QED BY <1>1, <1>3, <1>4, <1>5, <1>6, <1>8, <1>9, <1>10, ProducerLeaves DEF IInv

(* The producer takes the answer and ends its item. *)
LEMMA CompleteInv == ASSUME IInv, Complete, OthersStay PROVE IInv'
<1> USE DEF OthersStay, gbusVars, testVars, checkVars, responseVars
<1>1. /\ Producer \in awake /\ awake' = awake \ {Producer}
      /\ process[Producer] = "ready" /\ process' = [process EXCEPT ![Producer] = "get"]
      /\ PSEL' = FALSE /\ op' = NoOp
      /\ UNCHANGED <<rst, seen, dying, reading, item_queue, responseVars>>
      /\ ItemDone(Producer)
  BY DEF Complete, Resume, RequestReset
<1>2. /\ process'[Producer] = "get" /\ ~PREADY
      /\ process' \in [ApbPorts -> {"reset", "get", "align", "enable", "ready"}]
  BY <1>1, Names DEF IInv, TypeOK, ApbInv
<1>3. /\ stage[Producer] = "sent" /\ current_item[Producer] = Producer
      /\ seen.apb.rdata = PRDATA /\ Performed /\ DOMAIN item = Clients
  BY <1>1, Names DEF IInv, HandshakeInv, ApbInv, Performed
<1>4. /\ stage' = [c \in Clients |-> IF c = Producer THEN "finished" ELSE stage[c]]
      /\ current_item' = [current_item EXCEPT ![Producer] = None]
  BY <1>1, <1>3 DEF ItemDone
<1>5. /\ stage'[Producer] = "finished" /\ stage' \in [Clients -> Stages]
      /\ \A d \in Clients \ {Producer} : stage'[d] = stage[d]
  BY <1>4, Names DEF IInv, TypeOK, Stages
<1>6. Sent \in ApbItems /\ PRDATA \in Data
  BY <1>3 DEF IInv, ItemInv, TypeOK, Dut!SubordinateTypeOK
<1>7. item' = [item EXCEPT ![Producer] =
                 IF Sent.we THEN Sent ELSE [Sent EXCEPT !.data = PRDATA]]
  BY <1>3 DEF Complete, Sent
<1>8. /\ DOMAIN item' = Clients /\ \A d \in Clients \ {Producer} : item'[d] = item[d]
      /\ item'[Producer] \in ApbItems /\ item'[Producer].we = Sent.we
      /\ Sent.we => item'[Producer] = Sent
      /\ ~Sent.we => item'[Producer].data = PRDATA
  BY <1>3, <1>6, <1>7, Names DEF ApbItems
<1>9. /\ DOMAIN responses' = Ports
      /\ \A g \in Buses : responses'[g] = responses[g]
  BY Names DEF Complete, IInv, HandshakeInv
<1>10. TypeOK' /\ StoppedInv'
  <2>1. op' \in [we : BOOLEAN, addr : Addr \cup {X}, wdata : Data \cup {X}]
    BY <1>1 DEF NoOp
  <2> QED BY <1>1, <1>2, <1>5, <1>8, <2>1, ProducerLeaves DEF IInv, TypeOK, StoppedInv
<1>11. HandshakeInv'
  <2>1. item_queue' = [p \in Ports |-> IF stage'[p] = "queued" THEN <<p>> ELSE <<>>]
    BY <1>1, <1>3, <1>5, Names DEF IInv, HandshakeInv
  <2>2. current_item' = [p \in Ports |-> IF stage'[p] = "sent" THEN p ELSE None]
    BY <1>4, <1>5, Names DEF IInv, HandshakeInv
  <2> QED BY <1>2, <1>3, <1>5, <1>8, <1>9, <2>1, <2>2, Names DEF IInv, HandshakeInv
<1>12. ItemInv'
  <2>1. \A c \in Clients :
          stage'[c] \in {"queued", "sent"} => item'[c] \in ItemsFor(at', c)
    BY <1>5, <1>8 DEF IInv, ItemInv
  <2>2. /\ Sends(at).do = "read" => ~Sent.we
        /\ Sends(at).do = "write" => Sent.we /\ got.written = Sent.data
    BY <1>3 DEF IInv, ItemInv
  <2> QED BY <1>8, <2>1, <2>2 DEF ItemInv, Sent
<1>13. ResponseInv' /\ IrqEnInv'
  <2>1. \A g \in Buses : stage'[g] = stage[g]
    BY <1>5, Names
  <2>2. ResponseInv'
    BY <1>9, <2>1 DEF IInv, ResponseInv
  <2>3. IrqEnInv'
    BY <1>1, <2>1, Names, Handles DEF IInv, IrqEnInv
  <2> QED BY <2>2, <2>3
<1>14. ApbInv'
  BY <1>1, <1>2 DEF ApbInv
<1>15. LoadedInv'
  BY <1>1, <1>2 DEF IInv, LoadedInv, Gpi, At
<1>16. WrittenInv'
  <2>1. Written' => Written
    BY <1>2, <1>3 DEF Written, Performed
  <2> QED BY <2>1 DEF IInv, WrittenInv, Gpo, At
<1>17. ReadInv'
  <2>1. Intended' = Intended
    BY DEF Intended
  <2>2. at \in Reads => ~Sent.we
    BY <1>3, ForkSteps DEF IInv, ItemInv
  <2>3. at \in Reads /\ test # "random" => item'[Producer].data = Intended
    BY <1>3, <1>8, <2>2 DEF IInv, ReadInv, Reads
  <2> QED BY <1>2, <2>1, <2>3 DEF IInv, ReadInv, Reads, Performed, Sent, Over
<1> QED BY <1>1, <1>10, <1>11, <1>12, <1>13, <1>14, <1>15, <1>16, <1>17, ProducerLeaves
        DEF IInv

-----------------------------------------------------------------------------
(* The gbus drivers: only the agents of the pins are their concern. *)
PinsOnly == UNCHANGED <<process, requestVars, dutVars, testVars, checkVars>>

(* What a driver of pins does concerns no register and no access. *)
LEMMA GbusLeaves ==
  ASSUME IInv, PinsOnly, UNCHANGED <<rst, seen, dying, reading, item>>,
         NEW g \in Buses, awake' \in {awake, awake \ {g}},
         stage'[Producer] = stage[Producer]
  PROVE  /\ ProgramInv' /\ ApbInv'
         /\ (Performed' <=> Performed) /\ (Written' <=> Written)
         /\ Checkers \in awake' <=> Checkers \in awake
         /\ Dut!SubordinateTypeOK'
         /\ test' \in DOMAIN Tests'
         /\ at' \in DOMAIN BaseTest \cup DOMAIN (Tests'[test']) \cup {"drop"}
<1> USE DEF PinsOnly, testVars, checkVars, dutVars, responseVars, requestVars
<1>1. Producer \in awake' <=> Producer \in awake
  BY Names
<1>2. ProgramInv'
  BY DEF IInv, ProgramInv, Unchecked
<1>3. Performed' <=> Performed
  BY <1>1 DEF Performed
<1>4. Written' <=> Written
  BY <1>3 DEF Written
<1>5. ApbInv'
  BY <1>1 DEF IInv, ApbInv, Sent
<1>6. Checkers \in awake' <=> Checkers \in awake
  BY Names DEF Checkers
<1>7. Dut!SubordinateTypeOK'
  BY DEF IInv, TypeOK, Dut!SubordinateTypeOK
<1> QED BY <1>2, <1>3, <1>4, <1>5, <1>6, <1>7, Stays

(* A driver of pins begins to ask for items. *)
LEMMA StartGbusInv == ASSUME IInv, NEW g \in Buses, StartGbus(g), PinsOnly PROVE IInv'
<1> USE DEF PinsOnly, testVars, checkVars, dutVars, responseVars, requestVars,
        sequencerVars
<1>1. /\ g \in awake /\ awake' = awake \ {g} /\ driving[g] = "release"
      /\ UNCHANGED <<rst, seen, dying, reading, sequencerVars, bus>>
  BY DEF StartGbus, Resume
<1>2. stage[g] # "sent" /\ current_item[g] = None
  BY <1>1, Names DEF IInv, HandshakeInv
<1>3. driving' = [driving EXCEPT ![g] = "item"]
  BY <1>2 DEF StartGbus, MayGet
<1>4. /\ driving' \in [Buses -> {"release", "item", "align"}] /\ driving'[g] = "item"
      /\ \A h \in Buses \ {g} : driving'[h] = driving[h]
  BY <1>3 DEF IInv, TypeOK
<1>5. TypeOK' /\ StoppedInv'
  BY <1>1, <1>4, GbusLeaves DEF IInv, TypeOK, StoppedInv
<1>6. HandshakeInv'
  <2>1. \A h \in Buses : driving'[h] = "align" <=> stage'[h] = "sent"
    BY <1>1, <1>2, <1>4 DEF IInv, HandshakeInv
  <2> QED BY <1>1, <2>1 DEF IInv, HandshakeInv
<1>7. ItemInv' /\ ResponseInv' /\ WordInv' /\ GotInv' /\ IrqEnInv'
  BY <1>1 DEF IInv, ItemInv, Sent, ResponseInv, WordInv, GotInv, Since, IrqEnInv
<1>8. WrittenInv'
  BY <1>1, GbusLeaves DEF IInv, WrittenInv, Gpo, At
<1>9. SampleInv'
  BY <1>1 DEF IInv, SampleInv
<1>10. LoadedInv'
  BY <1>1, Names DEF IInv, LoadedInv, Gpi, At
<1>11. ReadInv'
  BY <1>1, GbusLeaves DEF IInv, ReadInv, Over, Intended, Sent
<1>12. CheckersInv'
  BY <1>1, GbusLeaves DEF IInv, CheckersInv, At
<1> QED BY <1>1, <1>5, <1>6, <1>7, <1>8, <1>9, <1>10, <1>11, <1>12, GbusLeaves DEF IInv

(* A driver of pins gets the only item there is for it. *)
LEMMA GetGbusItemInv ==
  ASSUME IInv, NEW g \in Buses, GetGbusItem(g), PinsOnly PROVE IInv'
<1> USE DEF PinsOnly, cocotbVars, testVars, checkVars, dutVars, responseVars,
            requestVars
<1>1. /\ awake = {} /\ awake' = {} /\ driving[g] = "item"
      /\ driving' = [driving EXCEPT ![g] = "align"]
      /\ UNCHANGED <<rst, seen, dying, reading, bus>>
      /\ GetNextItem(g)
      /\ g \in Clients /\ g # Producer
  BY Names DEF GetGbusItem, EdgeTasksDone
<1>2. stage[g] = "queued" /\ item_queue[g] = <<g>>
  BY <1>1, Names DEF GetNextItem, IInv, HandshakeInv
<1>3. /\ current_item' = [current_item EXCEPT ![g] = g]
      /\ stage' = [stage EXCEPT ![g] = "sent"]
      /\ item_queue' = [item_queue EXCEPT ![g] = <<>>]
      /\ UNCHANGED <<item, responses>>
  BY <1>1, <1>2 DEF GetNextItem
<1>4. /\ stage'[g] = "sent" /\ stage' \in [Clients -> Stages]
      /\ \A c \in Clients \ {g} : stage'[c] = stage[c]
      /\ driving' \in [Buses -> {"release", "item", "align"}] /\ driving'[g] = "align"
      /\ \A h \in Buses \ {g} : driving'[h] = driving[h]
  BY <1>1, <1>3, Names DEF IInv, TypeOK, Stages
<1>5. stage'[Producer] = stage[Producer]
  BY <1>1, <1>4, Names
<1>6. TypeOK' /\ StoppedInv'
  BY <1>1, <1>3, <1>4, <1>5, GbusLeaves DEF IInv, TypeOK, StoppedInv
<1>7. HandshakeInv'
  <2>1. item_queue' = [p \in Ports |-> IF stage'[p] = "queued" THEN <<p>> ELSE <<>>]
    BY <1>3, <1>4, Names DEF IInv, HandshakeInv
  <2>2. current_item' = [p \in Ports |-> IF stage'[p] = "sent" THEN p ELSE None]
    BY <1>3, <1>4, Names DEF IInv, HandshakeInv
  <2>3. \A c \in Clients : stage'[c] = "idle" <=> c \notin running'
    BY <1>2, <1>4 DEF IInv, HandshakeInv
  <2>4. \A h \in Buses : driving'[h] = "align" <=> stage'[h] = "sent"
    BY <1>4, Names DEF IInv, HandshakeInv
  <2> QED BY <1>3, <1>5, <2>1, <2>2, <2>3, <2>4 DEF IInv, HandshakeInv
<1>8. ItemInv'
  <2>1. \A c \in Clients :
          stage'[c] \in {"queued", "sent"} => item'[c] \in ItemsFor(at', c)
    BY <1>2, <1>3, <1>4 DEF IInv, ItemInv
  <2> QED BY <1>3, <1>5, <2>1 DEF IInv, ItemInv, Sent
<1>9. \A h \in Buses :
        stage'[h] \in {"idle", "finished"} <=> stage[h] \in {"idle", "finished"}
  BY <1>2, <1>4, Names
<1>10. ResponseInv'
  <2>1. \A h \in Buses : stage'[h] = "finished" <=> stage[h] = "finished"
    BY <1>2, <1>4, Names
  <2> QED BY <1>1, <1>3, <2>1 DEF IInv, ResponseInv
<1>11. IrqEnInv'
  BY <1>1, <1>9, Names, Handles DEF IInv, IrqEnInv
<1>12. WordInv' /\ GotInv' /\ SampleInv'
  BY <1>1 DEF IInv, WordInv, GotInv, Since, SampleInv
<1>13. WrittenInv'
  BY <1>1, <1>3, <1>5, GbusLeaves DEF IInv, WrittenInv, Gpo, At
<1>14. LoadedInv'
  BY <1>1 DEF IInv, LoadedInv, Gpi, At
<1>15. ReadInv'
  BY <1>1, <1>3, <1>5, GbusLeaves DEF IInv, ReadInv, Over, Intended, Sent
<1>16. CheckersInv'
  BY <1>1 DEF IInv, CheckersInv, At
<1> QED BY <1>1, <1>3, <1>5, <1>6, <1>7, <1>8, <1>10, <1>11, <1>12, <1>13, <1>14, <1>15,
           <1>16, GbusLeaves DEF IInv

(* Drives its pins, or finds them as they are. *)
LEMMA HandleRequestInv ==
  ASSUME IInv, NEW g \in Buses, HandleRequest(g), PinsOnly PROVE IInv'
<1> USE DEF PinsOnly, testVars, checkVars, dutVars, responseVars, requestVars
<1> DEFINE i == item[g]
<1>1. /\ g \in awake /\ awake' = awake \ {g} /\ driving[g] = "align"
      /\ driving' = [driving EXCEPT ![g] = "item"]
      /\ UNCHANGED <<rst, seen, dying, reading, item, item_queue>>
      /\ ItemDone(g)
      /\ g \in Clients /\ g # Producer
  BY Names DEF HandleRequest, Resume
<1>2. stage[g] = "sent" /\ current_item[g] = g
  BY <1>1, Names DEF IInv, HandshakeInv
<1>3. /\ stage' = [c \in Clients |-> IF c = g THEN "finished" ELSE stage[c]]
      /\ current_item' = [current_item EXCEPT ![g] = None]
  BY <1>1, <1>2 DEF ItemDone
<1>4. /\ stage'[g] = "finished" /\ stage' \in [Clients -> Stages]
      /\ \A c \in Clients \ {g} : stage'[c] = stage[c]
      /\ driving' \in [Buses -> {"release", "item", "align"}] /\ driving'[g] = "item"
      /\ \A h \in Buses \ {g} : driving'[h] = driving[h]
  BY <1>1, <1>3, Names DEF IInv, TypeOK, Stages
<1>5. stage'[Producer] = stage[Producer]
  BY <1>1, <1>4, Names
<1>6. /\ g \in running /\ at \in Drives \cup {"enable_irq", "sample_gpo"}
      /\ g \in Sends(at).clients
      /\ at \notin BaseSteps \cup {"wait_gpi", "wait_gpo", "wait_ctrl", "wait_irq"}
  BY <1>1, <1>2, Busy, Belongs
<1>7. i \in ItemsFor(at, g)
  BY <1>1, <1>2 DEF IInv, ItemInv
<1>8. /\ i.value \in Nat /\ Fits(i.value, BusWidth[AgentCfg[g]])
      /\ i = [cmd |-> i.cmd, value |-> i.value]
      /\ i.cmd = IF at = "sample_gpo" THEN "SAMPLE" ELSE "DRIVE"
      /\ at = "enable_irq" => i.value = 1
      /\ g = "irq_en_agent" <=> at = "enable_irq"
  BY <1>6, <1>7, PinItems
<1>9. bus' = [bus EXCEPT ![g] = IF at = "sample_gpo" THEN bus[g] ELSE i.value]
  BY <1>2, <1>8 DEF HandleRequest
<1>10. /\ bus' \in [Buses -> Nat]
       /\ bus'[g] = IF at = "sample_gpo" THEN bus[g] ELSE i.value
       /\ \A h \in Buses \ {g} : bus'[h] = bus[h]
  BY <1>8, <1>9 DEF IInv, WordInv
<1>11. responses' = [responses EXCEPT ![g] =
         Append(@, IF at = "sample_gpo" THEN [i EXCEPT !.value = seen.bus[g]] ELSE i)]
  BY <1>2, <1>8 DEF HandleRequest
<1>12. at = "sample_gpo" => seen.bus[g] = bus[g]
  BY <1>1 DEF IInv, SampleInv
<1>13. at \notin Writes \cup Reads \cup Dynamics
  BY <1>6 DEF Writes, Reads, Dynamics, Drives
<1>14. TypeOK' /\ StoppedInv'
  <2>1. \A h \in Buses : Fits(bus'[h], BusWidth[AgentCfg[h]])
    BY <1>8, <1>10 DEF IInv, TypeOK
  <2> QED BY <1>1, <1>4, <1>5, <2>1, GbusLeaves DEF IInv, TypeOK, StoppedInv
<1>15. HandshakeInv'
  <2>1. item_queue' = [p \in Ports |-> IF stage'[p] = "queued" THEN <<p>> ELSE <<>>]
    BY <1>1, <1>2, <1>4, Names DEF IInv, HandshakeInv
  <2>2. current_item' = [p \in Ports |-> IF stage'[p] = "sent" THEN p ELSE None]
    BY <1>3, <1>4, Names DEF IInv, HandshakeInv
  <2>3. \A c \in Clients : stage'[c] = "idle" <=> c \notin running'
    BY <1>2, <1>4 DEF IInv, HandshakeInv
  <2>4. \A h \in Buses : driving'[h] = "align" <=> stage'[h] = "sent"
    BY <1>4, Names DEF IInv, HandshakeInv
  <2>5. DOMAIN responses' = Ports
    BY <1>11 DEF IInv, HandshakeInv
  <2> QED BY <1>1, <1>5, <2>1, <2>2, <2>3, <2>4, <2>5 DEF IInv, HandshakeInv
<1>16. ItemInv'
  <2>1. \A c \in Clients :
          stage'[c] \in {"queued", "sent"} => item'[c] \in ItemsFor(at', c)
    BY <1>1, <1>4 DEF IInv, ItemInv
  <2> QED BY <1>1, <1>5, <2>1 DEF IInv, ItemInv, Sent
<1>17. ResponseInv'
  <2> DEFINE r == IF at = "sample_gpo" THEN [i EXCEPT !.value = seen.bus[g]] ELSE i
  <2>1. r.value = bus'[g]
    BY <1>8, <1>10, <1>12
  <2>2. responses[g] = <<>> /\ g \in DOMAIN responses
    BY <1>2, Names DEF IInv, ResponseInv, HandshakeInv
  <2>3. responses'[g] = <<r>>
    BY <1>11, <2>2
  <2>4. /\ responses'[g] # <<>> /\ Tail(responses'[g]) = <<>>
        /\ Head(responses'[g]).value = bus'[g]
    <3> HIDE DEF r
    <3> QED BY <2>1, <2>3
  <2>5. \A h \in Buses \ {g} : responses'[h] = responses[h] /\ stage'[h] = stage[h]
    BY <1>4, <1>11, Names
  <2> QED BY <1>4, <1>10, <2>4, <2>5 DEF IInv, ResponseInv
<1>18. WordInv'
  BY <1>10 DEF IInv, WordInv
<1>19. WrittenInv'
  <2>1. Written => at = "sample_gpo"
    BY <1>6, <1>13 DEF Written, Writes, Reads
  <2>2. at = "sample_gpo" => bus' = bus
    BY <1>9 DEF IInv, WordInv
  <2> QED BY <1>1, <1>5, <2>1, <2>2, GbusLeaves DEF IInv, WrittenInv, Gpo, At
<1>20. GotInv'
  BY <1>6, <1>10, <1>13, Names, Handles DEF IInv, GotInv, Since, Reads
<1>21. SampleInv'
  BY <1>1, <1>10 DEF IInv, SampleInv
<1>22. LoadedInv'
  BY <1>6, <1>13 DEF IInv, LoadedInv, Reads
<1>23. ReadInv'
  BY <1>6, <1>13 DEF ReadInv, Reads
<1>24. IrqEnInv'
  BY <1>6, <1>8, <1>10, Handles DEF IrqEnInv
<1>25. CheckersInv'
  <2>1. at \notin DOMAIN BaseTest
    BY <1>6, StepNames
  <2>2. At("irq_en")' = IF at = "enable_irq" THEN 1 ELSE At("irq_en")
    BY <1>8, <1>10, Wiring, Names DEF At
  <2>3. rst = "1"
    BY <2>1, StepNames DEF IInv, ProgramInv, BaseSteps
  <2> QED BY <1>1, <1>5, <2>1, <2>2, <2>3, GbusLeaves DEF IInv, CheckersInv
<1> QED BY <1>1, <1>5, <1>14, <1>15, <1>16, <1>17, <1>18, <1>19, <1>20, <1>21, <1>22,
           <1>23, <1>24, <1>25, GbusLeaves DEF IInv

-----------------------------------------------------------------------------
(* The assertion checkers: nobody notices them. *)
LEMMA CheckersLeave ==
  ASSUME IInv, awake' \in {awake, awake \ {Checkers}}, reading' \subseteq {Checkers},
         UNCHANGED <<rst, seen, dying, sequencerVars, process, requestVars, gbusVars,
                     dutVars, testVars>>
  PROVE  /\ ProgramInv' /\ HandshakeInv' /\ StoppedInv' /\ ItemInv' /\ ResponseInv'
         /\ ApbInv' /\ WordInv' /\ WrittenInv' /\ GotInv' /\ SampleInv' /\ LoadedInv'
         /\ ReadInv' /\ IrqEnInv'
         /\ pulse' \in {"off", "watch", "high"} /\ passed' \in BOOLEAN => TypeOK'
<1> USE DEF sequencerVars, requestVars, gbusVars, dutVars, responseVars, testVars
<1>1. /\ Producer \in awake' <=> Producer \in awake
      /\ \A g \in Buses : g \in awake' <=> g \in awake
  BY Names DEF Checkers
<1>2. ProgramInv' /\ HandshakeInv' /\ WordInv' /\ GotInv'
  BY DEF IInv, ProgramInv, Unchecked, HandshakeInv, WordInv, GotInv, Since
<1>3. StoppedInv' /\ SampleInv'
  BY <1>1 DEF IInv, StoppedInv, SampleInv
<1>4. ItemInv' /\ ResponseInv' /\ IrqEnInv'
  BY DEF IInv, ItemInv, Sent, ResponseInv, IrqEnInv
<1>5. ApbInv'
  BY <1>1 DEF IInv, ApbInv, Sent
<1>6. Performed' <=> Performed
  BY <1>1 DEF Performed
<1>7. Written' <=> Written
  BY <1>6 DEF Written
<1>8. WrittenInv'
  BY <1>7 DEF IInv, WrittenInv, Gpo, At
<1>9. LoadedInv'
  BY <1>1 DEF IInv, LoadedInv, Gpi, At
<1>10. ReadInv'
  BY <1>6 DEF IInv, ReadInv, Over, Intended, Sent
<1>11. ASSUME pulse' \in {"off", "watch", "high"}, passed' \in BOOLEAN PROVE TypeOK'
  <2>1. Dut!SubordinateTypeOK'
    BY DEF IInv, TypeOK, Dut!SubordinateTypeOK
  <2> QED BY <1>11, <2>1, Stays DEF IInv, TypeOK
<1> QED BY <1>2, <1>3, <1>4, <1>5, <1>8, <1>9, <1>10, <1>11

(* The checkers start after the reset. *)
LEMMA StartCheckingInv == ASSUME IInv, StartChecking PROVE IInv'
<1>1. /\ Checkers \in awake /\ awake' = awake \ {Checkers} /\ reading' = reading
      /\ UNCHANGED <<rst, seen, dying, sequencerVars, process, requestVars, gbusVars,
                     dutVars, testVars>>
  BY DEF StartChecking, Resume
<1>2. passed = TRUE /\ pulse = "off" /\ ~seen.irq
  BY <1>1 DEF IInv, CheckersInv, TypeOK
<1>3. passed' = TRUE /\ pulse' = "watch"
  BY <1>2 DEF StartChecking, Assertions
<1>4. reading' \subseteq {Checkers}
  BY <1>1 DEF IInv, TypeOK
<1>5. rst = "1"
  BY <1>1 DEF IInv, StoppedInv
<1>6. CheckersInv'
  BY <1>1, <1>3, <1>5 DEF IInv, CheckersInv, At, gbusVars, testVars
<1> QED BY <1>1, <1>3, <1>4, <1>6, CheckersLeave DEF IInv

(* The checkers look at a cycle. *)
LEMMA CheckAssertionsInv == ASSUME IInv, CheckAssertions PROVE IInv'
<1>1. /\ Checkers \in reading /\ reading' = reading \ {Checkers} /\ awake' = awake
      /\ UNCHANGED <<rst, seen, dying, sequencerVars, process, requestVars, gbusVars,
                     dutVars, testVars>>
      /\ Checkers \notin awake
  BY DEF CheckAssertions, Settled, EdgeTasksDone
<1>2. passed = TRUE /\ pulse \in {"watch", "high"} /\ (pulse = "high" => ~IRQ_REG)
  BY <1>1 DEF IInv, CheckersInv, TypeOK
<1>3. Dut!irq <=> IRQ_REG /\ At("irq_en") = 1
  BY DEF Dut!irq
<1>4. passed' = TRUE
  BY <1>2, <1>3 DEF CheckAssertions, Assertions
<1>5. /\ pulse' \in {"watch", "high"}
      /\ pulse' = "high" => IRQ_REG /\ At("irq_en") = 1
  BY <1>3 DEF CheckAssertions, Assertions
<1>6. reading' \subseteq {Checkers} /\ Checkers \notin reading'
  BY <1>1 DEF IInv, TypeOK
<1>7. rst # "0" /\ (rst = "z" => pulse' = "watch")
  <2>1. rst # "0"
    BY <1>1 DEF IInv, CheckersInv
  <2>2. rst = "z" => at \in DOMAIN BaseTest
    BY StepNames DEF IInv, ProgramInv, BaseSteps
  <2> QED BY <1>5, <2>1, <2>2 DEF IInv, CheckersInv
<1>8. CheckersInv'
  BY <1>1, <1>4, <1>5, <1>6, <1>7
     DEF IInv, CheckersInv, At, gbusVars, testVars, dutVars
<1> QED BY <1>1, <1>4, <1>5, <1>6, <1>8, CheckersLeave DEF IInv

-----------------------------------------------------------------------------
(* A clock edge.  The request on the bus is that of the step of the test. *)
LEMMA Request ==
  ASSUME IInv, PSEL
  PROVE  /\ stage[Producer] = "sent" /\ Producer \in running
         /\ process[Producer] \in {"enable", "ready"}
         /\ at \in Writes \cup Reads \cup Dynamics
         /\ op.we \in BOOLEAN /\ op.addr \in Addr
         /\ op.we => op.wdata \in Data /\ op.wdata < 256
         /\ at \in Writes => op.we /\ op.wdata = got.written
         /\ at \in Reads => ~op.we
         /\ at \in {"write_rw", "read_rw"} => op.addr = 0
         /\ at = "read_gpio" => op.addr = 4
         /\ at = "write_gpio" => op.addr = 8
         /\ at = "read_ctrl" => op.addr = 12
<1>1. process[Producer] \in {"enable", "ready"} /\ stage[Producer] = "sent"
  BY DEF IInv, ApbInv, HandshakeInv
<1>2. Producer \in running /\ at \in Writes \cup Reads \cup Dynamics
  BY <1>1, Names, Busy, Belongs
<1>3. Sent \in ItemsFor(at, Producer) /\ Producer \in Clients
  BY <1>1, Names DEF IInv, ItemInv, Sent
<1>4. Sent \in ApbItems
  BY <1>1 DEF IInv, ItemInv
<1>5. op.we = Sent.we /\ op.addr = Sent.addr /\ (op.we => op.wdata = Sent.data)
  BY DEF IInv, ApbInv
<1>6. Sent.we = TRUE => Sent.data \in Data /\ Sent.data < 256
  BY <1>2, <1>3, AccessItems
<1>7. at \in Writes => Sent.we = TRUE
  BY <1>2, <1>3, AccessItems
<1>8. at \in Reads => Sent.we = FALSE
  BY <1>2, <1>3, AccessItems
<1>9. at \in {"write_rw", "read_rw"} => Sent.addr = 0
  BY <1>2, <1>3, AccessItems
<1>10. at = "read_gpio" => Sent.addr = 4
  BY <1>2, <1>3, AccessItems
<1>11. at = "write_gpio" => Sent.addr = 8
  BY <1>2, <1>3, AccessItems
<1>12. at = "read_ctrl" => Sent.addr = 12
  BY <1>2, <1>3, AccessItems
<1>13. at \in Writes => got.written = Sent.data
  BY <1>1, ForkSteps DEF IInv, ItemInv
<1>14. Sent.we \in BOOLEAN /\ Sent.addr \in Addr
  BY <1>4 DEF ApbItems
<1> QED BY <1>1, <1>2, <1>5, <1>6, <1>7, <1>8, <1>9, <1>10, <1>11, <1>12, <1>13, <1>14

(* What the design makes of an access. *)
LEMMA Decoded ==
  ASSUME NEW we \in BOOLEAN, NEW a \in Addr
  PROVE  Dut!Outcome(we, a) = Dut!ExampleOutcome(we, a)
BY StudentBenchAssumption DEF Dut!Outcome

(* The registers that are loaded from the pins. *)
LEMMA OnlyPinsSampled == Dut!Sampled = {4, 12}
BY StudentBenchAssumption, Limits DEF Dut!Sampled

WritesTo(a) == Dut!Performs /\ op.we /\ op.addr = a

(* The registers that are not loaded from the pins hold what is written. *)
LEMMA RegistersMove ==
  ASSUME IInv, Dut!SubordinateEdge(PSEL, op)
  PROVE  /\ regs' \in [Addr -> Data]
         /\ \A a \in {0, 8} : regs'[a] = IF WritesTo(a) THEN op.wdata ELSE regs[a]
<1> DEFINE W == IF op.we /\ Dut!Outcome(TRUE, op.addr) = "ok" THEN {op.addr} ELSE {}
<1>1. regs \in [Addr -> Data] /\ {0, 8} \subseteq Addr
  BY Limits DEF IInv, TypeOK, Dut!SubordinateTypeOK
<1>2. CASE Dut!Performs
  <2>1. Dut!Clocked(W, op.wdata)
    BY <1>2 DEF Dut!SubordinateEdge, Dut!Performs
  <2>2. PICK pins \in [Dut!Sampled -> Data] :
          regs' = [a \in Addr |-> IF a \in Dut!Sampled THEN pins[a]
                                  ELSE IF a \in W THEN op.wdata ELSE regs[a]]
    BY <2>1 DEF Dut!Clocked
  <2>3. op.we \in BOOLEAN /\ op.addr \in Addr /\ (op.we => op.wdata \in Data)
    BY <1>2, Request DEF Dut!Performs
  <2>4. regs' \in [Addr -> Data]
    BY <1>1, <2>2, <2>3
  <2>5. \A a \in {0, 8} : a \in W <=> op.we /\ op.addr = a
    <3>1. Dut!Outcome(TRUE, op.addr) = Dut!ExampleOutcome(TRUE, op.addr)
      BY <2>3, Decoded
    <3> QED BY <3>1 DEF Dut!ExampleOutcome, Dut!OneOf
  <2>6. \A a \in {0, 8} : regs'[a] = IF a \in W THEN op.wdata ELSE regs[a]
    <3>1. \A a \in {0, 8} : a \in Addr /\ a \notin Dut!Sampled
      BY <1>1, OnlyPinsSampled
    <3> HIDE DEF W
    <3> QED BY <2>2, <3>1
  <2> QED BY <1>2, <2>4, <2>5, <2>6 DEF WritesTo
<1>3. CASE ~Dut!Performs
  <2>1. Dut!Clocked({}, 0)
    BY <1>3 DEF Dut!SubordinateEdge, Dut!Performs
  <2>2. PICK pins \in [Dut!Sampled -> Data] :
          regs' = [a \in Addr |-> IF a \in Dut!Sampled THEN pins[a]
                                  ELSE IF a \in {} THEN 0 ELSE regs[a]]
    BY <2>1 DEF Dut!Clocked
  <2> QED BY <1>1, <1>3, <2>2, OnlyPinsSampled DEF WritesTo
<1> QED BY <1>2, <1>3

(* What the design answers, and when. *)
LEMMA ResponseMoves ==
  ASSUME IInv, Dut!SubordinateEdge(PSEL, op)
  PROVE  /\ PREADY' \in BOOLEAN /\ PSLVERR' \in BOOLEAN /\ PRDATA' \in Data
         /\ PREADY' <=> Dut!Performs
         /\ Dut!Performs /\ ~op.we /\ op.addr \in {0, 4, 12} => PRDATA' = regs[op.addr]
         /\ ~Dut!Performs => PRDATA' = PRDATA
<1>1. PRDATA \in Data /\ regs \in [Addr -> Data]
  BY DEF IInv, TypeOK, Dut!SubordinateTypeOK
<1>2. CASE Dut!Performs
  <2>1. op.we \in BOOLEAN /\ op.addr \in Addr
    BY <1>2, Request DEF Dut!Performs
  <2>2. Dut!Outcome(op.we, op.addr) = Dut!ExampleOutcome(op.we, op.addr)
    BY <2>1, Decoded
  <2>3. Dut!Respond(op)
    BY <1>2 DEF Dut!SubordinateEdge, Dut!Performs
  <2>4. Dut!Outcome(op.we, op.addr) # "none"
    BY <2>2 DEF Dut!ExampleOutcome, Dut!OneOf
  <2>5. ~op.we /\ op.addr \in {0, 4, 12} => Dut!Outcome(op.we, op.addr) = "ok"
    BY <2>2 DEF Dut!ExampleOutcome, Dut!OneOf
  <2>6. regs[op.addr] \in Data
    BY <1>1, <2>1
  <2>7. PREADY' = TRUE /\ PSLVERR' \in BOOLEAN
    BY <2>3, <2>4 DEF Dut!Respond
  <2>8. PRDATA' \in Data
    BY <1>1, <2>3, <2>6 DEF Dut!Respond
  <2>9. ~op.we /\ op.addr \in {0, 4, 12} => PRDATA' = regs[op.addr]
    BY <2>3, <2>5 DEF Dut!Respond
  <2> QED BY <1>2, <2>7, <2>8, <2>9
<1>3. CASE ~Dut!Performs
  <2>1. Dut!CutResponse
    BY <1>3 DEF Dut!SubordinateEdge, Dut!Performs
  <2>2. PREADY' = FALSE /\ PSLVERR' \in BOOLEAN /\ PRDATA' = PRDATA
    BY <2>1 DEF Dut!CutResponse
  <2>3. PRDATA' \in Data
    BY <1>1, <2>2
  <2> QED BY <1>3, <2>2, <2>3
<1> QED BY <1>2, <1>3

(* The counter that raises the interrupt. *)
LEMMA CounterMoves ==
  ASSUME IInv, Dut!IrqEdge
  PROVE  /\ IRQ_REG' \in BOOLEAN /\ COUNT_REG' \in 0 .. Threshold + 15
         /\ Dut!irq => ~IRQ_REG'
<1>1. /\ Threshold \in Nat /\ COUNT_REG \in Nat /\ COUNT_REG <= Threshold + 15
      /\ IRQ_REG \in BOOLEAN
  BY Limits DEF IInv, TypeOK
<1>2. Gpi \in Nat
  BY Wiring, Names DEF Gpi, At, IInv, WordInv
<1>3. Gpi % 16 \in 0 .. 15
  BY <1>2
<1>4. \/ COUNT_REG' = 0 \/ COUNT_REG' = COUNT_REG
      \/ COUNT_REG < Threshold /\ COUNT_REG' = ((Gpi % 16) + COUNT_REG) % 65536
      \/ Dut!irq
  BY <1>1 DEF Dut!IrqEdge, Dut!Low, Dut!CountSpan, Gpi
<1>5. Dut!irq => COUNT_REG' = COUNT_REG
  BY DEF Dut!IrqEdge
<1>6. COUNT_REG < Threshold => ((Gpi % 16) + COUNT_REG) % 65536 \in 0 .. Threshold + 15
  BY <1>1, <1>3
<1>7. COUNT_REG' \in 0 .. Threshold + 15
  BY <1>1, <1>4, <1>5, <1>6
<1>8. IRQ_REG' = TRUE \/ IRQ_REG' = FALSE \/ IRQ_REG' = IRQ_REG
  BY Zenon DEF Dut!IrqEdge
<1>9. IRQ_REG' \in BOOLEAN
  BY <1>1, <1>8
<1>10. Dut!irq => IRQ_REG' = FALSE
  BY DEF Dut!IrqEdge
<1> QED BY <1>7, <1>9, <1>10

OutputAgents == {"pmod_0_gpo_agent", "pmod_1_gpo_agent"}

(* The pins: the design drives the outputs, from the write register or as   *)
(* the latches hold them.                                                   *)
LEMMA PinsMove ==
  ASSUME IInv, rst = "1", DutEdge
  PROVE  /\ oe' \in [Dut!Pmods -> BOOLEAN]
         /\ oe'[0] <=>
              (WritesTo(8) \/ (oe[0] /\ ~(Dut!Performs /\ ~op.we /\ op.addr = 4)))
         /\ bus' \in [Buses -> Nat]
         /\ \A g \in Buses \ OutputAgents : bus'[g] = bus[g]
         /\ \A g \in OutputAgents : bus'[g] < 16
         /\ Gpo' = IF oe'[0] THEN regs'[8] ELSE Gpo
         /\ regs'[8] < 256
<1> DEFINE g0 == "pmod_0_gpo_agent"
           g1 == "pmod_1_gpo_agent"
<1>1. /\ oe' = IF WritesTo(8) THEN [q \in Dut!Pmods |-> TRUE]
               ELSE IF Dut!Performs /\ ~op.we /\ op.addr = 4
               THEN [q \in Dut!Pmods |-> FALSE] ELSE oe
      /\ oe \in [Dut!Pmods -> BOOLEAN] /\ 0 \in Dut!Pmods
  BY DEF DutEdge, Dut!Direction, Dut!WritesPins, Dut!ReadsPins, Dut!IsPinWrite,
         Dut!IsPinRead, Dut!GPIO_W_REG, Dut!GPIO_R_REG, WritesTo, IInv, WordInv, Dut!Pmods
<1>2. Dut!SubordinateEdge(PSEL, op)
  BY DEF DutEdge
<1>3. /\ regs'[8] = IF WritesTo(8) THEN op.wdata ELSE regs[8]
      /\ regs'[8] \in Nat
  BY <1>2, RegistersMove, Limits
<1>4. WritesTo(8) => op.wdata < 256
  BY Request DEF WritesTo, Dut!Performs
<1>5. regs'[8] < 256
  BY <1>3, <1>4 DEF IInv, WordInv
<1>6. bus \in [Buses -> Nat] /\ g0 \in Buses /\ g1 \in Buses /\ g0 # g1
  BY Names DEF IInv, WordInv
<1>7. bus[g0] < 16 /\ bus[g1] < 16
  BY <1>6, Spans, Widths DEF IInv, TypeOK
<1>8. PICK word \in Data : ShowOutputs(word) /\ Dut!Latch
  BY DEF DutEdge
<1>9. bus' = [bus EXCEPT ![g0] = word % 16, ![g1] = word \div 16]
  BY <1>8, Wiring DEF ShowOutputs
<1>10. bus'[g0] = word % 16 /\ bus'[g1] = word \div 16
  BY <1>6, <1>9
<1>11. \A g \in Buses \ OutputAgents : bus'[g] = bus[g]
  BY <1>6, <1>9 DEF OutputAgents
<1>12. word \in Nat /\ word % 16 \in 0 .. 15 /\ word \div 16 \in Nat
       /\ (word % 16) + 16 * (word \div 16) = word
  BY Limits
<1>13. Gpo' = word
  BY <1>10, <1>12, Wiring DEF Gpo, At
<1>14. Gpo = bus[g0] + 16 * bus[g1]
  BY Wiring DEF Gpo, At
<1>15. Gpo' = IF oe'[0] THEN regs'[8] ELSE Gpo
  BY <1>8 DEF Dut!Latch, Gpo, Dut!GPIO_W_REG
<1>16. word < 256
  BY <1>3, <1>5, <1>6, <1>7, <1>12, <1>13, <1>14, <1>15
<1>17. bus'[g0] < 16 /\ bus'[g1] < 16
  BY <1>10, <1>12, <1>16
<1>18. bus' \in [Buses -> Nat]
  BY <1>6, <1>9, <1>12
<1>19. oe'[0] <=> (WritesTo(8) \/ (oe[0] /\ ~(Dut!Performs /\ ~op.we /\ op.addr = 4)))
  BY <1>1
<1>20. oe' \in [Dut!Pmods -> BOOLEAN]
  BY <1>1
<1> QED BY <1>5, <1>11, <1>15, <1>17, <1>18, <1>19, <1>20 DEF OutputAgents

(* What the pins say is what the PMODs say, one by one. *)
LEMMA OutputsSame ==
  ASSUME IInv, bus' \in [Buses -> Nat], \A g \in OutputAgents : bus'[g] < 16, Gpo' = Gpo
  PROVE  \A g \in OutputAgents : bus'[g] = bus[g]
<1> DEFINE g0 == "pmod_0_gpo_agent"
           g1 == "pmod_1_gpo_agent"
<1>1. bus \in [Buses -> Nat] /\ g0 \in Buses /\ g1 \in Buses
  BY Names DEF IInv, WordInv
<1>2. bus[g0] < 16 /\ bus[g1] < 16
  BY <1>1, Spans, Widths DEF IInv, TypeOK
<1>3. bus'[g0] + 16 * bus'[g1] = bus[g0] + 16 * bus[g1]
  BY Wiring DEF Gpo, At
<1>4. /\ bus[g0] \in Nat /\ bus[g1] \in Nat /\ bus'[g0] \in Nat /\ bus'[g1] \in Nat
      /\ bus'[g0] < 16
  BY <1>1 DEF OutputAgents
<1>5. PICK a \in Nat, b \in Nat : a = bus[g0] /\ b = bus[g1]
  BY <1>4
<1>6. PICK c \in Nat, d \in Nat : c = bus'[g0] /\ d = bus'[g1]
  BY <1>4
<1>7. a + 16 * b = c + 16 * d /\ a < 16 /\ c < 16
  BY <1>2, <1>3, <1>4, <1>5, <1>6
<1>8. a = c /\ b = d
  BY <1>7
<1> QED BY <1>5, <1>6, <1>8 DEF OutputAgents

(* Where everybody is when time goes on. *)
LEMMA AtEdge ==
  ASSUME IInv, Settled
  PROVE  /\ awake = {} /\ dying = {} /\ starting = {}
         /\ \A c \in Clients : stage[c] # "finished"
         /\ PREADY <=> process[Producer] = "ready"
         /\ Dut!Performs <=> process[Producer] = "enable"
         /\ Performed <=> process[Producer] = "ready"
<1>1. awake = {} /\ dying = {} /\ starting = {}
  BY DEF Settled, EdgeTasksDone
<1>2. \A c \in Clients : stage[c] # "finished"
  BY Busy DEF Settled
<1>3. PREADY <=> process[Producer] = "ready"
  BY <1>1 DEF IInv, ApbInv
<1>4. PSEL <=> process[Producer] \in {"enable", "ready"}
  BY DEF IInv, ApbInv
<1>5. Dut!Performs <=> process[Producer] = "enable"
  BY <1>3, <1>4 DEF Dut!Performs
<1>6. Performed <=> process[Producer] = "ready"
  BY <1>1 DEF Performed
<1> QED BY <1>1, <1>2, <1>3, <1>5, <1>6

(* Whatever the design does, an edge wakes whom it concerns. *)
LEMMA ClkLeaves ==
  ASSUME IInv, Clk
  PROVE  /\ ProgramInv' /\ HandshakeInv' /\ StoppedInv' /\ ItemInv'
         /\ awake' \subseteq Ports \cup {Checkers} /\ dying' = {}
         /\ reading' \subseteq {Checkers}
         /\ Producer \in awake' <=> \/ process[Producer] \in {"align", "enable", "ready"}
                                    \/ process[Producer] = "reset" /\ rst = "1"
         /\ Checkers \in awake' <=> pulse = "off" /\ rst = "1"
         /\ Checkers \in reading' <=> pulse # "off"
         /\ \A g \in Buses : stage[g] # "finished" /\ responses[g] = <<>>
         /\ test' \in DOMAIN Tests'
         /\ at' \in DOMAIN BaseTest \cup DOMAIN (Tests'[test']) \cup {"drop"}
<1> USE DEF sequencerVars, requestVars, checkVars
<1>1. /\ Settled /\ starting = {} /\ \A c \in Clients : stage[c] # "finished"
      /\ PREADY <=> process[Producer] = "ready"
  BY AtEdge DEF Clk
<1>2. rst # "1" =>
        process[Producer] = "reset" /\ \A g \in Buses : driving[g] = "release"
  BY DEF IInv, StoppedInv
<1>3. /\ UNCHANGED <<rst, item, stage, item_queue, current_item, responses, process, PSEL,
                    op, driving, test, at, round, starting, running, got, objections,
                    verdict, pulse, passed>>
      /\ left' = IF left = 0 THEN 0 ELSE left - 1
      /\ awake' = {d \in ApbPorts : WakesProducer} \cup WakesGbus
                    \cup {k \in {Checkers} : pulse = "off" /\ rst = "1"}
      /\ dying' = KilledByEdge /\ reading' = {k \in {Checkers} : pulse # "off"}
  BY DEF Clk
<1>4. dying' = {}
  BY <1>2, <1>3, Names DEF KilledByEdge, Alive
<1>5. awake' \subseteq Ports \cup {Checkers} /\ reading' \subseteq {Checkers}
  BY <1>3, Names DEF WakesGbus
<1>6. Producer \in awake' <=> \/ process[Producer] \in {"align", "enable", "ready"}
                              \/ process[Producer] = "reset" /\ rst = "1"
  <2>1. Producer \in awake' <=> WakesProducer
    BY <1>3, Names DEF WakesGbus, Checkers
  <2> QED BY <1>1, <2>1 DEF WakesProducer, ReleasedByEdge
<1>7. Checkers \in awake' <=> pulse = "off" /\ rst = "1"
  BY <1>3, Names DEF WakesGbus, Checkers
<1>8. StoppedInv'
  <2>1. rst # "1" => WakesGbus = {} /\ Producer \notin awake' /\ Checkers \notin awake'
    BY <1>2, <1>6, <1>7 DEF WakesGbus
  <2>2. rst # "1" => awake' = {}
    BY <1>3, <2>1, Names
  <2> QED BY <1>2, <1>3, <2>2 DEF StoppedInv
<1>9. ProgramInv'
  BY <1>3 DEF IInv, ProgramInv, Unchecked
<1>10. HandshakeInv'
  BY <1>3 DEF IInv, HandshakeInv
<1>11. ItemInv'
  BY <1>3 DEF IInv, ItemInv, Sent
<1>12. \A g \in Buses : stage[g] # "finished" /\ responses[g] = <<>>
  BY <1>1, Names DEF IInv, ResponseInv
<1> QED BY <1>3, <1>4, <1>5, <1>6, <1>7, <1>8, <1>9, <1>10, <1>11, <1>12, Stays

(* Before the end of the reset nothing happens at an edge. *)
LEMMA EdgeInReset == ASSUME IInv, Clk, rst # "1" PROVE IInv'
<1> USE DEF dutVars, responseVars, sequencerVars, requestVars, checkVars
<1>1. /\ UNCHANGED <<PREADY, PSLVERR, PRDATA, regs, oe, IRQ_REG, COUNT_REG, bus>>
      /\ process[Producer] = "reset" /\ ~PSEL
  BY DEF Clk, DutEdge, IInv, StoppedInv, ApbInv
<1>2. at \in BaseSteps /\ at' = at
  BY StepNames DEF IInv, ProgramInv, Clk, BaseSteps
<1>3. reading = {} /\ awake = {}
  BY AtEdge DEF Clk
<1>4. TypeOK'
  <2>1. Dut!SubordinateTypeOK'
    BY <1>1 DEF IInv, TypeOK, Dut!SubordinateTypeOK
  <2> QED BY <1>1, <2>1, ClkLeaves DEF IInv, TypeOK, Clk
<1>5. ResponseInv'
  BY ClkLeaves DEF ResponseInv, Clk
<1>6. ApbInv'
  BY <1>1, <1>3, ClkLeaves DEF IInv, ApbInv, Sent, Clk
<1>7. WordInv'
  BY <1>1 DEF IInv, WordInv
<1>8. WrittenInv' /\ GotInv' /\ SampleInv' /\ ReadInv' /\ IrqEnInv'
  BY <1>2, Unconcerned
<1>9. LoadedInv'
  BY <1>1, <1>2 DEF IInv, LoadedInv, BaseSteps, Clk
<1>10. CheckersInv'
  <2>1. pulse # "high"
    BY DEF IInv, TypeOK, CheckersInv
  <2> QED BY <1>1, <1>2, <1>3, <2>1, ClkLeaves DEF IInv, CheckersInv, At, Clk
<1> QED BY <1>4, <1>5, <1>6, <1>7, <1>8, <1>9, <1>10, ClkLeaves DEF IInv

(* From the reset on. *)
LEMMA EdgeRunning == ASSUME IInv, Clk, rst = "1" PROVE IInv'
<1> USE DEF sequencerVars, requestVars, checkVars
<1>1. /\ Settled /\ reading = {} /\ awake = {} /\ starting = {}
      /\ PREADY <=> process[Producer] = "ready"
      /\ Dut!Performs <=> process[Producer] = "enable"
      /\ Performed <=> process[Producer] = "ready"
      /\ stage[Producer] # "finished"
  BY AtEdge, Names DEF Clk
<1>2. /\ UNCHANGED <<rst, item, stage, item_queue, current_item, responses, process, PSEL,
                    op, driving, test, at, round, starting, running, got, objections,
                    verdict, pulse, passed>>
      /\ left' = IF left = 0 THEN 0 ELSE left - 1
      /\ seen'.apb.rdata = PRDATA /\ seen'.bus = bus
      /\ seen'.irq <=> Dut!irq
  BY DEF Clk, ApbSignals
<1>3. /\ DutEdge /\ Dut!SubordinateEdge(PSEL, op) /\ Dut!IrqEdge
      /\ regs'[4] = IF oe[0] THEN regs[4] ELSE Gpi
      /\ regs'[12] = At("ss_ctrl")
  BY DEF Clk, DutEdge, Dut!Sample, Dut!SampleCtrl, Gpi, Dut!GPIO_R_REG, Dut!SS_CTRL_REG
<1>4. /\ oe' \in [Dut!Pmods -> BOOLEAN]
      /\ oe'[0] <=> (WritesTo(8) \/ (oe[0] /\ ~(Dut!Performs /\ ~op.we /\ op.addr = 4)))
      /\ bus' \in [Buses -> Nat]
      /\ \A g \in Buses \ OutputAgents : bus'[g] = bus[g]
      /\ \A g \in OutputAgents : bus'[g] < 16
      /\ Gpo' = IF oe'[0] THEN regs'[8] ELSE Gpo
      /\ regs'[8] < 256
  BY <1>3, PinsMove
<1>5. /\ regs' \in [Addr -> Data]
      /\ \A a \in {0, 8} : regs'[a] = IF WritesTo(a) THEN op.wdata ELSE regs[a]
  BY <1>3, RegistersMove
<1>6. /\ PREADY' \in BOOLEAN /\ PSLVERR' \in BOOLEAN /\ PRDATA' \in Data
      /\ PREADY' <=> process[Producer] = "enable"
      /\ process[Producer] = "enable" /\ ~op.we /\ op.addr \in {0, 4, 12} =>
           PRDATA' = regs[op.addr]
      /\ process[Producer] # "enable" => PRDATA' = PRDATA
  BY <1>1, <1>3, ResponseMoves
<1>7. /\ IRQ_REG' \in BOOLEAN /\ COUNT_REG' \in 0 .. Threshold + 15
      /\ Dut!irq => ~IRQ_REG'
  BY <1>3, CounterMoves
<1>8. Gpi' = Gpi /\ At("ss_ctrl")' = At("ss_ctrl") /\ At("irq_en")' = At("irq_en")
  BY <1>4, Names, Wiring DEF Gpi, At, OutputAgents
<1>9. Performed' <=> process[Producer] \in {"enable", "ready"}
  BY <1>2, ClkLeaves DEF Performed
<1>10. PSEL <=> process[Producer] \in {"enable", "ready"}
  BY DEF IInv, ApbInv
<1>11. \A a : WritesTo(a) => process[Producer] = "enable" /\ op.we /\ op.addr = a
  BY <1>1 DEF WritesTo
<1>12. TypeOK'
  <2>1. Dut!SubordinateTypeOK'
    BY <1>5, <1>6 DEF Dut!SubordinateTypeOK
  <2>2. \A g \in Buses : Fits(bus'[g], BusWidth[AgentCfg[g]])
    <3>1. \A g \in Buses \ OutputAgents : Fits(bus'[g], BusWidth[AgentCfg[g]])
      BY <1>4 DEF IInv, TypeOK
    <3>2. \A g \in OutputAgents : Fits(bus'[g], BusWidth[AgentCfg[g]])
      BY <1>4, Names, Spans, Widths DEF OutputAgents
    <3> QED BY <3>1, <3>2
  <2> QED BY <1>2, <1>7, <2>1, <2>2, ClkLeaves DEF IInv, TypeOK
<1>13. ResponseInv'
  BY <1>2, ClkLeaves DEF ResponseInv
<1>14. ApbInv'
  BY <1>1, <1>2, <1>6, ClkLeaves DEF IInv, ApbInv, Sent
<1>15. WordInv'
  BY <1>4 DEF WordInv
<1>16. WrittenInv'
  <2>1. CASE at \in Writes /\ process[Producer] = "enable"
    <3>1. PSEL /\ Dut!Performs
      BY <1>1, <1>10, <2>1
    <3>2. op.we /\ op.wdata = got.written /\ op.addr = IF at = "write_rw" THEN 0 ELSE 8
      BY <2>1, <3>1, Request DEF Writes
    <3>3. CASE at = "write_rw"
      BY <1>2, <1>5, <3>1, <3>2, <3>3, WhichTest DEF WritesTo, WrittenInv
    <3>4. CASE at = "write_gpio"
      BY <1>2, <1>4, <1>5, <3>1, <3>2, <3>4, WhichTest DEF WritesTo, WrittenInv
    <3> QED BY <2>1, <3>3, <3>4 DEF Writes
  <2>2. CASE ~(at \in Writes /\ process[Producer] = "enable")
    <3>1. Written' => Written
      BY <1>1, <1>2, <1>9, <2>2 DEF Written, Writes
    <3>2. Written => at \in Writes \cup {"read_rw", "wait_gpo", "sample_gpo"}
      BY DEF Written, Writes
    <3>3. at \in Writes => ~Dut!Performs
      BY <1>1, <2>2
    <3>4. at = "read_rw" /\ PSEL => ~op.we /\ test = "rw"
      BY Request, WhichTest DEF Reads
    <3>5. at \in {"wait_gpo", "sample_gpo"} => ~PSEL
      BY Request DEF Writes, Reads, Dynamics
    <3>6. Written => ~WritesTo(0) /\ ~WritesTo(8)
      BY <3>2, <3>3, <3>4, <3>5 DEF WritesTo, Dut!Performs
    <3>7. Written /\ test = "write_pmod" => ~Dut!Performs
      BY <3>2, <3>3, <3>5, WhichTest DEF Dut!Performs
    <3>8. Written => regs'[0] = regs[0] /\ regs'[8] = regs[8]
      BY <1>5, <3>6
    <3>9. Written /\ test = "write_pmod" => oe'[0] = TRUE /\ Gpo' = regs'[8]
      BY <1>4, <3>7 DEF IInv, WrittenInv
    <3> QED BY <1>2, <3>1, <3>8, <3>9 DEF IInv, WrittenInv
  <2> QED BY <2>1, <2>2
<1>17. at = "sample_gpo" => \A g \in Buses : bus'[g] = bus[g]
  <2> SUFFICES ASSUME at = "sample_gpo" PROVE \A g \in Buses : bus'[g] = bus[g]
    OBVIOUS
  <2>1. Gpo = got.written /\ Gpo' = got'.written
    BY <1>2, <1>16, WhichTest DEF IInv, WrittenInv, Written
  <2>2. \A g \in OutputAgents : bus'[g] = bus[g]
    BY <1>2, <1>4, <2>1, OutputsSame
  <2> QED BY <1>4, <2>2
<1>18. GotInv'
  <2>1. \A g \in {"pmod_0_gpi_agent", "pmod_1_gpi_agent", "ss_ctrl_agent"} :
          bus'[g] = bus[g]
    BY <1>4, Names DEF OutputAgents
  <2>2. at = "sample_gpo" => \A g \in OutputAgents : bus'[g] = bus[g]
    BY <1>17, Names DEF OutputAgents
  <2> QED BY <1>2, <2>1, <2>2, Handles DEF IInv, GotInv, Since, OutputAgents
<1>19. SampleInv'
  BY <1>2, <1>17 DEF SampleInv
<1>20. LoadedInv'
  <2>1. test = "read_pmod" => ~oe[0] /\ ~WritesTo(8)
    <3>1. ASSUME test = "read_pmod", PSEL PROVE ~op.we
      <4>1. at \in Writes \cup Reads \cup Dynamics
        BY <3>1, Request
      <4>2. at \in {"drop_base", "drive_gpi", "wait_gpi", "read_gpio", "check", "wait",
                    "drop"}
                     \cup BaseSteps
        BY <3>1, StepNames DEF IInv, TypeOK, Tests
      <4>3. at = "read_gpio"
        BY <4>1, <4>2 DEF Writes, Reads, Dynamics, BaseSteps
      <4> QED BY <3>1, <4>3, Request DEF Reads
    <3> QED BY <3>1 DEF WritesTo, Dut!Performs, IInv, LoadedInv
  <2>2. test = "read_pmod" => ~oe'[0] /\ regs'[4] = Gpi'
    BY <1>3, <1>4, <1>8, <2>1
  <2> QED BY <1>2, <1>3, <1>8, <2>2 DEF LoadedInv
<1>21. ReadInv'
  <2>1. Intended' = Intended
    BY <1>2 DEF Intended
  <2>2. ASSUME test # "random", at \in Reads, process[Producer] \in {"enable", "ready"}
        PROVE  PRDATA' = Intended
    <3>1. CASE process[Producer] = "ready"
      <4>1. PRDATA = Intended
        BY <1>1, <2>2, <3>1 DEF IInv, ReadInv, Reads
      <4> QED BY <1>6, <3>1, <4>1
    <3>2. CASE process[Producer] = "enable"
      <4>1. PSEL
        BY <1>10, <3>2
      <4>2. /\ ~op.we
            /\ op.addr = IF at = "read_rw" THEN 0
                         ELSE IF at = "read_gpio" THEN 4 ELSE 12
        BY <2>2, <4>1, Request DEF Reads
      <4>3. PRDATA' = regs[op.addr]
        BY <1>6, <3>2, <4>2
      <4>4. CASE at = "read_rw"
        <5>1. regs[0] = got.written /\ test = "rw"
          BY <4>4, WhichTest DEF IInv, WrittenInv, Written
        <5> QED BY <4>2, <4>3, <4>4, <5>1 DEF Intended
      <4>5. CASE at = "read_gpio"
        <5>1. regs[4] = Gpi /\ test = "read_pmod"
          BY <4>5, WhichTest DEF IInv, LoadedInv
        <5>2. /\ got["pmod_0_gpi_agent"] = bus["pmod_0_gpi_agent"]
              /\ got["pmod_1_gpi_agent"] = bus["pmod_1_gpi_agent"]
          BY <4>5, <5>1, Handles DEF IInv, GotInv, Since
        <5>3. Intended = Gpi
          BY <5>1, <5>2, Handles, Wiring DEF Intended, Gpi, At
        <5> QED BY <4>2, <4>3, <4>5, <5>1, <5>3
      <4>6. CASE at = "read_ctrl"
        <5>1. regs[12] = At("ss_ctrl") /\ test = "ss_ctrl"
          BY <2>2, <4>1, <4>6, WhichTest DEF IInv, LoadedInv
        <5>2. got["ss_ctrl_agent"] = bus["ss_ctrl_agent"]
          BY <4>6, <5>1, Handles DEF IInv, GotInv, Since
        <5>3. Intended = At("ss_ctrl")
          BY <5>1, <5>2, Handles, Wiring DEF Intended, At
        <5> QED BY <4>2, <4>3, <4>6, <5>1, <5>3
      <4> QED BY <2>2, <4>4, <4>5, <4>6 DEF Reads
    <3> QED BY <2>2, <3>1, <3>2
  <2> QED BY <1>1, <1>2, <1>9, <2>1, <2>2 DEF IInv, ReadInv, Reads, Over, Sent
<1>22. IrqEnInv'
  <2>1. bus'["irq_en_agent"] = bus["irq_en_agent"]
    BY <1>8, Wiring DEF At
  <2> QED BY <1>2, <2>1, Handles DEF IInv, IrqEnInv
<1>23. CheckersInv'
  <2>1. Dut!irq <=> IRQ_REG /\ At("irq_en") = 1
    BY DEF Dut!irq
  <2>2. pulse = "off" => ~IRQ_REG
    BY <1>1 DEF IInv, CheckersInv
  <2>3. pulse = "high" => IRQ_REG /\ At("irq_en") = 1
    BY <1>1 DEF IInv, CheckersInv
  <2>4. pulse = "high" => ~IRQ_REG'
    BY <1>7, <2>1, <2>3
  <2>5. ~(pulse = "off" /\ Checkers \notin awake')
    BY ClkLeaves
  <2>6. Checkers \in awake' => pulse = "off" /\ ~seen'.irq
    BY <1>2, <2>1, <2>2, ClkLeaves
  <2> QED BY <1>2, <1>8, <2>4, <2>5, <2>6, ClkLeaves DEF IInv, CheckersInv
<1> QED BY <1>12, <1>13, <1>14, <1>15, <1>16, <1>18, <1>19, <1>20, <1>21, <1>22, <1>23,
           ClkLeaves DEF IInv

-----------------------------------------------------------------------------
(* The invariant holds before the reset. *)
LEMMA InitInv == Init => IInv
<1> SUFFICES ASSUME Init PROVE IInv
  OBVIOUS
<1> USE DEF Init, CocotbInit, SequencerInit, DriversInit, GbusInit
<1>1. /\ regs = [a \in Addr |-> 0] /\ PREADY = FALSE /\ PSLVERR = FALSE /\ PRDATA = 0
  BY DEF Dut!SubordinateInit, Dut!SubordinateReset
<1>2. at = "power_up" /\ at \in DOMAIN BaseTest
  BY StepNames DEF BaseSteps
<1>3. /\ \A c \in Clients : stage[c] = "idle" /\ item[c] = None
      /\ process[Producer] = "reset"
      /\ \A g \in Buses : bus[g] = 0 /\ driving[g] = "release"
  BY Names
<1>4. TypeOK
  <2>1. Dut!SubordinateTypeOK
    BY <1>1, BusTypesAssumption DEF Dut!SubordinateTypeOK
  <2>2. \A g \in Buses : Fits(bus[g], BusWidth[AgentCfg[g]])
    BY <1>3, Names, Spans, Widths
  <2>3. op \in [we : BOOLEAN, addr : Addr \cup {X}, wdata : Data \cup {X}]
    BY DEF NoOp
  <2>4. COUNT_REG \in 0 .. Threshold + 15
    BY Limits
  <2> QED BY <1>2, <1>3, <2>1, <2>2, <2>3, <2>4, Names DEF TypeOK, Stages
<1>5. ProgramInv
  BY <1>2 DEF ProgramInv, Waits, Unchecked
<1>6. HandshakeInv
  BY <1>3, Names DEF HandshakeInv
<1>7. StoppedInv
  BY <1>3 DEF StoppedInv
<1>8. ItemInv /\ ResponseInv
  BY <1>3, Names DEF ItemInv, ResponseInv
<1>9. ApbInv
  BY <1>1, <1>3 DEF ApbInv
<1>10. WordInv
  BY <1>1, Limits DEF WordInv
<1>11. WrittenInv /\ GotInv /\ SampleInv /\ ReadInv /\ IrqEnInv
  BY <1>2 DEF WrittenInv, Written, GotInv, Since, SampleInv, ReadInv, IrqEnInv, Performed
<1>12. LoadedInv
  BY <1>2 DEF LoadedInv, Dut!Pmods
<1>13. CheckersInv
  BY <1>3, Names, Wiring DEF CheckersInv, At
<1> QED BY <1>4, <1>5, <1>6, <1>7, <1>8, <1>9, <1>10, <1>11, <1>12, <1>13 DEF IInv

(* Every step keeps the invariant. *)
LEMMA StepInv == IInv /\ [Next]_vars => IInv'
<1> SUFFICES ASSUME IInv, [Next]_vars PROVE IInv'
  OBVIOUS
<1>1. CASE Clk
  <2>1. CASE rst = "1"
    BY <1>1, <2>1, EdgeRunning
  <2>2. CASE rst # "1"
    BY <1>1, <2>2, EdgeInReset
  <2> QED BY <2>1, <2>2
<1>2. CASE AssertReset
  BY <1>2, AssertResetInv
<1>3. CASE ReleaseReset
  BY <1>3, ReleaseResetInv
<1>4. CASE ClearIrqEn
  BY <1>4, ClearIrqEnInv
<1>5. CASE Wait
  BY <1>5, WaitInv
<1>6. CASE ForkStep
  BY <1>6, ForkStepInv
<1>7. CASE Check
  BY <1>7, CheckInv
<1>8. CASE DropObjection
  BY <1>8, DropObjectionInv
<1>9. ASSUME NEW c \in Clients, StartSeq(c) PROVE IInv'
  BY <1>9, StartSeqInv
<1>10. ASSUME NEW c \in Buses, EndPinSeq(c) PROVE IInv'
  BY <1>10, EndPinSeqInv
<1>11. CASE EndRegSeq
  BY <1>11, EndRegSeqInv
<1>12. CASE ProducerRuns
  BY <1>12, StartProcessInv, GetItemInv, DriveSetupInv, DriveEnableInv, CompleteInv
     DEF ProducerRuns, OthersStay
<1>13. ASSUME NEW g \in Buses, GbusRuns(g) PROVE IInv'
  BY <1>13, StartGbusInv, GetGbusItemInv, HandleRequestInv DEF GbusRuns, PinsOnly
<1>14. CASE StartChecking
  BY <1>14, StartCheckingInv
<1>15. CASE CheckAssertions
  BY <1>15, CheckAssertionsInv
<1>16. CASE UNCHANGED vars
  <2> USE <1>16 DEF vars, cocotbVars, sequencerVars, requestVars, gbusVars, dutVars,
                responseVars, testVars, checkVars
  <2>1. Dut!SubordinateTypeOK'
    BY DEF IInv, TypeOK, Dut!SubordinateTypeOK
  <2>2. TypeOK' /\ ProgramInv' /\ HandshakeInv' /\ StoppedInv'
    BY <2>1, Stays DEF IInv, TypeOK, ProgramInv, Unchecked, HandshakeInv, StoppedInv
  <2>3. ItemInv' /\ ResponseInv' /\ ApbInv' /\ WordInv'
    BY DEF IInv, ItemInv, ResponseInv, ApbInv, WordInv, Sent
  <2>4. WrittenInv' /\ GotInv' /\ SampleInv' /\ LoadedInv'
    BY DEF IInv, WrittenInv, Written, Performed, GotInv, Since, SampleInv, LoadedInv,
           Gpi,
           Gpo, At
  <2>5. ReadInv' /\ IrqEnInv' /\ CheckersInv'
    BY DEF IInv, ReadInv, Performed, Over, Intended, Sent, IrqEnInv, CheckersInv, At
  <2> QED BY <2>2, <2>3, <2>4, <2>5 DEF IInv
<1> QED BY <1>1, <1>2, <1>3, <1>4, <1>5, <1>6, <1>7, <1>8, <1>9, <1>10, <1>11, <1>12,
           <1>13, <1>14, <1>15, <1>16 DEF Next, Tasks

(* The strengthening that the following theorems rest on is an invariant. *)
THEOREM Invariance == Spec => []IInv
BY InitInv, StepInv, PTL DEF Spec

(* The tasks, the signals and the design keep their types, no sequence runs *)
(* but those of the step that the test is at, and no bus is driven with a   *)
(* value that is too wide for it.                                           *)
THEOREM TypeCorrect == Spec => []TypeOK
<1>1. IInv => TypeOK
  BY DEF IInv
<1> QED BY <1>1, Invariance, PTL

(* Every test that ends has passed, its asserts as well as the assertion    *)
(* checkers, however long the reset lasts and whatever is written and       *)
(* driven, for any threshold of the counter and any number of rounds of the *)
(* random test.                                                             *)
THEOREM EveryTestPasses == Spec => []TestsPass
<1>1. IInv => TestsPass
  <2> SUFFICES ASSUME IInv, RunPhaseOver PROVE verdict = "passed" /\ passed
    BY DEF TestsPass
  <2>1. passed
    BY DEF IInv, CheckersInv
  <2>2. verdict = "failed" => FALSE
    BY DEF IInv, ProgramInv
  <2>3. objections = 0
    BY <2>2 DEF RunPhaseOver
  <2>4. at = "drop"
    BY <2>3 DEF IInv, ProgramInv
  <2>5. at \notin Unchecked
    BY <2>4, StepNames DEF Unchecked, BaseSteps
  <2> QED BY <2>1, <2>5 DEF IInv, ProgramInv
<1> QED BY <1>1, Invariance, PTL

-----------------------------------------------------------------------------
(* Why a test comes to its end: every step of the bench brings it closer, so *)
(* that only finitely many are left, and until then there is one to take.   *)
(* A step counts what lies ahead of it, and the first count that changes    *)
(* falls.  First, how many steps of the test have not begun, a round of the *)
(* random test being five of them.                                          *)
Place ==
  [power_up |-> 22, assert_reset |-> 21, hold_reset |-> 20, release_reset |-> 19,
   clear_irq_en |-> 18, settle |-> 17, drop_base |-> 16,
   write_rw |-> 15, drive_gpi |-> 15, write_gpio |-> 15, enable_irq |-> 15,
   read_rw |-> 14, wait_gpi |-> 14, wait_gpo |-> 14, wait_irq |-> 14,
   read_gpio |-> 13, sample_gpo |-> 13,
   drive_ctrl |-> 10, read_ctrl |-> 9, wait_ctrl |-> 8, check |-> 7,
   drive_round |-> 6, dynamic_1 |-> 5, dynamic_2 |-> 4, dynamic_3 |-> 3,
   wait |-> 2, drop |-> 1]

\* The random test checks before its rounds.
StepsAhead ==
  5 * (Rounds - round) + IF test = "random" /\ at = "check" THEN 12 ELSE Place[at]

\* Then, beside the clock edges that the test waits for, what each sequence
\* and each driver has still to do, the edges that resume it included.
Resumed(p, ahead) == IF p \in awake THEN ahead - 1 ELSE ahead

ProducerAhead ==
  IF process[Producer] = "align" THEN Resumed(Producer, 7)
  ELSE IF process[Producer] = "enable" THEN Resumed(Producer, 5)
  ELSE IF process[Producer] = "ready" THEN Resumed(Producer, 3)
  ELSE IF process[Producer] = "reset" THEN Resumed(Producer, 2) ELSE 0

GbusAhead(g) ==
  IF driving[g] = "align" THEN Resumed(g, 2)
  ELSE IF driving[g] = "release" THEN 1 ELSE 0

SequenceAhead(c) ==
  IF c \in starting THEN 10
  ELSE IF stage[c] = "queued" THEN 9
  ELSE IF stage[c] = "idle" THEN 0 ELSE 1

Ahead(c) ==
  SequenceAhead(c) + IF c = Producer THEN ProducerAhead ELSE GbusAhead(c)

\* Last the assertion checkers, who look once at each edge.
CheckersAhead == IF Checkers \in awake \cup reading THEN 1 ELSE 0

NearerTheEnd ==
  \/ StepsAhead' < StepsAhead
  \/ /\ StepsAhead' = StepsAhead /\ left' <= left
     /\ \A c \in Clients : Ahead(c)' <= Ahead(c)
     /\ \/ left' < left
        \/ \E c \in Clients : Ahead(c)' < Ahead(c)
        \/ CheckersAhead' < CheckersAhead

\* The counts do not fall for ever.
AheadInv ==
  /\ StepsAhead \in Nat /\ left \in Nat /\ CheckersAhead \in Nat
  /\ \A c \in Clients : Ahead(c) \in Nat

\* Nobody is resumed who has nothing to do, nor is a driver forgotten that
\* awaits the end of the reset.
EndInv ==
  /\ round \in 0 .. Rounds
  /\ Producer \in awake => process[Producer] # "get"
  /\ \A g \in Buses :
       /\ g \in awake => driving[g] \in {"release", "align"}
       /\ rst = "1" /\ driving[g] = "release" => g \in awake

(* Each step by its place. *)
LEMMA Places ==
  /\ Place["power_up"] = 22 /\ Place["assert_reset"] = 21 /\ Place["hold_reset"] = 20
  /\ Place["release_reset"] = 19 /\ Place["clear_irq_en"] = 18
  /\ Place["settle"] = 17 /\ Place["drop_base"] = 16
  /\ \A l \in {"write_rw", "drive_gpi", "write_gpio", "enable_irq"} : Place[l] = 15
  /\ \A l \in {"read_rw", "wait_gpi", "wait_gpo", "wait_irq"} : Place[l] = 14
  /\ \A l \in {"read_gpio", "sample_gpo"} : Place[l] = 13
  /\ Place["drive_ctrl"] = 10 /\ Place["read_ctrl"] = 9 /\ Place["wait_ctrl"] = 8
  /\ Place["check"] = 7 /\ Place["drive_round"] = 6
  /\ Place["dynamic_1"] = 5 /\ Place["dynamic_2"] = 4 /\ Place["dynamic_3"] = 3
  /\ Place["wait"] = 2 /\ Place["drop"] = 1
BY DEF Place

(* A test that goes on has a step less ahead of it. *)
LEMMA StepBegun ==
  ASSUME IInv, EndInv, TestRuns, at' = Following, test' = test,
         round' = IF at' = "drive_round" THEN round + 1 ELSE round
  PROVE  round' \in 0 .. Rounds /\ NearerTheEnd
<1>1. /\ test \in DOMAIN Tests /\ at \in DOMAIN BaseTest \cup DOMAIN Tests[test]
      /\ round \in Nat /\ Rounds \in Nat /\ round <= Rounds
  BY NobodyElse, StudentBenchAssumption DEF IInv, EndInv, TypeOK
<1>2. CASE at \in BaseSteps
  <2>1. at' = BaseTest[at]
    BY <1>2, StepNames DEF Following
  <2>2. /\ at' \in BaseSteps \cup {"drop_base"}
        /\ Place[at'] < Place[at] /\ Place[at] \in Nat /\ Place[at'] \in Nat
    BY <1>2, <2>1, Places DEF BaseTest, BaseSteps
  <2>3. round' = round /\ at \notin {"check"} /\ at' \notin {"check"}
    BY <1>2, <2>2 DEF BaseSteps
  <2> QED BY <1>1, <2>2, <2>3 DEF NearerTheEnd, StepsAhead
<1>3. CASE at \notin BaseSteps
  <2>1. at' = Tests[test][at] /\ at \in DOMAIN Tests[test]
    BY <1>1, <1>3, StepNames DEF Following
  <2>2. CASE test # "random"
    <3>1. /\ at' # "drive_round"
          /\ Place[at'] < Place[at] /\ Place[at] \in Nat /\ Place[at'] \in Nat
      <4>1. CASE test = "rw"
        BY <2>1, <4>1, StepNames, Places DEF Tests, RwTest
      <4>2. CASE test = "read_pmod"
        BY <2>1, <4>2, StepNames, Places DEF Tests, ReadPmodTest
      <4>3. CASE test = "write_pmod"
        BY <2>1, <4>3, StepNames, Places DEF Tests, WritePmodTest
      <4>4. CASE test = "ss_ctrl"
        BY <2>1, <4>4, StepNames, Places DEF Tests, SsCtrlTest
      <4>5. CASE test = "irq"
        BY <2>1, <4>5, StepNames, Places DEF Tests, IrqTest
      <4> QED BY <1>1, <2>2, <4>1, <4>2, <4>3, <4>4, <4>5, StepNames
    <3> QED BY <1>1, <2>2, <3>1 DEF NearerTheEnd, StepsAhead
  <2>3. CASE test = "random"
    <3>1. at' = RandomTest[at]
      BY <2>1, <2>3 DEF Tests
    <3>2. CASE at = "wait"
      <4>1. at' = IF round < Rounds THEN "drive_round" ELSE "drop"
        BY <3>1, <3>2 DEF RandomTest
      <4> QED BY <1>1, <3>2, <4>1, Places DEF NearerTheEnd, StepsAhead
    <3>3. CASE at \in DOMAIN RandomTest \ {"wait"}
      <4> DEFINE place(l) == IF l = "check" THEN 12 ELSE Place[l]
      <4>1. /\ at' # "drive_round"
            /\ place(at') < place(at) /\ place(at) \in Nat /\ place(at') \in Nat
        BY <3>1, <3>3, StepNames, Places DEF RandomTest
      <4> QED BY <1>1, <2>3, <4>1 DEF NearerTheEnd, StepsAhead
    <3> QED BY <2>1, <2>3, <3>2, <3>3 DEF Tests
  <2> QED BY <2>2, <2>3
<1> QED BY <1>2, <1>3

(* While the test goes on no agent awaits the end of the reset after it. *)
LEMMA TestNearer ==
  ASSUME IInv, EndInv,
         AssertReset \/ ReleaseReset \/ ClearIrqEn \/ Wait \/ ForkStep \/ Check
           \/ DropObjection
  PROVE  EndInv' /\ NearerTheEnd
<1> USE DEF benchVars, testData, cocotbVars, gbusVars, checkVars
<1>1. /\ TestRuns /\ at' = Following /\ test' = test
      /\ round' = (IF at' = "drive_round" THEN round + 1 ELSE round)
      /\ process' = process /\ driving' = driving
  BY DEF AssertReset, ReleaseReset, ClearIrqEn, Wait, ForkStep, Check, DropObjection,
         Begin, Waits
<1>2. round' \in 0 .. Rounds /\ NearerTheEnd
  BY <1>1, StepBegun
<1>3. awake = {} /\ \A g \in Buses : rst = "1" => driving[g] # "release"
  BY <1>1, NobodyElse DEF EndInv
<1>4. CASE AssertReset
  BY <1>1, <1>2, <1>3, <1>4 DEF AssertReset, EndInv
<1>5. CASE ReleaseReset
  <2>1. awake' = {g \in Buses : driving[g] = "release"} /\ Producer \notin awake'
    BY <1>5, Names DEF ReleaseReset, ReleasesGbus
  <2> QED BY <1>1, <1>2, <2>1 DEF EndInv
<1>6. CASE ClearIrqEn \/ Wait \/ ForkStep \/ Check \/ DropObjection
  <2>1. awake' = awake /\ rst' = rst
    BY <1>6 DEF ClearIrqEn, Wait, ForkStep, Check, DropObjection
  <2> QED BY <1>1, <1>2, <1>3, <2>1 DEF EndInv
<1> QED BY <1>2, <1>4, <1>5, <1>6

-----------------------------------------------------------------------------
(* What one sequence or driver has ahead of it is changed by itself only. *)
LEMMA OneNearer ==
  ASSUME IInv, NEW c \in Clients,
         awake' \in {awake, awake \ {c}}, starting' \in {starting, starting \ {c}},
         c # Producer => process'[Producer] = process[Producer],
         \A d \in Clients \ {c} : stage'[d] = stage[d],
         \A g \in Buses \ {c} : driving'[g] = driving[g],
         UNCHANGED <<test, at, round, left>>,
         Ahead(c)' < Ahead(c)
  PROVE  NearerTheEnd
<1>1. StepsAhead' = StepsAhead /\ left' <= left
  BY DEF StepsAhead, IInv, ProgramInv
<1>2. ASSUME NEW d \in Clients \ {c} PROVE Ahead(d)' = Ahead(d)
  <2>1. (d \in awake' <=> d \in awake) /\ (d \in starting' <=> d \in starting)
    OBVIOUS
  <2>2. SequenceAhead(d)' = SequenceAhead(d)
    BY <2>1 DEF SequenceAhead
  <2>3. CASE d = Producer
    <3>1. ProducerAhead' = ProducerAhead
      BY <2>1, <2>3 DEF ProducerAhead, Resumed
    <3> QED BY <2>2, <2>3, <3>1 DEF Ahead
  <2>4. CASE d # Producer
    <3>1. GbusAhead(d)' = GbusAhead(d)
      BY <2>1, <2>4, Names DEF GbusAhead, Resumed
    <3> QED BY <2>2, <2>4, <3>1 DEF Ahead
  <2> QED BY <2>3, <2>4
<1>3. \A d \in Clients : Ahead(d) \in Int
  BY DEF Ahead, SequenceAhead, ProducerAhead, GbusAhead, Resumed
<1>4. \A d \in Clients : Ahead(d)' <= Ahead(d)
  <2>1. \A d \in Clients : d = c \/ Ahead(d)' = Ahead(d)
    BY <1>2
  <2>2. Ahead(c)' \in Int
    BY DEF Ahead, SequenceAhead, ProducerAhead, GbusAhead, Resumed
  <2> QED BY <1>3, <2>1, <2>2
<1> QED BY <1>1, <1>4 DEF NearerTheEnd

(* The counts of sequences and drivers are natural numbers. *)
LEMMA AheadNatural == \A c \in Clients : Ahead(c) \in Nat
BY DEF Ahead, SequenceAhead, ProducerAhead, GbusAhead, Resumed

(* A sequence begins or ends. *)
LEMMA SequenceNearer ==
  ASSUME IInv, EndInv,
         \/ \E c \in Clients : StartSeq(c)
         \/ \E c \in Buses : EndPinSeq(c)
         \/ EndRegSeq
  PROVE  EndInv' /\ NearerTheEnd
<1> USE DEF cocotbVars, gbusVars
<1>1. UNCHANGED <<rst, awake, process, driving, test, at, round, left>>
  BY DEF StartSeq, EndPinSeq, EndRegSeq
<1>2. EndInv'
  BY <1>1 DEF EndInv
<1>3. DOMAIN stage = Clients /\ Buses \subseteq Clients /\ Producer \in Clients
  BY Names DEF IInv, TypeOK
<1>4. ASSUME NEW c \in Clients,
             \/ stage' = [stage EXCEPT ![c] = "idle"] /\ stage[c] = "finished"
                /\ starting' = starting
             \/ stage' = [stage EXCEPT ![c] = "queued"] /\ stage[c] = "idle"
                /\ c \in starting /\ starting' = starting \ {c}
      PROVE  NearerTheEnd
  <2>1. stage[c] = "finished" => c \notin starting
    BY Busy
  <2>2. \A d \in Clients \ {c} : stage'[d] = stage[d]
    BY <1>3, <1>4
  <2>3. SequenceAhead(c)' < SequenceAhead(c) /\ SequenceAhead(c) \in Int
    BY <1>3, <1>4, <2>1 DEF SequenceAhead
  <2>4. ProducerAhead' = ProducerAhead /\ GbusAhead(c)' = GbusAhead(c)
    BY <1>1 DEF ProducerAhead, GbusAhead, Resumed
  <2>5. ProducerAhead \in Int /\ GbusAhead(c) \in Int
    BY DEF ProducerAhead, GbusAhead, Resumed
  <2>6. SequenceAhead(c)' \in Int
    BY DEF SequenceAhead
  <2>7. Ahead(c)' < Ahead(c)
    BY <2>3, <2>4, <2>5, <2>6 DEF Ahead
  <2> QED BY <1>1, <1>4, <2>2, <2>7, OneNearer
<1>5. ASSUME NEW c \in Clients, StartSeq(c) PROVE NearerTheEnd
  BY <1>4, <1>5 DEF StartSeq, StartItem
<1>6. ASSUME NEW c \in Buses, EndPinSeq(c) PROVE NearerTheEnd
  BY <1>3, <1>4, <1>6 DEF EndPinSeq, EndGbusSeq, Ended
<1>7. ASSUME EndRegSeq PROVE NearerTheEnd
  BY <1>3, <1>4, <1>7 DEF EndRegSeq, Ended
<1> QED BY <1>2, <1>5, <1>6, <1>7

(* The producer goes on. *)
LEMMA ProducerNearer == ASSUME IInv, EndInv, ProducerRuns PROVE EndInv' /\ NearerTheEnd
<1> DEFINE p == Producer
<1> USE DEF cocotbVars, gbusVars, testVars, sequencerVars
<1>1. /\ UNCHANGED <<rst, driving, test, at, round, left, starting>>
      /\ DOMAIN stage = Clients /\ p \in Clients /\ DOMAIN process = {p} /\ p \notin Buses
      /\ stage[p] # "idle" => p \notin starting
  BY Names, Busy DEF ProducerRuns, StartProcess, GetItem, DriveSetup, DriveEnable,
                     Complete, IInv, TypeOK
<1>2. /\ current_item[p] = (IF stage[p] = "sent" THEN p ELSE None)
      /\ item_queue[p] = (IF stage[p] = "queued" THEN <<p>> ELSE <<>>)
      /\ process[p] \in {"align", "enable", "ready"} <=> stage[p] = "sent"
  BY Names DEF IInv, HandshakeInv
<1>3. CASE StartProcess(p)
  <2>1. /\ p \in awake /\ awake' = awake \ {p} /\ stage' = stage
        /\ process[p] = "reset" /\ process'[p] = "get"
    BY <1>1, <1>3 DEF StartProcess, Resume
  <2>2. EndInv'
    BY <1>1, <2>1 DEF EndInv
  <2>3. Ahead(p)' < Ahead(p)
    BY <1>1, <2>1 DEF Ahead, SequenceAhead, ProducerAhead, Resumed
  <2> QED BY <1>1, <2>1, <2>2, <2>3, OneNearer
<1>4. CASE GetItem(p)
  <2>1. /\ awake = {} /\ awake' = {} /\ process[p] = "get" /\ process'[p] = "align"
        /\ item_queue[p] # <<>>
        /\ stage' = [stage EXCEPT ![Head(item_queue[p])] = "sent"]
    BY <1>1, <1>4 DEF GetItem, GetNextItem, EdgeTasksDone
  <2>2. stage[p] = "queued" /\ p \notin starting
    BY <1>1, <1>2, <2>1
  <2>3. stage' = [stage EXCEPT ![p] = "sent"]
    BY <1>2, <2>1, <2>2
  <2>4. EndInv'
    BY <1>1, <2>1 DEF EndInv
  <2>5. SequenceAhead(p) = 9 /\ SequenceAhead(p)' = 1
    BY <1>1, <2>2, <2>3 DEF SequenceAhead
  <2>6. Ahead(p)' < Ahead(p)
    BY <1>1, <2>1, <2>5 DEF Ahead, ProducerAhead, Resumed
  <2>7. \A d \in Clients \ {p} : stage'[d] = stage[d]
    BY <1>1, <2>3
  <2> QED BY <1>1, <2>1, <2>4, <2>6, <2>7, OneNearer
<1>5. CASE DriveSetup \/ DriveEnable
  <2>1. /\ p \in awake /\ awake' = awake \ {p} /\ stage' = stage
        /\ \/ process[p] = "align" /\ process'[p] = "enable"
           \/ process[p] = "enable" /\ process'[p] = "ready"
    BY <1>1, <1>5 DEF DriveSetup, DriveEnable, Resume
  <2>2. EndInv'
    BY <1>1, <2>1 DEF EndInv
  <2>3. Ahead(p)' < Ahead(p)
    BY <1>1, <2>1 DEF Ahead, SequenceAhead, ProducerAhead, Resumed
  <2> QED BY <1>1, <2>1, <2>2, <2>3, OneNearer
<1>6. CASE Complete
  <2>1. /\ p \in awake /\ awake' = awake \ {p}
        /\ process[p] = "ready" /\ process'[p] = "get"
    BY <1>1, <1>6 DEF Complete, Resume
  <2>2. stage[p] = "sent" /\ stage' = [stage EXCEPT ![p] = "finished"]
    BY <1>1, <1>2, <1>6, <2>1 DEF Complete, ItemDone
  <2>3. EndInv'
    BY <1>1, <2>1 DEF EndInv
  <2>4. Ahead(p)' < Ahead(p)
    BY <1>1, <2>1, <2>2 DEF Ahead, SequenceAhead, ProducerAhead, Resumed
  <2>5. \A d \in Clients \ {p} : stage'[d] = stage[d]
    BY <1>1, <2>2
  <2> QED BY <1>1, <2>1, <2>3, <2>4, <2>5, OneNearer
<1> QED BY <1>3, <1>4, <1>5, <1>6 DEF ProducerRuns

(* A driver of pins goes on. *)
LEMMA GbusNearer ==
  ASSUME IInv, EndInv, NEW g \in Buses, GbusRuns(g) PROVE EndInv' /\ NearerTheEnd
<1> USE DEF cocotbVars, testVars, sequencerVars
<1>1. /\ UNCHANGED <<rst, process, test, at, round, left, starting>>
      /\ DOMAIN stage = Clients /\ g \in Clients /\ DOMAIN driving = Buses
      /\ g # Producer /\ Buses \subseteq Clients
      /\ stage[g] # "idle" => g \notin starting
  BY Names, Busy DEF GbusRuns, StartGbus, GetGbusItem, HandleRequest, IInv, TypeOK
<1>2. /\ current_item[g] = (IF stage[g] = "sent" THEN g ELSE None)
      /\ item_queue[g] = (IF stage[g] = "queued" THEN <<g>> ELSE <<>>)
      /\ driving[g] = "align" <=> stage[g] = "sent"
  BY Names DEF IInv, HandshakeInv
<1>3. CASE StartGbus(g)
  <2>1. /\ g \in awake /\ awake' = awake \ {g} /\ stage' = stage
        /\ driving[g] = "release" /\ driving' = [driving EXCEPT ![g] = "item"]
    BY <1>1, <1>2, <1>3 DEF StartGbus, Resume, MayGet
  <2>2. EndInv'
    BY <1>1, <2>1 DEF EndInv
  <2>3. Ahead(g)' < Ahead(g)
    BY <1>1, <2>1 DEF Ahead, SequenceAhead, GbusAhead, Resumed
  <2> QED BY <1>1, <2>1, <2>2, <2>3, OneNearer
<1>4. CASE GetGbusItem(g)
  <2>1. /\ awake = {} /\ awake' = {} /\ driving[g] = "item"
        /\ driving' = [driving EXCEPT ![g] = "align"]
        /\ item_queue[g] # <<>>
        /\ stage' = [stage EXCEPT ![Head(item_queue[g])] = "sent"]
    BY <1>1, <1>4 DEF GetGbusItem, GetNextItem, EdgeTasksDone
  <2>2. stage[g] = "queued" /\ g \notin starting
    BY <1>1, <1>2, <2>1
  <2>3. stage' = [stage EXCEPT ![g] = "sent"]
    BY <1>2, <2>1, <2>2
  <2>4. EndInv'
    BY <1>1, <2>1 DEF EndInv
  <2>5. SequenceAhead(g) = 9 /\ SequenceAhead(g)' = 1
    BY <1>1, <2>2, <2>3 DEF SequenceAhead
  <2>6. Ahead(g)' < Ahead(g)
    BY <1>1, <2>1, <2>5 DEF Ahead, GbusAhead, Resumed
  <2>7. \A d \in Clients \ {g} : stage'[d] = stage[d]
    BY <1>1, <2>3
  <2> QED BY <1>1, <2>1, <2>4, <2>6, <2>7, OneNearer
<1>5. CASE HandleRequest(g)
  <2>1. /\ g \in awake /\ awake' = awake \ {g} /\ driving[g] = "align"
        /\ driving' = [driving EXCEPT ![g] = "item"]
    BY <1>5 DEF HandleRequest, Resume
  <2>2. stage[g] = "sent" /\ stage' = [stage EXCEPT ![g] = "finished"]
    BY <1>1, <1>2, <1>5, <2>1 DEF HandleRequest, ItemDone
  <2>3. EndInv'
    BY <1>1, <2>1 DEF EndInv
  <2>4. Ahead(g)' < Ahead(g)
    BY <1>1, <2>1, <2>2 DEF Ahead, SequenceAhead, GbusAhead, Resumed
  <2>5. \A d \in Clients \ {g} : stage'[d] = stage[d]
    BY <1>1, <2>2
  <2> QED BY <1>1, <2>1, <2>3, <2>4, <2>5, OneNearer
<1> QED BY <1>3, <1>4, <1>5 DEF GbusRuns

(* The checkers look once and await the next edge. *)
LEMMA CheckersNearer ==
  ASSUME IInv, EndInv, StartChecking \/ CheckAssertions PROVE EndInv' /\ NearerTheEnd
<1> USE DEF sequencerVars, gbusVars, testVars
<1>1. UNCHANGED <<rst, stage, process, driving, test, at, round, left, starting>>
  BY DEF StartChecking, CheckAssertions
<1>2. CheckersAhead = 1 /\ CheckersAhead' = 0 /\ awake' = awake \ {Checkers}
  <2>1. CASE StartChecking
    <3>1. Checkers \in awake /\ awake' = awake \ {Checkers} /\ reading' = reading
      BY <2>1 DEF StartChecking, Resume
    <3>2. Checkers \notin reading
      BY <3>1 DEF IInv, CheckersInv
    <3> QED BY <3>1, <3>2 DEF CheckersAhead
  <2>2. CASE CheckAssertions
    <3>1. /\ Checkers \in reading /\ reading' = reading \ {Checkers}
          /\ awake = {} /\ awake' = {}
      BY <2>2 DEF CheckAssertions, Settled, EdgeTasksDone
    <3> QED BY <3>1 DEF CheckersAhead
  <2> QED BY <2>1, <2>2
<1>3. \A c \in Clients : c \in awake' <=> c \in awake
  BY <1>2, Names DEF Checkers
<1>4. EndInv'
  BY <1>1, <1>3, Names DEF EndInv
<1>5. \A c \in Clients : Ahead(c)' = Ahead(c)
  BY <1>1, <1>3, Names
     DEF Ahead, SequenceAhead, ProducerAhead, GbusAhead, Resumed
<1>6. StepsAhead' = StepsAhead /\ left' <= left
  BY <1>1 DEF StepsAhead, IInv, ProgramInv
<1>7. \A c \in Clients : Ahead(c)' <= Ahead(c)
  BY <1>5, AheadNatural
<1> QED BY <1>2, <1>4, <1>6, <1>7 DEF NearerTheEnd

(* No clock edge goes by for nothing: the test waits for it, or a driver   *)
(* that a sequence waits for does.                                         *)
LEMMA ClkNearer == ASSUME IInv, EndInv, Clk PROVE EndInv' /\ NearerTheEnd
<1> USE DEF sequencerVars
<1>1. /\ Settled /\ awake = {} /\ starting = {} /\ ~RunPhaseOver
      /\ \A c \in Clients : stage[c] # "finished"
  BY AtEdge DEF Clk
<1>2. /\ UNCHANGED <<rst, stage, process, driving, test, at, round, starting, running>>
      /\ left \in Nat /\ left' = IF left = 0 THEN 0 ELSE left - 1
      /\ awake' = {d \in ApbPorts : WakesProducer} \cup WakesGbus
                    \cup {k \in {Checkers} : pulse = "off" /\ rst = "1"}
  BY DEF Clk, IInv, ProgramInv
<1>3. /\ Producer \in awake' <=> \/ process[Producer] \in {"align", "enable", "ready"}
                                 \/ process[Producer] = "reset" /\ rst = "1"
      /\ \A g \in Buses : g \in awake' <=> driving[g] = "align"
  <2>1. \A g \in Buses : g \in awake' <=> driving[g] = "align"
    BY <1>2, Names DEF WakesGbus, Checkers
  <2> QED BY <2>1, ClkLeaves
<1>4. EndInv'
  BY <1>1, <1>2, <1>3 DEF EndInv
<1>5. \A c \in Clients : SequenceAhead(c)' = SequenceAhead(c)
  BY <1>2 DEF SequenceAhead
<1>6. /\ ProducerAhead \in Nat
      /\ ProducerAhead' = ProducerAhead - IF Producer \in awake' THEN 1 ELSE 0
  BY <1>1, <1>2, <1>3 DEF ProducerAhead, Resumed
<1>7. \A g \in Buses : /\ GbusAhead(g) \in Nat
                       /\ GbusAhead(g)' = GbusAhead(g) - IF g \in awake' THEN 1 ELSE 0
  BY <1>1, <1>2, <1>3 DEF GbusAhead, Resumed
<1>8. \A c \in Clients : Ahead(c)' = Ahead(c) - IF c \in awake' THEN 1 ELSE 0
  <2>1. ASSUME NEW c \in Clients, c = Producer
        PROVE  Ahead(c)' = Ahead(c) - IF c \in awake' THEN 1 ELSE 0
    BY <1>5, <1>6, <2>1 DEF Ahead, SequenceAhead
  <2>2. ASSUME NEW c \in Buses
        PROVE  Ahead(c)' = Ahead(c) - IF c \in awake' THEN 1 ELSE 0
    BY <1>5, <1>7, <2>2, Names DEF Ahead, SequenceAhead
  <2> QED BY <2>1, <2>2, Names
<1>9. /\ StepsAhead' = StepsAhead /\ left' <= left
      /\ \A c \in Clients : Ahead(c)' <= Ahead(c)
  BY <1>2, <1>8, AheadNatural DEF StepsAhead
<1>10. CASE left # 0
  <2>1. left' < left
    BY <1>2, <1>10
  <2> QED BY <1>4, <1>9, <2>1 DEF NearerTheEnd
<1>11. CASE left = 0
  <2>1. PICK c \in running : TRUE
    BY <1>1, <1>11 DEF Settled, TestRuns
  <2>2. c \in Clients /\ stage[c] \in {"queued", "sent"} /\ rst = "1"
    <3>1. c \in Clients
      BY <2>1, ForkSteps, Names DEF IInv, TypeOK, Drives
    <3>2. at \notin BaseSteps
      BY <2>1, <3>1, Belongs
    <3>3. rst = "1"
      BY <3>2 DEF IInv, ProgramInv, BaseSteps
    <3>4. stage[c] # "idle" /\ stage[c] \in Stages
      BY <2>1, <3>1 DEF IInv, HandshakeInv, TypeOK
    <3> QED BY <1>1, <3>1, <3>3, <3>4 DEF Stages
  <2>3. c \in awake'
    <3>1. CASE stage[c] = "sent"
      BY <1>3, <2>2, <3>1, Names DEF IInv, HandshakeInv
    <3>2. CASE stage[c] = "queued"
      <4>1. item_queue[c] # <<>>
        BY <2>2, <3>2, Names DEF IInv, HandshakeInv
      <4>2. c = Producer => process[c] = "reset"
        BY <1>1, <3>2, <4>1, Names DEF Settled, IInv, HandshakeInv, TypeOK
      <4>3. c \in Buses => driving[c] = "release"
        BY <1>1, <3>2, <4>1, Names DEF Settled, IInv, HandshakeInv, TypeOK
      <4> QED BY <1>1, <1>3, <2>2, <4>2, <4>3, Names DEF EndInv
    <3> QED BY <2>2, <3>1, <3>2
  <2>4. Ahead(c)' < Ahead(c)
    BY <1>8, <2>2, <2>3, AheadNatural
  <2> QED BY <1>4, <1>9, <2>2, <2>4 DEF NearerTheEnd
<1> QED BY <1>4, <1>10, <1>11

(* Every step of the bench. *)
LEMMA StepNearer == ASSUME IInv, EndInv, Next PROVE EndInv' /\ NearerTheEnd
<1>1. CASE AssertReset \/ ReleaseReset \/ ClearIrqEn \/ Wait \/ ForkStep \/ Check
             \/ DropObjection
  BY <1>1, TestNearer
<1>2. CASE \/ \E c \in Clients : StartSeq(c)
           \/ \E c \in Buses : EndPinSeq(c)
           \/ EndRegSeq
  BY <1>2, SequenceNearer
<1>3. CASE ProducerRuns
  BY <1>3, ProducerNearer
<1>4. ASSUME NEW g \in Buses, GbusRuns(g) PROVE EndInv' /\ NearerTheEnd
  BY <1>4, GbusNearer
<1>5. CASE StartChecking \/ CheckAssertions
  BY <1>5, CheckersNearer
<1>6. CASE Clk
  BY <1>6, ClkNearer
<1> QED BY <1>1, <1>2, <1>3, <1>4, <1>5, <1>6 DEF Next, Tasks

(* What the theorems about the end of a test rest on. *)
LEMMA EndInvariance == Spec => [](IInv /\ EndInv)
<1>1. Init => EndInv
  BY Names, StudentBenchAssumption DEF Init, CocotbInit, EndInv
<1>2. IInv /\ EndInv /\ [Next]_vars => EndInv'
  <2> SUFFICES ASSUME IInv, EndInv, [Next]_vars PROVE EndInv'
    OBVIOUS
  <2>1. CASE Next
    BY <2>1, StepNearer
  <2>2. CASE UNCHANGED vars
    BY <2>2 DEF vars, cocotbVars, gbusVars, testVars, EndInv
  <2> QED BY <2>1, <2>2
<1> QED BY <1>1, <1>2, InitInv, StepInv, PTL DEF Spec

(* Every step brings the end of the test closer: a later step of the test   *)
(* begins, or an edge that it waits for passes, or a sequence or a driver   *)
(* has less ahead of it, or the checkers have looked.  In particular there  *)
(* is no clock edge that nobody waits for.  The counts that fall are        *)
(* natural numbers, so that no test goes on for ever.                       *)
THEOREM EveryStepNearer == Spec => []AheadInv /\ [][NearerTheEnd]_vars
<1>1. IInv /\ EndInv /\ [Next]_vars => [NearerTheEnd]_vars
  BY StepNearer
<1>2. IInv /\ EndInv => AheadInv
  <2> SUFFICES ASSUME IInv, EndInv PROVE AheadInv
    OBVIOUS
  <2>1. Place[at] \in Nat
    <3>1. at \in DOMAIN Place
      BY StepNames DEF IInv, TypeOK, BaseSteps, Dynamics, Place, Tests
    <3>2. Place \in [DOMAIN Place -> Nat]
      BY DEF Place
    <3> QED BY <3>1, <3>2
  <2>2. StepsAhead \in Nat
    BY <2>1, StudentBenchAssumption DEF EndInv, StepsAhead
  <2> QED BY <2>2, AheadNatural DEF AheadInv, CheckersAhead, IInv, ProgramInv
<1> QED BY <1>1, <1>2, EndInvariance, PTL DEF Spec

-----------------------------------------------------------------------------
(* Until the run phase is over somebody can go on.  What follows is when the *)
(* actions have a next state: first the tasks that an edge has resumed.     *)
ResumedCan(t) ==
  \/ t = Checkers
  \/ t = Producer /\ process[t] # "get"
  \/ t \in Buses /\ driving[t] \in {"release", "align"}

TestCan == TestRuns /\ ResetCycles # {} /\ Following \in DOMAIN Place \ {"power_up"}

SequenceCan(c) ==
  \/ c \in starting /\ stage[c] = "idle" /\ ItemsFor(at, c) # {}
  \/ c \in running /\ stage[c] = "finished" /\ (c \in Buses => responses[c] # <<>>)

GetCan(p) ==
  /\ IF p = Producer THEN process[p] = "get" ELSE driving[p] = "item"
  /\ MayGet(p) /\ item_queue[p] # <<>>

\* The registers of the design have room for what the pins show.
EdgeCan ==
  /\ Settled /\ reading = {} /\ ~RunPhaseOver
  /\ {Gpi, Gpo, At("ss_ctrl")} \subseteq Data

SomebodyCan ==
  \/ \E t \in awake : ResumedCan(t)
  \/ EdgeTasksDone /\ (TestCan \/ \E c \in Clients : SequenceCan(c) \/ GetCan(c))
  \/ Settled /\ Checkers \in reading
  \/ EdgeCan

NeverStuck == RunPhaseOver \/ SomebodyCan

\* What this asks of the constants: that the random items may be 0, as those
\* of the bench may, that a reset has a length, and that there are words for
\* the pins to show.
Room ==
  /\ ResetCycles # {} /\ 0 \in Nibbles
  /\ \A n \in Nibbles : n < 256 => n \in Data
  /\ \A n, m \in Nibbles : n < 16 /\ m < 16 => n + 16 * m \in Data

\* The words that the pins show.
PinsInv ==
  /\ \A g \in {"pmod_0_gpi_agent", "pmod_1_gpi_agent", "ss_ctrl_agent"} :
       bus[g] \in Nibbles
  /\ Gpo \in Data

(* What is driven on the pins is one of the random values. *)
LEMMA ValuesDriven ==
  \A l \in Drives : \A g \in Sends(l).clients :
    \A i \in ItemsFor(l, g) : i.value \in Nibbles
<1> SUFFICES ASSUME NEW l \in Drives, NEW g \in Sends(l).clients, NEW i \in ItemsFor(l, g)
             PROVE  i.value \in Nibbles
  OBVIOUS
<1>1. ItemsFor(l, g) = GbusItem(g, "DRIVE", Nibbles)
  BY ForkSteps DEF ItemsFor
<1> QED BY <1>1 DEF GbusItem

(* The agents drive their own pins, the design its outputs. *)
LEMMA PinsStep == ASSUME IInv, IInv', PinsInv, Room, Next PROVE PinsInv'
<1> DEFINE Inputs == {"pmod_0_gpi_agent", "pmod_1_gpi_agent", "ss_ctrl_agent"}
<1>1. bus \in [Buses -> Nat] /\ Inputs \cup OutputAgents \subseteq Buses
      /\ Inputs \cap OutputAgents = {} /\ "irq_en_agent" \notin Inputs \cup OutputAgents
  BY Names DEF IInv, WordInv, OutputAgents
<1>2. ASSUME \A g \in Inputs : bus'[g] \in Nibbles,
             \A g \in OutputAgents : bus'[g] = bus[g]
      PROVE  PinsInv'
  BY <1>2, Wiring DEF PinsInv, Gpo, At, OutputAgents
<1>3. CASE bus' = bus
  BY <1>2, <1>3 DEF PinsInv
<1>4. CASE ClearIrqEn
  <2>1. bus' = [bus EXCEPT !["irq_en_agent"] = 0]
    BY <1>4, Wiring DEF ClearIrqEn
  <2> QED BY <1>1, <1>2, <2>1 DEF PinsInv
<1>5. ASSUME NEW g \in Buses, HandleRequest(g) PROVE PinsInv'
  <2>1. /\ driving[g] = "align" /\ g \in Clients
        /\ bus' = [bus EXCEPT ![g] = IF item[current_item[g]].cmd = "DRIVE"
                                     THEN item[current_item[g]].value ELSE @]
    BY <1>5, Names DEF HandleRequest
  <2>2. stage[g] = "sent" /\ current_item[g] = g /\ item[g] \in ItemsFor(at, g)
    BY <2>1, Names DEF IInv, HandshakeInv, ItemInv
  <2>3. g \in Sends(at).clients /\ at \in Drives \cup {"enable_irq", "sample_gpo"}
    BY <2>1, <2>2, Busy, Belongs
  <2>4. item[g].cmd = IF at = "sample_gpo" THEN "SAMPLE" ELSE "DRIVE"
    BY <2>2, <2>3, PinItems
  <2>5. CASE at = "sample_gpo"
    BY <1>1, <1>3, <2>1, <2>2, <2>4, <2>5
  <2>6. CASE at = "enable_irq"
    BY <1>1, <1>2, <2>1, <2>3, <2>6, ForkSteps DEF PinsInv
  <2>7. CASE at \in Drives
    <3>1. item[g].value \in Nibbles /\ g \notin OutputAgents
      BY <2>2, <2>3, <2>7, ValuesDriven, ForkSteps DEF Drives, OutputAgents
    <3>2. \A h \in Buses : bus'[h] = bus[h] \/ bus'[h] \in Nibbles
      BY <1>1, <2>1, <2>2, <2>4, <2>7, <3>1 DEF Drives
    <3>3. \A h \in OutputAgents : bus'[h] = bus[h]
      BY <1>1, <2>1, <3>1
    <3> QED BY <1>1, <1>2, <3>2, <3>3 DEF PinsInv
  <2> QED BY <2>3, <2>5, <2>6, <2>7
<1>6. CASE Clk
  <2>1. CASE rst # "1"
    BY <1>3, <1>6, <2>1 DEF Clk, DutEdge
  <2>2. CASE rst = "1"
    <3>1. DutEdge
      BY <1>6 DEF Clk
    <3>2. \A g \in Inputs : bus'[g] = bus[g]
      BY <1>1, <2>2, <3>1, PinsMove
    <3>3. Gpo' \in Data
      <4>1. regs'[8] \in Data
        BY Limits DEF IInv, TypeOK, Dut!SubordinateTypeOK
      <4> QED BY <2>2, <3>1, <4>1, PinsMove DEF PinsInv
    <3> QED BY <3>2, <3>3 DEF PinsInv
  <2> QED BY <2>1, <2>2
<1>7. \/ bus' = bus \/ ClearIrqEn \/ Clk \/ \E g \in Buses : HandleRequest(g)
  <2>1. CASE AssertReset \/ ReleaseReset \/ Wait \/ ForkStep \/ Check \/ DropObjection
    BY <2>1 DEF AssertReset, ReleaseReset, Wait, ForkStep, Check, DropObjection,
                benchVars, gbusVars
  <2>2. CASE \/ \E c \in Clients : StartSeq(c)
             \/ \E c \in Buses : EndPinSeq(c)
             \/ EndRegSeq
    BY <2>2 DEF StartSeq, EndPinSeq, EndRegSeq, gbusVars
  <2>3. CASE ProducerRuns \/ StartChecking \/ CheckAssertions
    BY <2>3 DEF ProducerRuns, StartChecking, CheckAssertions, gbusVars
  <2>4. ASSUME NEW g \in Buses, GbusRuns(g) PROVE bus' = bus \/ HandleRequest(g)
    BY <2>4 DEF GbusRuns, StartGbus, GetGbusItem
  <2> QED BY <2>1, <2>2, <2>3, <2>4 DEF Next, Tasks
<1> QED BY <1>3, <1>4, <1>5, <1>6, <1>7

(* Every sequence finds something to send. *)
LEMMA ItemsExist ==
  ASSUME Room PROVE \A l \in Forks : \A c \in Sends(l).clients : ItemsFor(l, c) # {}
<1> SUFFICES ASSUME NEW l \in Forks, NEW c \in Sends(l).clients PROVE ItemsFor(l, c) # {}
  OBVIOUS
<1>1. \A reg : WriteItems(reg) # {}
  <2>1. 0 \in Data /\ Masked(0) # {}
    BY BusTypesAssumption DEF Masked
  <2> QED BY <2>1 DEF WriteItems
<1>2. CASE l \in Writes
  BY <1>1, <1>2, ForkSteps DEF ItemsFor
<1>3. CASE l \in Reads
  BY <1>3, ForkSteps DEF ItemsFor
<1>4. CASE l \in Dynamics
  <2>1. ReadItem("rw_reg") \in DynamicItems
    BY DEF DynamicItems, Dynamic
  <2>2. ItemsFor(l, c) = DynamicItems
    BY <1>4, ForkSteps DEF ItemsFor
  <2> QED BY <2>1, <2>2
<1>5. CASE l \in Drives \cup {"enable_irq", "sample_gpo"}
  <2> DEFINE cmd == IF l = "sample_gpo" THEN "SAMPLE" ELSE "DRIVE"
             v == IF l = "enable_irq" THEN 1 ELSE 0
             values == IF l = "sample_gpo" THEN {0} ELSE IF l = "enable_irq" THEN {1}
                       ELSE Nibbles
  <2>1. ItemsFor(l, c) = GbusItem(c, cmd, values)
    BY <1>5, ForkSteps DEF ItemsFor, Drives
  <2>2. c \in {"pmod_0_gpi_agent", "pmod_0_gpo_agent", "pmod_1_gpi_agent",
               "pmod_1_gpo_agent", "ss_ctrl_agent", "irq_en_agent"}
    BY <1>5, ForkSteps DEF Drives
  <2>3. Fits(v, ItemWidth(SeqName(c)))
    BY <2>2, ItemWidths, Spans
  <2>4. v \in values
    BY DEF Room
  <2>5. [cmd |-> cmd, value |-> v] \in GbusItem(c, cmd, values)
    BY <2>3, <2>4 DEF GbusItem
  <2> QED BY <2>1, <2>5
<1> QED BY <1>2, <1>3, <1>4, <1>5, ForkSteps

(* Whoever waits is waited for by somebody who can go on. *)
LEMMA CanGoOn == ASSUME IInv, EndInv, PinsInv, Room PROVE NeverStuck
<1> SUFFICES ASSUME ~RunPhaseOver PROVE SomebodyCan
  BY DEF NeverStuck
<1>1. CASE awake # {}
  <2>1. PICK t \in awake : TRUE
    BY <1>1
  <2>2. ResumedCan(t)
    BY <2>1, Names DEF EndInv, ResumedCan, IInv, TypeOK
  <2> QED BY <2>1, <2>2 DEF SomebodyCan
<1>2. CASE awake = {}
  <2>1. EdgeTasksDone
    BY <1>2 DEF EdgeTasksDone, IInv, TypeOK
  <2>2. CASE TestRuns
    <3>1. /\ Following # "power_up"
          /\ Following \in DOMAIN BaseTest \cup DOMAIN Tests[test] \cup {"drop"}
          /\ test \in DOMAIN Tests
      BY <2>2, NobodyElse, Predecessors DEF IInv, TypeOK
    <3>2. Following \in DOMAIN Place
      BY <3>1, StepNames DEF BaseSteps, Dynamics, Place, Tests
    <3>3. TestCan
      BY <2>2, <3>1, <3>2 DEF TestCan, Room
    <3> QED BY <2>1, <3>3 DEF SomebodyCan
  <2>3. ASSUME NEW c \in starting PROVE SomebodyCan
    <3>1. c \in Clients
      BY <2>3, ForkSteps, Names DEF IInv, TypeOK, Drives
    <3>2. stage[c] = "idle"
      BY <2>3, <3>1, Busy
    <3>3. ItemsFor(at, c) # {}
      BY <2>3, <3>1, Belongs, ItemsExist
    <3> QED BY <2>1, <3>1, <3>2, <3>3 DEF SomebodyCan, SequenceCan
  <2>4. ASSUME NEW c \in running, stage[c] = "finished" PROVE SomebodyCan
    <3>1. c \in Clients
      BY <2>4, ForkSteps, Names DEF IInv, TypeOK, Drives
    <3>2. c \in Buses => responses[c] # <<>>
      BY <2>4 DEF IInv, ResponseInv
    <3> QED BY <2>1, <2>4, <3>1, <3>2 DEF SomebodyCan, SequenceCan
  <2>5. ASSUME NEW p \in Clients, item_queue[p] # <<>>,
               IF p = Producer THEN process[p] = "get" ELSE driving[p] = "item"
        PROVE  SomebodyCan
    <3>1. current_item[p] = None
      BY <2>5, Names DEF IInv, HandshakeInv
    <3>2. GetCan(p)
      BY <2>5, <3>1 DEF GetCan, MayGet
    <3> QED BY <2>1, <3>2 DEF SomebodyCan
  <2>6. CASE Settled
    <3>1. CASE reading # {}
      BY <2>6, <3>1 DEF SomebodyCan, IInv, TypeOK
    <3>2. CASE reading = {}
      <4> DEFINE a == bus["pmod_0_gpi_agent"]
                 b == bus["pmod_1_gpi_agent"]
                 c == bus["ss_ctrl_agent"]
      <4>1. a \in Nibbles /\ b \in Nibbles /\ c \in Nibbles /\ Gpo \in Data
        BY DEF PinsInv
      <4>2. a < 16 /\ b < 16 /\ c < 256
        BY Names, Widths, Spans DEF IInv, TypeOK, WordInv
      <4>3. Gpi = a + 16 * b /\ At("ss_ctrl") = c
        BY Wiring DEF Gpi, At
      <4>4. Gpi \in Data /\ At("ss_ctrl") \in Data
        BY <4>1, <4>2, <4>3 DEF Room
      <4> QED BY <2>6, <3>2, <4>1, <4>4 DEF SomebodyCan, EdgeCan
    <3> QED BY <3>1, <3>2
  <2>7. CASE /\ ~TestRuns /\ ~Settled /\ starting = {}
             /\ \A c \in running : stage[c] # "finished"
    <3>1. PICK p \in Clients :
            /\ item_queue[p] # <<>>
            /\ IF p = Producer THEN process[p] = "get" ELSE driving[p] = "item"
      BY <2>1, <2>7, Names DEF Settled
    <3> QED BY <2>5, <3>1
  <2> QED BY <2>2, <2>3, <2>4, <2>6, <2>7
<1> QED BY <1>1, <1>2

(* A test that is not over can go on: the sequences, the drivers, the       *)
(* design and the checkers never all wait for each other, and nothing that  *)
(* a driver is resumed for or has to take is missing when it goes on.       *)
THEOREM SomebodyGoesOn == Room => (Spec => []NeverStuck)
<1> SUFFICES ASSUME Room PROVE Spec => []NeverStuck
  OBVIOUS
<1>1. Init => PinsInv
  <2> SUFFICES ASSUME Init PROVE PinsInv
    OBVIOUS
  <2>1. \A g \in Buses : bus[g] = 0
    BY DEF Init, GbusInit
  <2>2. Gpo = 0
    BY <2>1, Names, Wiring DEF Gpo, At
  <2> QED BY <2>1, <2>2, Names, BusTypesAssumption DEF PinsInv, Room
<1>2. IInv /\ IInv' /\ PinsInv /\ [Next]_vars => PinsInv'
  <2> SUFFICES ASSUME IInv, IInv', PinsInv, [Next]_vars PROVE PinsInv'
    OBVIOUS
  <2>1. CASE Next
    BY <2>1, PinsStep
  <2>2. CASE UNCHANGED vars
    BY <2>2 DEF vars, gbusVars, PinsInv, Gpo, At
  <2> QED BY <2>1, <2>2
<1>3. IInv /\ EndInv /\ PinsInv => NeverStuck
  BY CanGoOn
<1> QED BY <1>1, <1>2, <1>3, EndInvariance, PTL DEF Spec

=============================================================================
