# Didactic SoC: TLA+ models and proofs

Didactic SoC is an educational system on chip: a RISC-V core (Ibex), two SRAM
banks, a JTAG debug module, peripherals, a block of control registers and an
interconnect with five student subsystems, each of which can be put in reset and
have its clock gated. This directory models the parts of its RTL, of the driver
code in `sw/` and of the PyUVM bench in `verification/student_ss` whose
correctness depends on the order of events, checks them with TLC on small
instances, and proves the main results with TLAPS for every value of the
parameters. Paths below are relative to the repository (`src/rtl/...` is the
RTL, `sw/...` the software; `common/...` and `tests/...` are those of
`verification/student_ss`).

## 1. The system

### Parts, state, operations

| part | source | state it keeps | operations |
|---|---|---|---|
| core | Ibex (external), `src/rtl/ibex_wrapper.sv` | external | OBI initiator: fetches, loads, stores; takes interrupts |
| debug | riscv-dbg (external), `src/rtl/jtag_dbg_wrapper_obi.sv` | external | OBI initiator (system bus access); `ndmreset` resets the core only |
| main crossbar | obi_xbar (external), `src/rtl/sysctrl_obi_xbar.sv` | arbitration locks, one outstanding access per initiator | routes 3 initiators to 6 targets by address |
| memories | `src/rtl/sp_sram.sv` | words, `raddr_q`, `gnt_reg`, `rvalid_reg` | read, write |
| control registers | `src/rtl/SS_Ctrl_reg_array.sv` | the registers, `gnt_reg`, `rvalid_reg`, `rdata_out_reg` | read, write; drives resets, clock gates, interrupt enables, pin configuration, PMOD selection |
| student interconnect | `src/rtl/obi_icn_ss.sv` | crossbar locks, five bridges | routes accesses to a subsystem |
| OBI-to-APB bridge | `src/reuse/obi_to_apb_intf.sv` | `state_q`, `data`, `err` | SETUP, ACCESS, HANDSHAKE |
| student subsystems | `student_ss_1.sv`, `Student_area_0.sv`, `student_ss_example.sv`, `analog_status_array.sv`, tie-offs | registers, `PREADY`, `PSLVERR`, `PRDATA` | APB read, write; pins, interrupt |
| wrappers | `src/generated/*_wrapper_0.v` | clock gate latches | gate the two clocks with `SSk_CTRL` bits 0 and 1 |
| drivers | `sw/common/soc_ctrl.h` | a local variable `mask` | `ss_init`, `ss_init_high_speed`, `ss_reset`, `pmod_target` |
| PMOD multiplexer | `src/rtl/pmod_mux.sv` | none (combinational) | gives the GPIO pins to a subsystem or to the core |
| peripherals | `src/rtl/peripherals_obi_to_apb.sv` + external GPIO, UART, SPI | bridges | routes accesses to three APB peripherals |
| DTU subsystem | `src/rtl/dtu_ss.sv`, generated Chisel | Leros core, memories | APB, its own reset bit |
| AXI variant | `ibex_axi_bridge.sv`, `mem_axi_bridge.sv`, `SysCtrl_xbar.sv`, `ICN_SS.sv` | bridge FSMs | the bus of an earlier version, still in the tree |
| technology cells | `src/tech_generic/*` | synchroniser, gate latch | clock gate, synchroniser, I/O cells |
| APB verification component | `common/uvc/apb/` | per driver its process and item; the bus signals; the item the monitor has captured | start and kill a process at a reset, get, drive, answer, end an item; observe a transfer |
| generic bus verification component | `common/uvc/gbus/` | per driver its process and item; the driven bus; the last value the monitor has seen | the same, with `DRIVE` and `SAMPLE` items; observe a change |
| register model | `common/register_model/`, `common/uvc/apb/cl_apb_reg_adapter.py` | address map | turns register accesses into APB items and back |
| student bench | `common/cl_student_*.py`, `common/sequences/`, `common/tb_top/top.sv`, `tests/` | configurations, factory overrides, objections; what a test has driven and read | build, reset, six tests, assertion checkers |

### How they interact

All of it but the debug module runs on one clock with an asynchronous reset.
Core (two ports) and debug module raise requests; the crossbar locks on one
request per target and keeps presenting it until `gnt`; the target answers with
`rvalid` in a later cycle. An access to a subsystem goes through the second
crossbar (`obi_icn_ss`) and a bridge that turns it into an APB transfer. Bit 0
of `RST_CTRL` resets the second crossbar and its bridges, bit k+1 subsystem k;
bit 0 of `SSk_CTRL` is the clock enable. Both are changed by ordinary stores of
whoever runs the drivers, while the other initiator may have an access under way.

The bench replaces everything in front of a subsystem: the APB producer is the
bus manager, seven generic bus agents drive or sample the pins, `ss_ctrl` and the
interrupt. A test runs virtual sequences, which start sequences on the agents'
sequencers; a sequence and a driver meet in the sequencer's queue. All of them
are cocotb tasks that a clock or reset edge of the simulator resumes.

### What is hard about it

- *Registered handshakes.* Every register block answers with registered flags
  (`PREADY`, or `gnt_reg` and `rvalid_reg`), and several act on a request before
  they grant it. A flag that is one cycle late makes an access happen twice, or
  grants one that has not happened.
- *Two initiators* share each target; their accesses follow one another with no
  idle cycle.
- *Reset and clock gating in the middle of an access*, by the other initiator.
- *No timeout anywhere.* An access that nobody answers waits for ever, and with
  it everything behind the same lock.
- *Read, modify, write without a lock* in the drivers.
- *Boundaries of decoders*: a range one too long, an offset that is not decoded.
- *Tasks of the bench that one edge resumes, in any order*: driver, monitor,
  reset handling and checkers read signals at different points of a time step, and
  a reset kills a driver between two awaits, with an item in its hands.

### What makes each part correct

| part | properties | checked by |
|---|---|---|
| a subsystem behind its bridge | it is an atomic register file; no answer belongs to another access; every decoded access is answered | `ApbPath` |
| control registers | they are an atomic register file; the grant and response flags never disagree; every access is answered | `CtrlPath` |
| memories | each bank is an atomic register file, byte by byte; addresses of the bank are distinct words | `SramPath` |
| isolation | a granted access has been performed exactly once; its response arrives; a driver call for one subsystem leaves the others alone; `ss_init` opens its subsystem; only isolation blocks | `SocIsolation` |
| example subsystem | the pins follow the GPIO accesses, both PMODs alike; input pins are read as they are; the counter does not wrap; interrupts last one cycle and keep coming | `ExampleSubsystem` |
| APB verification component | the drivers keep to the bus protocol and to the handshake with their sequencers over every reset; an answer belongs to its request; the monitor reports exactly the transfers there were; items are finished | `ApbUvc` |
| generic bus verification component | a driver stops only if a reset cut its item; every sequence gets its own response; no value escapes the monitor; items are finished | `GbusUvc` |
| student bench | every test passes on `student_ss_example`, comes to its end, and no value is too wide for its bus | `StudentBench` |
| PMOD multiplexer | one owner of each pin; inputs of other subsystems are 0 | planned |
| AXI bridges | each request becomes one AXI transaction; its error is not lost | planned |
| debug reset of the core | a withdrawn request does no harm | planned |

The hazards at their lines are in `PROJECT.json`.

## 2. The models

The models of the RTL are synchronous: one action `Clk` is a clock edge, which computes
every register from the values before the edge, as `always_ff` does. Everything
combinational is an operator. Between edges initiators may raise requests (`Ask`)
and a multiplexer may lock on one (`Select`); both may happen in the same cycle
as each other and before or after any number of edges, so every relative timing
of the initiators is covered, back-to-back accesses included.

| module | models | state |
|---|---|---|
| `BusTypes` | the request channel: `we`, `addr`, `wdata` | none |
| `ObiManagers` | the initiators and the multiplexer in front of one target | `mphase`, `mop`, `mres`, `sel`, `owner` |
| `BridgeFsm`, `ObiToApb` | `obi_to_apb_intf.sv` | `state` (`state_q`), `data`, `err` |
| `ApbSubordinate` | the register blocks of the five kinds of subsystem, selected by `Kind` | `PREADY`, `PSLVERR`, `PRDATA`, `regs` |
| `ApbPath` | initiators, bridge and subsystem composed | all of the above |
| `CtrlRegArray`, `CtrlPath` | `SS_Ctrl_reg_array.sv`, and initiators in front of it | `gnt_reg`, `rvalid_reg`, `rdata_out_reg`, `ctrl` |
| `SpSram`, `SramPath` | one byte lane of `sp_sram.sv`, and initiators in front of it | `gnt_reg`, `rvalid_reg`, `raddr_q`, `ram`; history `stored` |
| `SocIsolation` | the drivers of `soc_ctrl.h`, the resets and clock gates, the bridges and the `PREADY` of every subsystem | `rst`, `ss_ctrl`, `call`, `mask`, `bridge`, `PREADY`; history `performed` |
| `ExampleRtl` | what `student_ss_example.sv` adds to the register block: direction, sampling, output latches, interrupt counter | `oe`, `IRQ_REG`, `COUNT_REG`, and the pins `gpi`, `gpo`, `irq_en` |
| `ExampleSubsystem` | `student_ss_example.sv` under an APB manager and pins that do anything | those of `ApbSubordinate` and `ExampleRtl`, `PSEL`, `op`; history `settled`, `listening`, `completed` |
| `AtomicRegs` | what a register block promises: the abstract specification | `mem`, `phase`, `op`, `res` |
| `Cocotb` | the scheduler: which tasks an edge has resumed or is to kill, and the signals as they were before it | `rst`, `seen`, `awake`, `dying`, `reading` |
| `UvmSequencer` | the handshake of pyuvm between the sequences and the driver of a sequencer | `item`, `stage`, `item_queue`, `current_item`, `responses` |
| `ApbInterface`, `ApbDrivers`, `ApbConsumer`, `ApbMonitor` | the APB agents: base driver and producer, consumer, monitor | the bus signals, `process`, `monitor`, `captured` |
| `ApbUvc` | a producer and a consumer agent back to back with a monitor, sequences and resets | all of the above; history `ledger`, `offer` |
| `GbusAgent`, `GbusMonitor`, `GbusUvc` | the generic bus driver and monitor, and two agents under sequences and resets | `bus`, `driving`, `watching`, `previous_value`; history `cut` |
| `BenchBuild` | build and connect phase of the bench: agents, configurations, wiring, factory overrides | none |
| `RegModel` | register addresses, and the adapter between register accesses and APB items | none |
| `StudentBench` | the six tests on the whole bench around `student_ss_example`, with the assertion checkers | those of the APB producer, of the seven generic bus agents and of the design; `test`, `at`, `left`, `round`, `starting`, `running`, `got`, `objections`, `verdict`, `pulse`, `passed` |

`ExampleSubsystem` and `StudentBench` use the same `ApbSubordinate` as `ApbPath`, so
that the register block they add pins and interrupt to is the one shown to be a
register file there, and share `ExampleRtl`. `StudentBench` uses the drivers of
`ApbUvc` and `GbusUvc`.
`ApbPath`, `CtrlPath` and `SramPath` each implement `AtomicRegs` under a
refinement mapping written in the module. `SocIsolation` then relies on what
they establish: an access to the control registers is one step there, and a
subsystem that is out of reset and clocked performs an access in one edge.

Choices a reader should know of:

- *The crossbars are external IP* (obi_xbar), known from their configuration
  only: `NumMaxTrans` 1, all cuts bypassed, `rready` of every target tied to 1. The
  model is what that configuration means in front of one target: a lock on the
  selected request until it is granted, then the owner of the next response.
- *`ObiManagers` holds one access per initiator.* Ibex and the system bus access
  of the debug module wait for the response before the next request to a target.
- *Unspecified data.* `rdata` of a write or of a failed access is whatever the
  register holds; the refinement mappings replace it by `NoData`, so that nothing
  is claimed about it.
- *Pins and status inputs* that a block samples at every edge (`Sampled`) change
  to any value; `AtomicRegs` lets the hardware registers `HwRegs` do the same.
  So does register 12 of `student_ss_example`, whose bits 7..0 follow `ss_ctrl_4`
  at every edge; bits 31..8, which keep what was written, are not told apart there.
- *A memory bank is modelled one byte lane at a time*: the lanes share the
  handshake and the addresses. A store that leaves the lane alone carries `Keep`.
- *In `ExampleSubsystem` the eight pins are one data word*, PMOD 0 its low four
  bits. `gpo` is a latch: `always_comb` assigns it under a condition only, and it
  has no reset, so it starts with any value. `Reset` leaves it open whether the
  manager gives its access up, as the bench's driver does, or repeats it, as the
  bridge does.
- *History variables* (`stored`, `performed`, `settled`, `listening`, `completed`,
  `ledger`, `offer`, `cut`) are read by no guard.
- *In `SocIsolation` a register is the set of its 1 bits*, and a driver is one
  action per load or store of the C source, so that anything may happen in between.
  `irq_enable` is the one call that is not a driver of `soc_ctrl.h`: it has none for
  the interrupt enable, so a program sets bit 31 of `SSk_CTRL` itself. A subsystem
  whose clock is off keeps `PREADY`; one in reset clears it.

The models of the bench are asynchronous between two edges, as its tasks are:

- *An edge resumes the tasks that await it.* Then they run one at a time in any
  order, each action from one await to the next, on the signals as they were before
  the edge (`seen`); what they write is visible to the next edge. After them run
  what they have resumed in their turn (`get_next_item`, `finish_item`, the test),
  then the tasks that await `ReadOnly` (monitor of the generic bus, checkers); only
  then does time go on. This is how cocotb schedules on a simulator whose
  assignments by tasks take effect after the tasks of the edge; a task that an edge
  would only send back to await the next is not resumed.
- *Resets.* The tasks of an APB agent look at the reset at clock edges, those of
  the generic bus await its edges. In `ApbUvc` and `GbusUvc` the reset changes between
  any two edges, and may do so twice. `handle_reset` is a task of
  its own: `dying` holds the tasks it is to kill, which may still run before it.
- *pyuvm and cocotb are external.* `UvmSequencer` and `Cocotb` are what the bench
  uses of them. Of the APB producer's responses, which no sequence takes, the
  last is kept.
- *A test is a program of named steps*: `at` is the step it has begun last, and
  `BaseTest` and the record of each test (`RwTest`, ...) say which step follows: wait
  for clock edges (`left` of them), change the reset, fork sequences and wait for them
  (`Sends` says which, on which agents), check, drop an objection. It begins with
  `run_phase` of the base class. What a checker finds is only noted (`passed`), as the
  assertions of the bench do; an assertion of the test ends it.
- *Names decide in the factory.* `BenchBuild` keeps the type override of the last
  agent built and the overrides by name, and `ItemWidth` is what an item gets from them.

## 3. What is checked

Two initiators in the models of the RTL: the properties are about one access disturbed by
others, and the multiplexer treats all initiators it has not selected alike.
Every run explores its whole state space.

| run | instance | what it shows |
|---|---|---|
| `apb_example` | `student_ss_example`, offsets 0 (read/write), 4 (sampled), 8, data {0,1} | `ApbPath` refines `AtomicRegs`; answers belong to their access; no access waits but an undecoded one, and this decoder answers all, with an error where there is no register: every access is answered |
| `ctrl_regs` | `RST_CTRL`, the last cell configuration register and the first hole; `rready` free | `CtrlPath` refines `AtomicRegs`, with back-pressure; every request is answered, to a hole as well |
| `sram` | two words, stores with and without byte enable | `SramPath` refines `AtomicRegs`; every request is answered |
| `isolation` | two subsystems; the core runs the drivers; both initiators access both subsystems at any time | a granted access was performed exactly once, its response arrives, drivers do not disturb other subsystems, `ss_init` opens, only an isolated subsystem blocks. `ss_reset` of everything is not among the calls: under it the other initiator can lose its response, which nothing in the code excludes |
| `isolation_solo` | the core alone, with the call that resets everything, one subsystem tied off | the response of an access cannot be lost when nobody else resets the interconnect |
| `example` | writes of `RW_REG` and `GPIO_W_REG`, reads of `GPIO_R_REG`, threshold 4, pins and `irq_en_4` changing between any edges, reset at any time | the properties of the example subsystem in section 1 |
| `apb_uvc` | two sequences on the producer, one on the consumer; writes with and without strobe, reads; answers with and without error; a reset between any edges | protocol and handshake of the drivers, answers, monitor, items finished |
| `gbus_uvc` | two agents, two sequences on one of them and one on the other; values 0 and 1, sampling; a reset between any edges, also within one clock period | stopping drivers, own responses, monitor, items finished |
| `student_bench` | the six tests, any order of the tasks at an edge, resets of 2 and 3 cycles, data {0,1,16,17} | every test ends and passes, no assertion of the checkers fails |
| `isolation_faults`, `isolation_irq`, `sram_size` | | the disagreements of section 5 |

*Bounds.* Offsets are chosen one per class of the decoder (register, read-only or
sampled register, no register, last of a range and first after it); two data values
tell a stored value from the reset value; two subsystems tell "this one" from
"another one" (the proofs cover the rest). `example` scales the threshold 16'hA00
down to 4 and steps the counter by 0, 1 or 3, so that it both meets and jumps over
the threshold (the proof covers every threshold and step); one access is on the bus
at a time, as behind a bridge. `settled` and `listening` count edges to 2, the delay
of the sampling and the answer register. `performed` is counted to 2, which is where
the property about it already fails. In `apb_uvc` and `gbus_uvc` two sequences share
a sequencer, so that its queue holds an item behind the one in the driver's hands;
`ledger` never exceeds two transfers. `student_bench` runs one of the 100 rounds of
the random test (the rounds are alike and carry over only the state of the design);
the reset lasts 2 or 3 of its 2 to 20 cycles, which are alike for all tasks once the
second has passed; the data has the values 0, 1, 16 and 17, so that each half of a
byte is told from the other, and items of {0, 1, 16} meet the width of a four bit
bus; the threshold of the interrupt counter is 2, so that interrupts do come in
tests this short. Deadlock is not checked there because the run phase ends.

*Fairness* (for the liveness properties only): weak fairness of `Clk` (all that
`example` assumes), because the clock runs (of its edges with `rready` up in
`CtrlPath`: an initiator takes its response in the end); strong fairness of `Select`
for each initiator, because the crossbar arbitrates round robin and an initiator's
chance comes and goes with the others' accesses; weak fairness of the steps of a
driver that has been entered, because the core that executes it goes on. No fairness
is assumed of `Ask` or `Call`: nobody is obliged to make an access or to open a
subsystem. In the models of the bench weak fairness of the tasks and of `Clk`: the
simulator runs every task it has resumed, and then goes on to the next edge; in
`ApbUvc` also of the sequences of the consumer, whose next item is the answer to the
request the producer waits with. A sequence need not send anything else, and
`ItemsFinish` is about runs whose resets come to an end.

The other subsystem kinds (`student_ss_1`, `Student_area_0`, `analog_status_array`,
the tie-offs) differ from this one in their decoder only, and are covered by the
proofs, which hold for every `Kind`. The liveness property is not: in `student_ss_1`
and `Student_area_0` an undecoded access waits for ever, which is why
`EveryAccessAnswered` says that a request is answered unless an undecoded access is on
the bus (`WaitingMeansUndecoded`). The run of `ApbPath` has no such offset: for the
decoders that have, there is the proof alone.

`OnlyIsolationBlocks` counts a subsystem without its APB clock as isolated. After
`ss_init_high_speed` alone a wrapper that gates its registers with bit 0 is one, and its
first access waits: the property says that nothing else keeps an access waiting.

That `gnt_reg` and `rvalid_reg` never agree (`GrantsWhenFree`) and that every response
has one taker (`SingleOutstanding`) are proved for every instance and have no run.

Each property has mutants: deviations of a definition, named in the modules as
such, that the runs detect.

## 4. What is proved

For every set of initiators and addresses, every data set and, where it occurs,
every subsystem kind, number of cells, bank size and behaviour of `rready`; for the bench,
for every set of agents, sequences and items:

| module | theorem | assumption |
|---|---|---|
| `ApbPath_proofs` | `TypeCorrect`, `AnswerOwnership`, `NoWaitStates`, `SingleOutstanding`, `Refinement` | those of the constants |
| `CtrlPath_proofs` | `TypeCorrect`, `GrantsWhenFree`, `AnswersHaveTakers`, `Refinement` | the reset values are data |
| `SramPath_proofs` | `TypeCorrect`, `AnswersReadTheirWord`, `Refinement`, `Reach` | `Tied`: `rready` is tied; `DistinctWords`: the addresses in use are different words, which `Reach` derives for the first `NUM_WORDS` bytes |
| `SocIsolation_proofs` | `TypeCorrect`, `ExactlyOnce`, `ResponsesArrive`, `SeparateControl`, `InitHandsOver` | `SoleConfigurator`: one initiator runs the drivers; `ResponsesArrive`: it does not reset everything |
| `ExampleSubsystem_proofs` | `TypeCorrect`, `CounterNeverWraps`, `PinsFollow`, `InputsAreRead`, `OneCyclePulse` | `Threshold + 16` fits in 16 bits |
| `GbusUvc_proofs` | `TypeCorrect`, `StopsOnlyAfterCut`, `ResponsesReachTheirSequence`, `NothingUnseen` | those of the constants |
| `ApbUvc_proofs` | `TypeCorrect`, `NoSequenceErrors`, `MonitorComplete`, `ProtocolKept`, `AnswersMatch` | those of the constants |
| `StudentBench_proofs` | `TypeCorrect`, `EveryTestPasses`, `Invariance`, `EveryStepNearer`, `SomebodyGoesOn` | those of the constants: `Data` are numbers closed under the masks of the register sequences, the addresses 0, 4, 8 and 12 exist, a reset lasts a cycle or more. `SomebodyGoesOn`: `Room`, that the random values include 0 and `Data` all the words that the pins can show |

Each argument rests on an inductive invariant `IInv`, stated in the component's
module (for `StudentBench`, where it is long, in the module of its proofs). TLC has
checked each on the instance of the component's run before it was proved. None of the
checked invariants is inductive alone:

- `ApbPath`: that `PREADY` belongs to the access on the bus needs the bridge to
  be in ACCESS whenever it is up, that the multiplexer keeps presenting the
  request, and that an access phase that waits is undecoded (else a late `PREADY`
  could rise in it).
- `CtrlPath`: `gnt_reg` and `rvalid_reg` opposite, and the owner in step with
  `rvalid_reg`.
- `SramPath`: a store that is in the array ahead of its grant is granted next,
  and storing it again changes nothing; the read address is the owner's.
- `SocIsolation`: `DriverInv` says what a driver in the middle of its loads and
  stores knows about the registers (this is where a second configurator would
  break it); `PreadyInv` says that `PREADY` is up only in a subsystem that is still
  clocked, for the access on the bus, performed once. `ss_reset` keeps it because
  it resets the subsystem before it gates its clock: in the other order a `PREADY`
  frozen at 1 would grant the next access unperformed. `ResponseInv` adds that no
  bridge in its handshake is reset away.
- `ExampleSubsystem`: `DirectionInv` ties the direction to the access on the bus
  while `PREADY` is up and to the last completed one otherwise, and the latches to
  `GPIO_W_REG`; `SamplingInv` says that `GPIO_R_REG` is one edge behind pins that
  are inputs. That an interrupt lasts one cycle needs no invariant.
- `UvmSequencer`: a queue holds the queued items of its own sequences, each once
  (`QueueInv`), and what a driver has is the item of a sequence of its own that waits
  for its end (`CurrentInv`). `GbusUvc_proofs` and `ApbUvc_proofs` rest on it and each
  begin with the same six lemmas, one per step of the handshake. `StudentBench` needs
  less of it, as every sequencer there has one sequence at a time (`HandshakeInv`).
- `GbusUvc`: `ResponseInv` says that a response is in the queue exactly while the
  sequence it is for has not taken it, and that a driver that is about to answer
  finds the queue empty: the next item is asked for only after every finished
  sequence has run. `ObservedInv` says that a driver can only be about to drive over
  a value the monitor has seen, because the monitor reads at the end of every time
  step; `ResetInv` that the bus is 0 while its driver is stopped, which the monitor,
  started by the same edge in any order, does not have to see.
- `ApbUvc`: until the producer has run, the bus is as the edge has seen it
  (`RequestInv`); the consumer is about to answer only a request that is on the bus
  and not answered yet, and the edge that sees the answer is the one at which the
  producer takes it (`AnswerInv`). Producer and monitor are started and killed by
  the same edges in any order (`ResetInv`), and the history of transfers lags behind
  the monitor or runs ahead of it by the one that ends at this edge (`LedgerInv`).
  There is no sequence error because a driver has an item exactly from
  `get_next_item` to `item_done` (`DriverInv`), the ones a kill calls included.
- `StudentBench`: `TestsPass` is about the last moment of a test, but what it says is
  decided all along the way, so the invariant follows the test step by step.
  `ProgramInv` says what the step fixes by itself: the reset, the objections, whether
  anything has been asserted. A value that is written is then the item's
  (`ItemInv`), the request's (`ApbInv`), the register's and, for `GPIO_W_REG`, that on
  the pins as long as the test needs it (`WrittenInv`), which holds because only
  sequences of this step are under way (`HandshakeInv`), because a reset is not, and
  because in `write_pmod` nobody reads GPIO_R_REG, which would turn the pins around. A
  value that is driven is that of the response (`ResponseInv`), of the sequence
  (`GotInv`), and an edge later that of the input register (`LoadedInv`); a read then
  takes it through `PRDATA`, the item and `got` (`ReadInv`). The widths enter here:
  `ReadPmodCheck` takes the two halves of a byte apart, so that the proof needs that no
  item is wider than its bus (`ItemWidths`), which is a matter of the names the
  overrides go by. For the checkers, `CheckersInv` says that there is no interrupt
  before they look for one, that `irq_en` is up whenever there is one (the test takes it
  away before the drivers get a process, and no later item does), and that a pulse they
  have seen is one that the next edge ends. The random test asserts early, and
  afterwards only the checkers can fail: nothing is claimed about what its accesses
  read.

The refinements are proved by simulation: initial states map to initial states,
every step to a step of `AtomicRegs` or a stutter. One edge may perform one access
and answer another, which is why `Perform` takes the set of answered initiators.

What the proof of `StudentBench` adds to its run: every number of rounds of the random
test instead of one, every length of the reset, every threshold, every set of words
and pin values, with and without masked data. The design, the agents and the wiring are the
code's own and fixed. `Data` has to be closed under the masks because the register sequences
write masked words and the design holds nothing else; the 32 bit words of the code are.

What the proof comes to of `TestsEnd`: `EveryStepNearer` and `SomebodyGoesOn` are its two
halves that need no fairness. The first gives every state of a test counts of what lies
ahead of it, in this order: the steps of the test that have not begun (a round of the
random test is five), the clock edges the test still waits for together with what each
sequence and driver has to do, and whether the checkers have still to look. Every step
lowers the first of them that it changes, a clock edge too, as there is none that nobody
waits for. The second says in plain terms when an action has a next state (`SomebodyCan`),
and that until the run phase is over there is such an action. Besides `IInv` they need that a
driver is never resumed with nothing to do, and none forgotten that awaits the end of the
reset (`EndInv`), and that the design's registers have room for what is on the pins
(`PinsInv`). TLC has checked all of these on the instance of the run too, and that
`SomebodyCan` implies `ENABLED Next` there. What is left to the run is only the step from
there to `<>`: that a test that can always go on, under the fairness stated, does.

*Model-checked only*: the liveness properties (`EveryAccessAnswered`,
`OnlyIsolationBlocks`, `InterruptsKeepComing`, `ItemsFinish`, `TestsEnd`), because
fairness and ENABLED are out of the prover's reach. Every invariant and every action
property that a passing run checks is proved as well.

## 5. Where code and documents disagree

- `sram_size`: `doc/baremetal_sw.md` gives each memory 16 KiB. The address port of
  `sp_sram.sv` has `$clog2(NUM_WORDS)` = 12 bits but takes a byte address, so only
  1024 of the 4096 words can be reached and addresses repeat every 4 KiB. The
  linker scripts use 4 KiB, so the software in the tree does not notice.
- `isolation_faults`: `doc/architecture.md` calls the isolated default state a
  "safety mechanism to avoid faut propagation". An access to an isolated subsystem
  waits for ever and holds the interconnect, so that another initiator's access to
  an open subsystem waits too.
- `isolation_irq`: `soc_ctrl.h` says that `ss_reset` disables the interrupt; it
  leaves the enable bit set.

## 6. What is not modelled, and the plan

Not modelled: the external IP (Ibex, debug module, crossbar internals, GPIO, UART,
SPI), the generated netlists beyond the wiring read from them, the Chisel-generated
DTU core, parity and identifier signals of OBI (tied off), pads and FPGA wrappers.
Of the bench: the coverage
collectors, which nothing reads; fields and mirror of the register model, which no
test uses; the timeouts of tests and sequences; constraints on random items, which are
the constants of the runs; the scripts around the simulators, and
`example/cl_student_example_test.py`, which imports a module that is not in the tree.
A request withdrawn by a reset of the core (`ndmreset`) is left out so far: what
follows depends on the external arbiter. The control registers ignore byte
enables and so does the model, which has none; the software stores words only.
`ss_init` and `ss_init_high_speed` are called with numbers of subsystems only: any other
number, for which they take the interconnect out of reset and open no clock, is left out.

Simplified: in `ApbDrivers` a driver takes its next item when every task of the edge has
run, in the code in the turn of its `item_done`. A `"failed"` driver in `GbusUvc` stands for
an uncaught `UVMSequenceError`, with which cocotb ends the whole test. That the interrupt
test sees at least one pulse, which the bench's readme mentions, no test asserts; what is
checked is that a pulse lasts one cycle and that pulses keep coming.

Done: `ApbPath`, `CtrlPath`, `SramPath`, `SocIsolation`, `ExampleSubsystem`,
`GbusUvc`, `ApbUvc` and `StudentBench` with their proofs. Next, in this order:

1. `PmodMux` with `pmod_target` and the I/O cells: ownership of the pins across
   switches, direction polarity, inputs of unselected subsystems; proved: one owner.
2. `AxiBridges`: `ibex_axi_bridge` and `mem_axi_bridge` against an AXI-lite
   environment that accepts the channels in any order; abstract specification: one
   request, one transaction.
3. `AddressMaps`: the decoders of both crossbars and of the peripheral bridge as
   functions (disjoint, covering, agreeing with the headers); proved: disjointness.
4. `Crossbar`: three initiators and several targets, the two ports of the core
   independent; refinement of one `AtomicRegs` per target.
5. `CoreReset`: `ndmreset` during an access, as a variant of `SocIsolation` with both
   behaviours of the arbiter.
6. `DtuSubsystem` reset handling by the DTU test program; `TechSync`.

Worth proving next: what `EveryStepNearer` and `SomebodyGoesOn` are to `TestsEnd`, for
`EveryAccessAnswered` of the three access paths and for `ItemsFinish` of the agents.

The abstract specifications worth stating are `AtomicRegs` for everything with
registers and "one request, one transaction" for the AXI bridges.
