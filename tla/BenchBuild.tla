----------------------------- MODULE BenchBuild -----------------------------
(***************************************************************************)
(* What the build and connect phases of the student bench leave behind:    *)
(* the gbus agents with their configurations, interfaces and pins, and the *)
(* sequence items as the factory overrides them.                           *)
(***************************************************************************)
EXTENDS Integers, Sequences

\* The gbus agents of the environment, in the order it builds them.
GbusAgents ==
  <<"pmod_0_gpi_agent", "pmod_0_gpo_agent", "pmod_1_gpi_agent",
    "pmod_1_gpo_agent", "ss_ctrl_agent", "irq_en_agent", "irq_agent">>

\* What the environment puts into the ConfigDB under the path of each agent.
AgentCfg ==
  [pmod_0_gpi_agent |-> "pmod_0_gpi_cfg", pmod_0_gpo_agent |-> "pmod_0_gpo_cfg",
   pmod_1_gpi_agent |-> "pmod_1_gpi_cfg", pmod_1_gpo_agent |-> "pmod_1_gpo_cfg",
   ss_ctrl_agent |-> "ss_ctrl_cfg",
   irq_en_agent |-> "irq_en_cfg", irq_agent |-> "irq_cfg"]

\* cfg.BUS_WIDTH
BusWidth ==
  [pmod_0_gpi_cfg |-> 4, pmod_0_gpo_cfg |-> 4, pmod_1_gpi_cfg |-> 4,
   pmod_1_gpo_cfg |-> 4, ss_ctrl_cfg |-> 8, irq_en_cfg |-> 1, irq_cfg |-> 1]

\* cfg.vif, and the signal of the DUT that each interface is connected to.
Vif ==
  [pmod_0_gpi_cfg |-> "pmod_0_gpi_if", pmod_0_gpo_cfg |-> "pmod_0_gpo_if",
   pmod_1_gpi_cfg |-> "pmod_1_gpi_if", pmod_1_gpo_cfg |-> "pmod_1_gpo_if",
   ss_ctrl_cfg |-> "ss_ctrl_if", irq_en_cfg |-> "irq_en_if", irq_cfg |-> "irq_if"]

\* Deviation the runs detect: the two PMODs are mixed up.
SignalCrossed ==
  [pmod_0_gpi_if |-> "pmod_1_gpi", pmod_0_gpo_if |-> "pmod_0_gpo",
   pmod_1_gpi_if |-> "pmod_0_gpi", pmod_1_gpo_if |-> "pmod_1_gpo",
   ss_ctrl_if |-> "ss_ctrl", irq_en_if |-> "irq_en", irq_if |-> "irq"]

Signal ==
  [pmod_0_gpi_if |-> "pmod_0_gpi", pmod_0_gpo_if |-> "pmod_0_gpo",
   pmod_1_gpi_if |-> "pmod_1_gpi", pmod_1_gpo_if |-> "pmod_1_gpo",
   ss_ctrl_if |-> "ss_ctrl", irq_en_if |-> "irq_en", irq_if |-> "irq"]

SignalOf(agent) == Signal[Vif[AgentCfg[agent]]]

\* The virtual sequencer's handle on the sequencer of each agent.
Handle ==
  [pmod_0_gpi |-> "pmod_0_gpi_agent", pmod_0_gpo |-> "pmod_0_gpo_agent",
   pmod_1_gpi |-> "pmod_1_gpi_agent", pmod_1_gpo |-> "pmod_1_gpo_agent",
   ss_ctrl |-> "ss_ctrl_agent", irq_en |-> "irq_en_agent", irq |-> "irq_agent"]

-----------------------------------------------------------------------------
\* The factory keeps one override of a type, the last: every agent overrides
\* the type of all gbus items with the one of its own width.
TypeOverride == BusWidth[AgentCfg[GbusAgents[Len(GbusAgents)]]]

\* Deviation the runs detect: a width under another's name.
InstOverridesCrossed == [ss_ctrl |-> 4, pmod |-> 8, irq |-> 1]

\* The overrides by name, which take precedence, and the sequences whose items
\* have such a name.
InstOverrides == [ss_ctrl |-> 8, pmod |-> 4, irq |-> 1]

NamedLike(pattern) ==
  CASE pattern = "ss_ctrl" -> {"ss_ctrl_seq"}
    [] pattern = "pmod"    -> {"pmod_0_seq", "pmod_1_seq"}
    [] pattern = "irq"     -> {"irq_en_seq"}

ItemWidth(seq) ==
  IF \E p \in DOMAIN InstOverrides : seq \in NamedLike(p)
  THEN InstOverrides[CHOOSE p \in DOMAIN InstOverrides : seq \in NamedLike(p)]
  ELSE TypeOverride

Fits(value, width) == value < 2 ^ width

=============================================================================
