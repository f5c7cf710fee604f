----------------------------- MODULE MCGbusUvc -----------------------------
EXTENDS GbusUvc

UvcPortOf ==
  [c \in {"seq_1", "seq_2", "seq_3"} |-> IF c = "seq_3" THEN "irq_en" ELSE "gpi"]

UvcItems ==
  [cmd : {"DRIVE"}, value : {0, 1}] \cup [cmd : {"SAMPLE"}, value : {0}]

============================================================================
