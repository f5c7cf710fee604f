----------------------------- MODULE MCApbPath -----------------------------
(* Instances of ApbPath for TLC: two initiators and one subsystem.          *)
EXTENDS ApbPath

\* Every access to the offsets of Addr: reads carry no data.
AllOps == {o \in Ops : o.we \/ o.wdata = 0}

=============================================================================
