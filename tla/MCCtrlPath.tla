----------------------------- MODULE MCCtrlPath -----------------------------
(* Instances of CtrlPath for TLC: two initiators; the offsets of RST_CTRL,  *)
(* of the last cell configuration register and of the first hole above it.  *)
EXTENDS CtrlPath

\* Every access to the offsets of Addr: reads carry no data.
AllOps == {o \in Ops : o.we \/ o.wdata = 0}

=============================================================================
