----------------------------- MODULE MCSramPath -----------------------------
(* Instances of SramPath for TLC: two initiators and two addresses.         *)
EXTENDS SramPath

\* Loads carry no data.
AllOps == {o \in Ops : o.we \/ o.wdata = 0}

\* Loads and word stores only.
WordOps == {o \in AllOps : o.wdata # Keep}

=============================================================================
