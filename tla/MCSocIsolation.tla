--------------------------- MODULE MCSocIsolation ---------------------------
(* Instances of SocIsolation for TLC: two initiators, two or three          *)
(* subsystems, one access per subsystem.                                    *)
EXTENDS SocIsolation

Reads == {[we |-> FALSE, addr |-> k, wdata |-> 0] : k \in Subsystems}

=============================================================================
