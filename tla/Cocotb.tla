------------------------------- MODULE Cocotb -------------------------------
(***************************************************************************)
(* What the verification environment takes from the simulator and cocotb.  *)
(* A clock edge resumes the tasks that await it.  They run one at a time,  *)
(* in any order, each up to its next await; they read the signals as they  *)
(* were before the edge, and what they write shows after it.  Then run the *)
(* tasks they have resumed in their turn, then those that await ReadOnly,  *)
(* and only then does time go on.                                          *)
(*                                                                         *)
(* A task that would do nothing but await the next edge is not resumed.    *)
(***************************************************************************)
VARIABLES
  rst,     \* reset_int: "z" until the bench drives it, then "0" or "1"
  seen,    \* the signals before the last clock edge
  awake,   \* tasks that an edge has resumed and that have not run yet
  dying,   \* tasks whose handle_reset an edge has resumed, to kill them
  reading  \* tasks that await the ReadOnly phase

cocotbVars == <<rst, seen, awake, dying, reading>>

CocotbInit ==
  /\ rst = "z"
  /\ awake = {} /\ dying = {} /\ reading = {}

EdgeTasksDone == awake = {} /\ dying = {}

\* Task t is next of those the edge resumed.
Resume(t) ==
  /\ t \in awake
  /\ awake' = awake \ {t}

\* Deviation the runs detect: a killed task that runs once more.
KillLeavingAwake(t) ==
  /\ t \in dying
  /\ dying' = dying \ {t}
  /\ UNCHANGED awake

\* handle_reset of t is next: kill() also takes t out of the tasks to run.
Kill(t) ==
  /\ t \in dying
  /\ dying' = dying \ {t}
  /\ awake' = awake \ {t}

=============================================================================
