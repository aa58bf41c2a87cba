---------------------------- MODULE MCHostStream ----------------------------
(* The instance of HostStream that TLC checks: bounds of one and two ticks  *)
(* in either order, and a caller that disabled the first-frame bound.       *)
EXTENDS HostStream

MCBudgets ==
  { [first |-> 2, idle |-> 1], [first |-> 1, idle |-> 2],
    [first |-> Infinity, idle |-> 1] }
=============================================================================
