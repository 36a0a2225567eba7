---------------------------- MODULE MCCommandPath ----------------------------
(* A small instance of CommandPath for TLC: an axis beyond 16 bits, and a  *)
(* code nobody knows.                                                      *)
EXTENDS CommandPath, TLC

MCInputs ==
  {[kind |-> "abs", code |-> "X", value |-> maxInt16 + 1],
   [kind |-> "key", code |-> "other", value |-> 1]}

Symmetry == Permutations(Conns)
=============================================================================
