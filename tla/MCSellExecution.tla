---------------------------- MODULE MCSellExecution ----------------------------
(* Small instances of SellExecution for TLC. *)
EXTENDS SellExecution, TLC

\* The first user pays a fee on any gain, the others from the default of 8 %.
MCMinimumProfit == [u \in User |-> IF u = CHOOSE v \in User : TRUE THEN 0 ELSE 8]

\* Sessions are interchangeable.
SessionSymmetry == Permutations(Session)
===============================================================================
