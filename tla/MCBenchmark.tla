---------------------------- MODULE MCBenchmark ----------------------------
(* Small instances of Benchmark for TLC.                                   *)
EXTENDS Benchmark, TLC

Symmetry == Permutations(Controllers) \union Permutations(Tids)
=============================================================================
