---------------------------- MODULE MCPidControl ----------------------------
(* Small instances of PidControl for TLC.                                  *)
EXTENDS PidControl, TLC

Symmetry == Permutations(Pids)
=============================================================================
