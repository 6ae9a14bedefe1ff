----------------------------- MODULE MCDispatch -----------------------------
(* Small instances of Dispatch for TLC.                                    *)
EXTENDS Dispatch, TLC

Symmetry == Permutations(Controllers) \union Permutations(Tids)
=============================================================================
