---------------------------- MODULE MCRunMailbox ----------------------------
(***************************************************************************)
(* Panes and calls are interchangeable: no definition tells them apart.    *)
(***************************************************************************)
EXTENDS RunMailbox, TLC

Symmetry == Permutations(Panes) \cup Permutations(Calls)
=============================================================================
