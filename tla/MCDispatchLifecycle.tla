------------------------- MODULE MCDispatchLifecycle -------------------------
(***************************************************************************)
(* Small instances of DispatchLifecycle.  h1 and h1b are terminal handles: *)
(* h1b is h1 reminted, so both name the pane p1.                           *)
(***************************************************************************)
EXTENDS DispatchLifecycle, TLC

CONSTANTS h1, h1b, p1, t1, t2, t3, g1, g2, q1

OnePane     == h1 :> p1
RemintPanes == (h1 :> p1) @@ (h1b :> p1)

TaskSymmetry == Permutations(Tasks)
==============================================================================
