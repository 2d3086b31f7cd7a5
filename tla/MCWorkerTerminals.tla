------------------------ MODULE MCWorkerTerminals ------------------------
(* WorkerTerminals for TLC: no rule tells two dispatches apart except by   *)
(* what they did, so they are interchangeable.                             *)
EXTENDS WorkerTerminals, TLC

Symmetry == Permutations(Dispatches)

=============================================================================
