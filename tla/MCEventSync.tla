--------------------------- MODULE MCEventSync ---------------------------
(* Model-checking instance of EventSync: the constants of each run are in  *)
(* its .cfg; requests and activations are interchangeable.                 *)
EXTENDS EventSync, TLC

Symmetry == Permutations(Requests) \cup Permutations(Activations)
==========================================================================
