--------------------------- MODULE OptimisticSendsMC ---------------------------
(* Small instances of OptimisticSends. *)
EXTENDS OptimisticSends, TLC

CONSTANTS a, b

MCBodies == {a, b}

BodySymmetry == Permutations(MCBodies)
================================================================================
