-------------------------- MODULE AccountFilesMC --------------------------
(* Instances of AccountFiles for TLC. *)
EXTENDS AccountFiles, TLC

CONSTANTS l1, l2

MCLoaders == {l1, l2}

LoaderSymmetry == Permutations(MCLoaders)
=============================================================================
