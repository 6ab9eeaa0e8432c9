------------------------ MODULE AccountLifecycleMC ------------------------
(* Instances of AccountLifecycle for TLC. *)
EXTENDS AccountLifecycle, TLC

Interchangeable == Permutations(Accounts) \cup Permutations(Loaders)

\* A run is not followed beyond the step that overtakes a loading thread: the
\* properties leave the account out from there on.
Followed == outlived = {}
=============================================================================
