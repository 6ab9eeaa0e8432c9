--------------------------- MODULE ConnectionDriverMC ---------------------------
(***************************************************************************)
(* A small instance of ConnectionDriver: two calls, one of which waits     *)
(* through a flood, and a third that is too large, over two places.        *)
(***************************************************************************)
EXTENDS ConnectionDriver
=================================================================================
