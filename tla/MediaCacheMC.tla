------------------------------ MODULE MediaCacheMC ------------------------------
(***************************************************************************)
(* A small instance of MediaCache: an avatar and a message with a picture  *)
(* and an original, two effects at once, and room for one entry.           *)
(***************************************************************************)
EXTENDS MediaCache, TLC

Interchangeable == Permutations(Workers)
=================================================================================
