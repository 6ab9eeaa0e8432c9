----------------------------- MODULE OutboxStoreMC -----------------------------
(***************************************************************************)
(* Two rows over three timestamps: enough for two rows to compete for the  *)
(* head, to tie on their admission time, to be admitted in an order their  *)
(* timestamps contradict, and for one to expire while the other waits.     *)
(***************************************************************************)
EXTENDS OutboxStore

MCIds   == 1..2
MCTimes == 1..3
================================================================================
