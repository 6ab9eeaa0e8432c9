--------------------------- MODULE OutboxExecutionMC ---------------------------
(***************************************************************************)
(* Two items: one ahead of the other in the queue, or one whose place is   *)
(* taken again.  A send has two parts, so that one can land without the    *)
(* other.                                                                  *)
(***************************************************************************)
EXTENDS OutboxExecution, TLC

MCIds   == 1..2
MCTimes == 0..MaxTime
Mixed   == {"send", "mutation"}
MCDelays == {2}
================================================================================
