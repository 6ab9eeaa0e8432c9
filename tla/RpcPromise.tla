------------------------------- MODULE RpcPromise -------------------------------
(***************************************************************************)
(* What an MTProto connection promises the tasks that invoke methods over  *)
(* it: a bounded number of calls wait at a time, each of them gets at most *)
(* one outcome, and a closed connection accepts no further call.           *)
(***************************************************************************)
EXTENDS Naturals, FiniteSets

CONSTANTS Calls, Capacity

VARIABLES open,   \* the connection accepts calls
          stage   \* of each call: idle, waiting, settled, refused or dropped

promiseVars == <<open, stage>>

Waiting == {c \in Calls : stage[c] = "waiting"}

PromiseInit == open = TRUE /\ stage = [c \in Calls |-> "idle"]

\* A call is accepted; one that was told to come back later asks again.
Accept(c) == /\ open /\ stage[c] \in {"idle", "settled"}
             /\ Cardinality(Waiting) < Capacity
             /\ stage' = [stage EXCEPT ![c] = "waiting"] /\ UNCHANGED open

Refuse(c) == /\ stage[c] \in {"idle", "settled"}
             /\ open => Cardinality(Waiting) >= Capacity
             /\ stage' = [stage EXCEPT ![c] = "refused"] /\ UNCHANGED open

Settle(c) == /\ stage[c] = "waiting"
             /\ stage' = [stage EXCEPT ![c] = "settled"] /\ UNCHANGED open

Abandon(c) == /\ stage[c] \in {"waiting", "settled"}
              /\ stage' = [stage EXCEPT ![c] = "dropped"] /\ UNCHANGED open

\* Closing settles calls; those it leaves waiting are settled later.
Close == /\ open' = FALSE
         /\ \E S \in SUBSET Waiting :
                stage' = [c \in Calls |-> IF c \in S THEN "settled" ELSE stage[c]]

PromiseNext == \/ \E c \in Calls : Accept(c) \/ Refuse(c) \/ Settle(c) \/ Abandon(c)
               \/ Close

PromiseSpec == PromiseInit /\ [][PromiseNext]_promiseVars
=================================================================================
