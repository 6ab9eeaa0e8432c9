----------------------------- MODULE OutboxPromise -----------------------------
(***************************************************************************)
(* What the durable Outbox promises, with none of its columns: a single    *)
(* server of a queue ordered by admission.  An item is queued until it is  *)
(* the only active item, the one active item is acknowledged, put back or  *)
(* set aside for the user, and an item leaves only by acknowledgement or   *)
(* by the user's dismissal of an item that was set aside.                  *)
(*                                                                         *)
(* CONTEXT.md:87 calls the Outbox "Durable FIFO" storage in which work     *)
(* "stays there until acknowledgement or user resolution".  OutboxStore    *)
(* implements this module.                                                 *)
(***************************************************************************)
EXTENDS Integers

CONSTANTS Ids,      \* identities an item may have
          Times     \* admission timestamps

VARIABLES phase,    \* where each item is
          key       \* the admission timestamp of each item

promiseVars == <<phase, key>>

Phases == {"absent", "queued", "active", "held"}

PromiseTypeOK == /\ phase \in [Ids -> Phases]
                 /\ key \in [Ids -> Times]

Queued == {i \in Ids : phase[i] = "queued"}

\* Admission order: the timestamp first, the identity on equal timestamps.
Before(i, j) == key[i] < key[j] \/ (key[i] = key[j] /\ i < j)

NoneActive == \A i \in Ids : phase[i] # "active"

PromiseInit == /\ phase = [i \in Ids |-> "absent"]
               /\ key \in [Ids -> Times]

\* The key of an item that is absent means nothing: it may change with the item.
Rekey(i) == \E t \in Times : key' = [key EXCEPT ![i] = t]

Move(i, from, to) == /\ phase[i] = from
                     /\ phase' = [phase EXCEPT ![i] = to]

\* A new item joins the queue at the place its timestamp gives it.
Enqueue(i) == Move(i, "absent", "queued") /\ Rekey(i)

\* The first queued item starts, once the items in "gone" have been set aside.
Start(i, gone) ==
    /\ NoneActive
    /\ i \in Queued \ gone
    /\ \A j \in Queued \ (gone \cup {i}) : Before(i, j)
    /\ phase' = [j \in Ids |-> IF j = i THEN "active"
                               ELSE IF j \in gone THEN "held" ELSE phase[j]]
    /\ UNCHANGED key

SetAside(gone) == /\ phase' = [j \in Ids |-> IF j \in gone THEN "held" ELSE phase[j]]
                  /\ UNCHANGED key

PutBack(i) == Move(i, "active", "queued") /\ UNCHANGED key
Hold(i)    == Move(i, "active", "held")   /\ UNCHANGED key
Release(i) == Move(i, "held", "queued")   /\ UNCHANGED key

\* An item leaves acknowledged (it was active) or dismissed (it was held).
Leave(i) == /\ Move(i, "active", "absent") \/ Move(i, "held", "absent")
            /\ Rekey(i)

PromiseNext == \/ \E i \in Ids : \/ Enqueue(i) \/ PutBack(i) \/ Hold(i)
                                 \/ Release(i) \/ Leave(i)
               \/ \E gone \in SUBSET Queued :
                      SetAside(gone) \/ \E i \in Queued : Start(i, gone)

PromiseSpec == PromiseInit /\ [][PromiseNext]_promiseVars
================================================================================
