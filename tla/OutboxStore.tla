------------------------------ MODULE OutboxStore ------------------------------
(***************************************************************************)
(* The durable Outbox of one account database                              *)
(* (crates/intuigram-store/src/account/outbox).  One worker thread owns    *)
(* the SQLite connection and executes one command at a time, so a command  *)
(* is one action here; a command the code answers with an error changes no *)
(* row and is not an action.  Payload, retained media, attempt count and   *)
(* error text travel with a row and decide nothing: they are left out.     *)
(*                                                                         *)
(* "now" is whatever clock reading the caller passes: it may repeat and it *)
(* may go backwards.                                                       *)
(***************************************************************************)
EXTENDS Integers, FiniteSets

CONSTANTS Ids,         \* row identities the AUTOINCREMENT column may give out
          Times,       \* Unix timestamps
          NoTime,      \* SQL NULL in a timestamp column
          NoRow        \* what stands at an identity that has no row

ASSUME IdsAssumption   == Ids \subseteq Nat \ {0}
ASSUME TimesAssumption == Times \subseteq Int /\ Times # {} /\ NoTime \notin Int

Operations == {"create", "send", "mutation"}

States == {"ready", "in_flight", "cancel_requested", "deferred", "failed",
           "conflict", "outcome_unknown", "expired", "cancelled"}

Row == [operation : Operations, state : States, admitted : Times,
        available : Times \cup {NoTime}, expires : Times \cup {NoTime}]

ASSUME NoRowAssumption == NoRow \notin Row

VARIABLES outbox,      \* the table: a row, or NoRow, for each identity
          nextId       \* the identity the next insertion receives

storeVars == <<outbox, nextId>>

StoreTypeOK == /\ outbox \in [Ids -> Row \cup {NoRow}]
               /\ nextId \in Nat \ {0}

Live(t) == {i \in Ids : t[i] # NoRow}

InState(t, i, states) == i \in Live(t) /\ t[i].state \in states

ActiveStates   == {"in_flight", "cancel_requested"}
RunnableStates == {"ready", "deferred"}
HeldStates     == {"failed", "conflict", "outcome_unknown", "expired", "cancelled"}

Active   == {i \in Ids : InState(outbox, i, ActiveStates)}
Runnable(t) == {i \in Ids : InState(t, i, RunnableStates)}

\* ORDER BY admitted_at, outbox_id
InsertionOrder(t, i, j) == i < j

Precedes(t, i, j) == \/ t[i].admitted < t[j].admitted
                     \/ t[i].admitted = t[j].admitted /\ i < j

IsHead(t, i) == /\ i \in Runnable(t)
                /\ \A j \in Runnable(t) \ {i} : Precedes(t, i, j)

StoreInit == /\ outbox = [i \in Ids |-> NoRow]
             /\ nextId = 1

-------------------------------------------------------------------------------
\* transition::apply writes the state and the availability and nothing else
\* that is modelled.
Moved(row, state, available) == [row EXCEPT !.state = state, !.available = available]

Transition(i, allowed, state, available) ==
    /\ InState(outbox, i, allowed)
    /\ outbox' = [outbox EXCEPT ![i] = Moved(@, state, available)]
    /\ UNCHANGED nextId

Admit(operation, admitted, expires) ==
    /\ nextId \in Ids
    /\ outbox' = [outbox EXCEPT ![nextId] =
                      [operation |-> operation, state |-> "ready", admitted |-> admitted,
                       available |-> NoTime, expires |-> expires]]
    /\ nextId' = nextId + 1

\* UPDATE ... SET state = 'expired' WHERE expires_at <= now: NULL never compares.
Due(i, now) == /\ i \in Runnable(outbox)
               /\ outbox[i].expires # NoTime
               /\ outbox[i].expires <= now

Swept(now) == [i \in Ids |-> IF Due(i, now) THEN Moved(outbox[i], "expired", NoTime)
                             ELSE outbox[i]]

Expire(now) == outbox' = Swept(now) /\ UNCHANGED nextId

\* A deferred head without a time answers every claim with MissingAvailability.
Broken(row) == row.state = "deferred" /\ row.available = NoTime

Waits(row, now) == row.state = "deferred" /\ row.available > now

\* A claim finds the database idle or reports Busy before it expires anything.
ClaimIdle(now) == /\ Active = {}
                  /\ Runnable(Swept(now)) = {}
                  /\ outbox' = Swept(now)
                  /\ UNCHANGED nextId

ClaimWaiting(i, now) == /\ Active = {}
                        /\ IsHead(Swept(now), i)
                        /\ ~Broken(Swept(now)[i]) /\ Waits(Swept(now)[i], now)
                        /\ outbox' = Swept(now)
                        /\ UNCHANGED nextId

ClaimHeadUnchecked(i, now) ==
    /\ IsHead(Swept(now), i)
    /\ ~Broken(Swept(now)[i]) /\ ~Waits(Swept(now)[i], now)
    /\ outbox' = [Swept(now) EXCEPT ![i] = Moved(@, "in_flight", NoTime)]
    /\ UNCHANGED nextId

ClaimHead(i, now) == /\ Active = {}
                     /\ IsHead(Swept(now), i)
                     /\ ~Broken(Swept(now)[i]) /\ ~Waits(Swept(now)[i], now)
                     /\ outbox' = [Swept(now) EXCEPT ![i] = Moved(@, "in_flight", NoTime)]
                     /\ UNCHANGED nextId

-------------------------------------------------------------------------------
Defer(i, available) == Transition(i, {"in_flight"}, "deferred", available)

Fail(i) == Transition(i, {"in_flight"}, "failed", NoTime)

Conflict(i) == Transition(i, {"in_flight"}, "conflict", NoTime)

MarkOutcomeUnknown(i) == Transition(i, ActiveStates, "outcome_unknown", NoTime)

\* confirm_outbox_unsent
ConfirmUnsent(i) == Transition(i, {"cancel_requested"}, "cancelled", NoTime)

\* cancel_outbox
Cancel(i) == \/ Transition(i, RunnableStates, "cancelled", NoTime)
             \/ Transition(i, {"in_flight"}, "cancel_requested", NoTime)

Remove(i, allowed) == /\ InState(outbox, i, allowed)
                      /\ outbox' = [outbox EXCEPT ![i] = NoRow]
                      /\ UNCHANGED nextId

Complete(i) == Remove(i, ActiveStates)

Dismiss(i) == Remove(i, HeldStates)

RetryWithdrawn(i) == /\ InState(outbox, i, {"failed", "expired"})
                     /\ outbox[i].operation # "mutation"
                     /\ Transition(i, {"failed", "expired"}, "ready", NoTime)

\* A mutation is never replayed by a plain retry (Error::UnsafeRetry).
Retry(i) == /\ InState(outbox, i, {"failed"})
            /\ outbox[i].operation # "mutation"
            /\ Transition(i, {"failed"}, "ready", NoTime)

ResolveConflict(i) == Transition(i, {"conflict"}, "ready", NoTime)

ResolveOutcomeUnknown(i) == Transition(i, {"outcome_unknown"}, "ready", NoTime)

SetExpiry(i, expires) ==
    /\ InState(outbox, i, {"ready", "deferred", "failed", "conflict", "outcome_unknown"})
    /\ outbox' = [outbox EXCEPT ![i].expires = expires]
    /\ UNCHANGED nextId

-------------------------------------------------------------------------------
\* Every open of the database runs recover_in_flight before the first command.
RecoveredAlike(row) ==
    IF row # NoRow /\ row.state \in ActiveStates THEN Moved(row, "ready", NoTime) ELSE row

Recovered(row) ==
    CASE row = NoRow -> NoRow
      [] row # NoRow /\ row.state = "cancel_requested" -> Moved(row, "outcome_unknown", NoTime)
      [] row # NoRow /\ row.state = "in_flight" /\ row.operation = "mutation"
             -> Moved(row, "outcome_unknown", NoTime)
      [] row # NoRow /\ row.state = "in_flight" /\ row.operation # "mutation"
             -> Moved(row, "ready", NoTime)
      [] OTHER -> row

Recover == /\ outbox' = [i \in Ids |-> Recovered(outbox[i])]
           /\ UNCHANGED nextId

RebuildFromOne == /\ outbox' = [i \in Ids |-> Recovered(outbox[i])]
                  /\ nextId' = 1

\* A rebuild copies the rows, identities included, into a new database: its
\* AUTOINCREMENT sequence restarts above the largest copied identity.  The new
\* database is then opened like any other.
Rebuild == /\ outbox' = [i \in Ids |-> Recovered(outbox[i])]
           /\ \E n \in 1..nextId : /\ n = 1 \/ n - 1 \in Live(outbox)
                                   /\ \A i \in Live(outbox) : i < n
                                   /\ nextId' = n

UserStep(i) == \/ Cancel(i) \/ Dismiss(i) \/ Retry(i)
               \/ ResolveConflict(i) \/ ResolveOutcomeUnknown(i)

OutcomeStep(i) == \/ \E t \in Times : Defer(i, t)
                  \/ Fail(i) \/ Conflict(i) \/ MarkOutcomeUnknown(i)
                  \/ ConfirmUnsent(i) \/ Complete(i)

ClockStep(now) == \/ Expire(now) \/ ClaimIdle(now)
                  \/ \E i \in Ids : ClaimWaiting(i, now) \/ ClaimHead(i, now)

AdmitStep == \E operation \in Operations, admitted \in Times, expires \in Times \cup {NoTime} :
                 Admit(operation, admitted, expires)

StoreNext == \/ AdmitStep
             \/ \E now \in Times : ClockStep(now)
             \/ \E i \in Ids : UserStep(i) \/ OutcomeStep(i)
             \/ \E i \in Ids, expires \in Times \cup {NoTime} : SetExpiry(i, expires)
             \/ Recover
             \/ Rebuild

StoreSpec == StoreInit /\ [][StoreNext]_storeVars

-------------------------------------------------------------------------------
\* At most one row is claimed or awaiting cancellation, whatever the clock, the
\* user and recovery do: the queue is executed by a single server.
SingleActive == \A i, j \in Active : i = j

\* A row carries a retry time exactly while it is deferred.  claim answers a
\* deferred row without one with MissingAvailability, for ever, and a time left
\* on any other row would be read by the next deferral's observers.
DeferredIffTimed == \A i \in Live(outbox) :
                        outbox[i].state = "deferred" <=> outbox[i].available # NoTime

\* The identity the next admission receives lies above every row still stored,
\* across rebuilds too: an insertion never lands on pending work.
IdentitiesFresh == \A i \in Live(outbox) : i < nextId

\* A mutation that was claimed runs again only after it was deferred unapplied or
\* the user resolved it: no step, a reopen included, makes an active one ready.
InterruptedMutationsHeld ==
    [][\A i \in Active : outbox[i].operation = "mutation"
                            => ~InState(outbox, i, {"ready"})']_storeVars

\* Work that was cancelled or that expired never becomes executable again.
WithdrawnStaysWithdrawn ==
    [][\A i \in Ids : InState(outbox, i, {"expired", "cancelled"})
                         => outbox'[i] = NoRow \/ InState(outbox, i, {"expired", "cancelled"})']_storeVars

\* The table is the single-server queue of OutboxPromise: first in admission
\* order first, one active item, and no way out but acknowledgement or dismissal.
PhaseOf(row) == IF row = NoRow THEN "absent"
                ELSE IF row.state \in ActiveStates THEN "active"
                ELSE IF row.state \in RunnableStates THEN "queued" ELSE "held"

KeyOf(row) == IF row = NoRow THEN CHOOSE t \in Times : TRUE ELSE row.admitted

Promise == INSTANCE OutboxPromise WITH phase <- [i \in Ids |-> PhaseOf(outbox[i])],
                                       key   <- [i \in Ids |-> KeyOf(outbox[i])]

KeepsPromise == Promise!PromiseSpec
================================================================================
