------------------------- MODULE OutboxExecutionProofs -------------------------
(***************************************************************************)
(* Proofs about OutboxStore, for any set of identities and of timestamps,  *)
(* and about OutboxExecution, which extends it, for any items, parts,      *)
(* delays, faults and decisions: it is well typed; every step of the       *)
(* coordinator, of the lane and of the session is a command of OutboxStore *)
(* or leaves the table alone; a mutation takes effect at most once; an     *)
(* item leaves the Outbox only applied in every part or dismissed by the   *)
(* user; a recorded cancellation is not undone; and an admitted row is     *)
(* still there when the lane looks for it.                                 *)
(*                                                                         *)
(* At most once has two halves.  What is shown, held or on its way always  *)
(* names an item that was admitted, with the operation it was admitted     *)
(* with: therefore the user decides about sends only, and the coordinator  *)
(* decides about a mutation as a mutation.  And a mutation whose row may   *)
(* be claimed again has no request on the wire and has not taken effect.   *)
(*                                                                         *)
(* For the end of an item: the coordinator acknowledges parts in order,    *)
(* and an acknowledged part has landed: nothing but landing or a refusal   *)
(* takes a request off the wire, and a refusal ends the attempt.           *)
(***************************************************************************)
EXTENDS OutboxExecution, TLAPS

-------------------------------------------------------------------------------
(* The table, with any one command of the store after another.            *)


\* The inductive invariant: an insertion keeps the type and the single server
\* only because its identity is fresh, so freshness belongs to it.
StoreInv == StoreTypeOK /\ SingleActive /\ DeferredIffTimed /\ IdentitiesFresh

\* The sweep keeps every row and every column but the two it writes, and only
\* queued rows change: into expired ones.
LEMMA SweptRows ==
    ASSUME StoreTypeOK, NEW moment \in Times
    PROVE  /\ Swept(moment) \in [Ids -> Row \cup {NoRow}]
           /\ Live(Swept(moment)) = Live(outbox)
           /\ \A i \in Ids :
                 \/ Swept(moment)[i] = outbox[i]
                 \/ /\ i \in Runnable(outbox)
                    /\ Swept(moment)[i] # NoRow
                    /\ Swept(moment)[i].state = "expired"
                    /\ Swept(moment)[i].available = NoTime
                    /\ Swept(moment)[i].admitted = outbox[i].admitted
                    /\ Swept(moment)[i].operation = outbox[i].operation
<1>1. ASSUME NEW i \in Ids, Due(i, moment)
      PROVE  /\ Moved(outbox[i], "expired", NoTime) \in Row
             /\ i \in Runnable(outbox)
             /\ Moved(outbox[i], "expired", NoTime).state = "expired"
             /\ Moved(outbox[i], "expired", NoTime).available = NoTime
             /\ Moved(outbox[i], "expired", NoTime).admitted = outbox[i].admitted
             /\ Moved(outbox[i], "expired", NoTime).operation = outbox[i].operation
  <2>1. outbox[i] \in Row
    BY <1>1 DEF Due, Runnable, InState, Live, StoreTypeOK
  <2>2. "expired" \in States /\ NoTime \in Times \cup {NoTime}
    BY DEF States
  <2>3. i \in Runnable(outbox)
    BY <1>1 DEF Due
  <2> QED BY <2>1, <2>3 DEF Moved, Row, States
<1>2. ASSUME NEW i \in Ids
      PROVE  Swept(moment)[i] = IF Due(i, moment) THEN Moved(outbox[i], "expired", NoTime)
                             ELSE outbox[i]
  BY DEF Swept
<1>3. Swept(moment) \in [Ids -> Row \cup {NoRow}]
  BY <1>1 DEF Swept, StoreTypeOK
<1>4. \A i \in Ids : Due(i, moment) => outbox[i] # NoRow
  BY DEF Due, Runnable, InState, Live
<1>5. Live(Swept(moment)) = Live(outbox)
  BY <1>1, <1>2, <1>4, NoRowAssumption DEF Live
<1> QED BY <1>1, <1>2, <1>3, <1>5, NoRowAssumption

\* What recovery makes of a row: an interrupted one leaves the active states.
LEMMA RecoveredRow ==
    ASSUME NEW row \in Row
    PROVE  /\ Recovered(row) \in Row
           /\ Recovered(row).state \notin ActiveStates
           /\ Recovered(row).admitted = row.admitted
           /\ \/ Recovered(row) = row
              \/ /\ row.state \in ActiveStates
                 /\ Recovered(row).available = NoTime
                 /\ Recovered(row).state \in {"ready", "outcome_unknown"}
                 /\ row.operation = "mutation" => Recovered(row).state = "outcome_unknown"
<1>1. row # NoRow
  BY NoRowAssumption
<1>2. NoTime \in Times \cup {NoTime} /\ "outcome_unknown" \in States /\ "ready" \in States
  BY DEF States
<1>3. CASE row.state = "cancel_requested"
  <2>1. Recovered(row) = Moved(row, "outcome_unknown", NoTime)
    BY <1>1, <1>3 DEF Recovered
  <2> QED BY <1>2, <1>3, <2>1 DEF ActiveStates, Moved, Row, States
<1>4. CASE row.state = "in_flight" /\ row.operation = "mutation"
  <2>1. Recovered(row) = Moved(row, "outcome_unknown", NoTime)
    BY <1>1, <1>4 DEF Recovered
  <2> QED BY <1>2, <1>4, <2>1 DEF ActiveStates, Moved, Row, States
<1>5. CASE row.state = "in_flight" /\ row.operation # "mutation"
  <2>1. Recovered(row) = Moved(row, "ready", NoTime)
    BY <1>1, <1>5 DEF Recovered
  <2> QED BY <1>2, <1>5, <2>1 DEF ActiveStates, Moved, Row, States
<1>6. CASE row.state \notin ActiveStates
  <2>1. Recovered(row) = row
    BY <1>1, <1>6 DEF Recovered, ActiveStates
  <2> QED BY <1>6, <2>1
<1> QED BY <1>3, <1>4, <1>5, <1>6 DEF ActiveStates

-------------------------------------------------------------------------------
\* How one command may change the state column of the row it finds: the edges
\* of the lifecycle, an operation's replay category included.
Edge(from, to, operation) ==
    \/ from = to
    \/ from \in RunnableStates /\ to \in {"in_flight", "cancelled", "expired"}
    \/ from = "in_flight" /\ to \in {"cancel_requested", "deferred", "failed", "conflict",
                                     "outcome_unknown"}
    \/ from = "in_flight" /\ to = "ready" /\ operation # "mutation"
    \/ from = "cancel_requested" /\ to \in {"cancelled", "outcome_unknown"}
    \/ from \in {"failed", "conflict", "outcome_unknown"} /\ to = "ready"

LEMMA TransitionRow ==
    ASSUME StoreTypeOK, NEW j \in Ids, NEW allowed, NEW to \in States,
           NEW available \in Times \cup {NoTime}, Transition(j, allowed, to, available)
    PROVE  \A i \in Live(outbox) :
              \/ outbox'[i] = outbox[i]
              \/ outbox[i].state \in allowed /\ outbox'[i].state = to
<1>1. /\ outbox[j] \in Row /\ outbox[j].state \in allowed
      /\ outbox \in [Ids -> Row \cup {NoRow}]
      /\ outbox' = [outbox EXCEPT ![j] = Moved(@, to, available)]
  BY DEF Transition, InState, Live, StoreTypeOK
<1>2. outbox'[j].state = to
  BY <1>1 DEF Moved, Row
<1>3. \A i \in Live(outbox) : i \in Ids /\ (i # j => outbox'[i] = outbox[i])
  BY <1>1 DEF Live
<1> QED BY <1>1, <1>2, <1>3

LEMMA RemoveRow ==
    ASSUME StoreTypeOK, NEW j \in Ids, NEW allowed, Remove(j, allowed)
    PROVE  \A i \in Live(outbox) : outbox'[i] = outbox[i] \/ outbox'[i] = NoRow
BY DEF Remove, Live, StoreTypeOK

LEMMA UserEdge ==
    ASSUME StoreTypeOK, NEW i \in Live(outbox), NEW j \in Ids, UserStep(j),
           outbox'[i] # NoRow
    PROVE  Edge(outbox[i].state, outbox'[i].state, outbox[i].operation)
<1>1. CASE Cancel(j)
  <2>1. "cancelled" \in States /\ "cancel_requested" \in States
    BY DEF States
  <2>2. CASE Transition(j, RunnableStates, "cancelled", NoTime)
    <3>1. \/ outbox'[i] = outbox[i]
          \/ outbox[i].state \in RunnableStates /\ outbox'[i].state = "cancelled"
      BY <2>1, <2>2, TransitionRow
    <3> QED BY <3>1 DEF Edge
  <2>3. CASE Transition(j, {"in_flight"}, "cancel_requested", NoTime)
    <3>1. \/ outbox'[i] = outbox[i]
          \/ outbox[i].state \in {"in_flight"} /\ outbox'[i].state = "cancel_requested"
      BY <2>1, <2>3, TransitionRow
    <3> QED BY <3>1 DEF Edge
  <2> QED BY <1>1, <2>2, <2>3 DEF Cancel
<1>2. CASE Dismiss(j)
  BY <1>2, RemoveRow DEF Dismiss, Edge
<1>3. CASE Retry(j)
  <2>1. "ready" \in States
    BY DEF States
  <2>2. \/ outbox'[i] = outbox[i]
        \/ outbox[i].state \in {"failed"} /\ outbox'[i].state = "ready"
    BY <1>3, <2>1, TransitionRow DEF Retry
  <2> QED BY <2>2 DEF Edge
<1>4. CASE ResolveConflict(j)
  <2>1. "ready" \in States
    BY DEF States
  <2>2. \/ outbox'[i] = outbox[i]
        \/ outbox[i].state \in {"conflict"} /\ outbox'[i].state = "ready"
    BY <1>4, <2>1, TransitionRow DEF ResolveConflict
  <2> QED BY <2>2 DEF Edge
<1>5. CASE ResolveOutcomeUnknown(j)
  <2>1. "ready" \in States
    BY DEF States
  <2>2. \/ outbox'[i] = outbox[i]
        \/ outbox[i].state \in {"outcome_unknown"} /\ outbox'[i].state = "ready"
    BY <1>5, <2>1, TransitionRow DEF ResolveOutcomeUnknown
  <2> QED BY <2>2 DEF Edge
<1> QED BY <1>1, <1>2, <1>3, <1>4, <1>5 DEF UserStep

LEMMA OutcomeEdge ==
    ASSUME StoreTypeOK, NEW i \in Live(outbox), NEW j \in Ids, OutcomeStep(j),
           outbox'[i] # NoRow
    PROVE  Edge(outbox[i].state, outbox'[i].state, outbox[i].operation)
<1>1. ASSUME NEW t \in Times, Defer(j, t)
      PROVE  Edge(outbox[i].state, outbox'[i].state, outbox[i].operation)
  <2>1. "deferred" \in States
    BY DEF States
  <2>2. Transition(j, {"in_flight"}, "deferred", t)
    BY <1>1 DEF Defer
  <2>3. \/ outbox'[i] = outbox[i]
        \/ outbox[i].state \in {"in_flight"} /\ outbox'[i].state = "deferred"
    BY <1>1, <2>1, <2>2, TransitionRow
  <2> QED BY <2>3 DEF Edge
<1>2. CASE Fail(j)
  <2>1. "failed" \in States
    BY DEF States
  <2>2. \/ outbox'[i] = outbox[i]
        \/ outbox[i].state \in {"in_flight"} /\ outbox'[i].state = "failed"
    BY <1>2, <2>1, TransitionRow DEF Fail
  <2> QED BY <2>2 DEF Edge
<1>3. CASE Conflict(j)
  <2>1. "conflict" \in States
    BY DEF States
  <2>2. \/ outbox'[i] = outbox[i]
        \/ outbox[i].state \in {"in_flight"} /\ outbox'[i].state = "conflict"
    BY <1>3, <2>1, TransitionRow DEF Conflict
  <2> QED BY <2>2 DEF Edge
<1>4. CASE MarkOutcomeUnknown(j)
  <2>1. "outcome_unknown" \in States
    BY DEF States
  <2>2. \/ outbox'[i] = outbox[i]
        \/ outbox[i].state \in ActiveStates /\ outbox'[i].state = "outcome_unknown"
    BY <1>4, <2>1, TransitionRow DEF MarkOutcomeUnknown
  <2> QED BY <2>2 DEF Edge, ActiveStates
<1>5. CASE ConfirmUnsent(j)
  <2>1. "cancelled" \in States
    BY DEF States
  <2>2. \/ outbox'[i] = outbox[i]
        \/ outbox[i].state \in {"cancel_requested"} /\ outbox'[i].state = "cancelled"
    BY <1>5, <2>1, TransitionRow DEF ConfirmUnsent
  <2> QED BY <2>2 DEF Edge
<1>6. CASE Complete(j)
  BY <1>6, RemoveRow DEF Complete, Edge
<1> QED BY <1>1, <1>2, <1>3, <1>4, <1>5, <1>6 DEF OutcomeStep

LEMMA EdgeStep ==
    ASSUME StoreInv, [StoreNext]_storeVars, NEW i \in Live(outbox), outbox'[i] # NoRow
    PROVE  Edge(outbox[i].state, outbox'[i].state, outbox[i].operation)
<1>1. /\ StoreTypeOK /\ i \in Ids /\ outbox[i] \in Row /\ outbox[i] # NoRow
      /\ outbox \in [Ids -> Row \cup {NoRow}]
      /\ NoTime \in Times \cup {NoTime}
  BY DEF StoreInv, StoreTypeOK, Live
<1> DEFINE op == outbox[i].operation
<1>10. /\ \A from \in RunnableStates : Edge(from, "cancelled", op)
       /\ \A from \in {"failed", "conflict", "outcome_unknown"} : Edge(from, "ready", op)
       /\ \A to \in {"cancel_requested", "deferred", "failed", "conflict"} : Edge("in_flight", to, op)
       /\ \A from \in ActiveStates : Edge(from, "outcome_unknown", op)
       /\ Edge("cancel_requested", "cancelled", op)
       /\ \A from \in RunnableStates : Edge(from, "in_flight", op) /\ Edge(from, "expired", op)
       /\ \A from : Edge(from, from, op)
  BY DEF Edge, ActiveStates
<1>2. CASE AdmitStep
  <2>1. i # nextId
    BY <1>1, IdsAssumption DEF StoreInv, IdentitiesFresh, StoreTypeOK
  <2>2. outbox'[i] = outbox[i]
    BY <1>1, <1>2, <2>1 DEF AdmitStep, Admit
  <2> QED BY <1>10, <2>2
<1>3. ASSUME NEW moment \in Times, ClockStep(moment)
      PROVE  Edge(outbox[i].state, outbox'[i].state, outbox[i].operation)
  <2>1. \/ Swept(moment)[i] = outbox[i]
        \/ outbox[i].state \in RunnableStates /\ Swept(moment)[i].state = "expired"
    BY <1>1, SweptRows DEF Runnable, InState
  <2>2. CASE outbox' = Swept(moment)
    BY <1>10, <2>1, <2>2
  <2>3. ASSUME NEW j \in Ids, ClaimHead(j, moment)
        PROVE  Edge(outbox[i].state, outbox'[i].state, outbox[i].operation)
    <3>1. /\ j \in Runnable(Swept(moment))
          /\ Swept(moment) \in [Ids -> Row \cup {NoRow}]
          /\ outbox' = [Swept(moment) EXCEPT ![j] = Moved(@, "in_flight", NoTime)]
      BY <1>1, <2>3, SweptRows DEF ClaimHead, IsHead
    <3>2. CASE i # j
      BY <1>1, <1>10, <2>1, <3>1, <3>2
    <3>3. CASE i = j
      <4>1. Swept(moment)[i] \in Row /\ Swept(moment)[i].state \in RunnableStates
        BY <3>1, <3>3 DEF Runnable, InState, Live
      <4>3. "expired" \notin RunnableStates
        BY DEF RunnableStates
      <4>2. outbox'[i].state = "in_flight"
        BY <1>1, <3>1, <3>3, <4>1 DEF Moved, Row
      <4> QED BY <1>10, <2>1, <4>1, <4>2, <4>3
    <3> QED BY <3>2, <3>3
  <2> QED BY <1>3, <2>2, <2>3 DEF ClockStep, Expire, ClaimIdle, ClaimWaiting
<1>4. ASSUME NEW j \in Ids, UserStep(j)
      PROVE  Edge(outbox[i].state, outbox'[i].state, outbox[i].operation)
  BY <1>1, <1>4, UserEdge
<1>5. ASSUME NEW j \in Ids, OutcomeStep(j)
      PROVE  Edge(outbox[i].state, outbox'[i].state, outbox[i].operation)
  BY <1>1, <1>5, OutcomeEdge
<1>6. ASSUME NEW j \in Ids, NEW expires \in Times \cup {NoTime}, SetExpiry(j, expires)
      PROVE  Edge(outbox[i].state, outbox'[i].state, outbox[i].operation)
  <2>1. outbox'[i].state = outbox[i].state
    BY <1>1, <1>6 DEF SetExpiry, Row
  <2> QED BY <1>10, <2>1
<1>7. CASE Recover \/ Rebuild
  <2>1. outbox'[i] = Recovered(outbox[i])
    BY <1>1, <1>7 DEF Recover, Rebuild
  <2>2. outbox[i].state \in ActiveStates => outbox[i].state \in {"in_flight", "cancel_requested"}
    BY DEF ActiveStates
  <2>3. \/ outbox'[i] = outbox[i]
        \/ /\ outbox[i].state \in ActiveStates
           /\ outbox'[i].state = "outcome_unknown"
        \/ outbox[i].state = "in_flight" /\ op # "mutation" /\ outbox'[i].state = "ready"
    BY <1>1, <2>1 DEF Recovered, Moved, Row, ActiveStates
  <2> QED BY <1>10, <2>3 DEF Edge
<1>8. CASE UNCHANGED storeVars
  BY <1>8, <1>10 DEF storeVars
<1> QED BY <1>2, <1>3, <1>4, <1>5, <1>6, <1>7, <1>8 DEF StoreNext

-------------------------------------------------------------------------------
USE IdsAssumption, TimesAssumption, NoRowAssumption

\* A transition that keeps availability to deferred rows, and activates only
\* what was active, keeps the invariant.
LEMMA TransitionInv ==
    ASSUME StoreInv, NEW i \in Ids, NEW allowed, NEW state \in States,
           NEW available \in Times \cup {NoTime},
           state = "deferred" <=> available # NoTime,
           state \in ActiveStates => allowed \subseteq ActiveStates,
           Transition(i, allowed, state, available)
    PROVE  StoreInv'
<1>1. /\ outbox[i] \in Row /\ outbox[i] # NoRow /\ outbox[i].state \in allowed
      /\ outbox \in [Ids -> Row \cup {NoRow}]
      /\ outbox' = [outbox EXCEPT ![i] = Moved(@, state, available)]
      /\ nextId' = nextId
  BY DEF Transition, InState, Live, StoreInv, StoreTypeOK
<1>2. /\ outbox'[i] \in Row
      /\ outbox'[i] # NoRow
      /\ outbox'[i].state = state
      /\ outbox'[i].available = available
      /\ \A j \in Ids \ {i} : outbox'[j] = outbox[j]
  BY <1>1 DEF Moved, Row
<1>3. StoreTypeOK'
  BY <1>1, <1>2 DEF StoreInv, StoreTypeOK
<1>4. Live(outbox') = Live(outbox)
  BY <1>1, <1>2 DEF Live
<1>5. Active' \subseteq Active
  BY <1>1, <1>2, <1>4 DEF Active, InState, Live
<1>6. SingleActive'
  BY <1>5 DEF SingleActive, StoreInv
<1>7. DeferredIffTimed'
  BY <1>1, <1>2, <1>4 DEF DeferredIffTimed, StoreInv, Live
<1>8. IdentitiesFresh'
  BY <1>1, <1>4 DEF IdentitiesFresh, StoreInv
<1> QED BY <1>3, <1>6, <1>7, <1>8 DEF StoreInv

LEMMA RemoveInv ==
    ASSUME StoreInv, NEW i \in Ids, NEW allowed, Remove(i, allowed)
    PROVE  StoreInv'
<1>1. /\ outbox' = [outbox EXCEPT ![i] = NoRow]
      /\ nextId' = nextId
      /\ outbox \in [Ids -> Row \cup {NoRow}]
  BY DEF Remove, StoreInv, StoreTypeOK
<1>2. outbox'[i] = NoRow /\ \A j \in Ids \ {i} : outbox'[j] = outbox[j]
  BY <1>1
<1>3. StoreTypeOK'
  BY <1>1 DEF StoreInv, StoreTypeOK
<1>4. Live(outbox') \subseteq Live(outbox) \ {i}
  BY <1>2 DEF Live
<1>5. Active' \subseteq Active
  BY <1>2, <1>4 DEF Active, InState
<1>6. SingleActive'
  BY <1>5 DEF SingleActive, StoreInv
<1>7. DeferredIffTimed'
  BY <1>2, <1>4 DEF DeferredIffTimed, StoreInv, Live
<1>8. IdentitiesFresh'
  BY <1>1, <1>4 DEF IdentitiesFresh, StoreInv
<1> QED BY <1>3, <1>6, <1>7, <1>8 DEF StoreInv

LEMMA AdmitInv ==
    ASSUME StoreInv, AdmitStep
    PROVE  StoreInv'
<1>1. PICK operation \in Operations, admitted \in Times, expires \in Times \cup {NoTime} :
          Admit(operation, admitted, expires)
  BY DEF AdmitStep
<1> DEFINE new == [operation |-> operation, state |-> "ready", admitted |-> admitted,
                   available |-> NoTime, expires |-> expires]
<1>2. /\ nextId \in Ids /\ nextId' = nextId + 1 /\ nextId \in Nat \ {0}
      /\ outbox \in [Ids -> Row \cup {NoRow}]
      /\ outbox' = [outbox EXCEPT ![nextId] = new]
  BY <1>1 DEF Admit, StoreInv, StoreTypeOK
<1>3. new \in Row
  BY DEF Row, States
<1>4. /\ outbox'[nextId] = new
      /\ \A j \in Ids \ {nextId} : outbox'[j] = outbox[j]
  BY <1>2
<1>5. StoreTypeOK'
  BY <1>2, <1>3 DEF StoreTypeOK
<1>6. Live(outbox') = Live(outbox) \cup {nextId}
  BY <1>2, <1>3, <1>4 DEF Live
<1>7. nextId \notin Active'
  BY <1>4 DEF Active, InState, ActiveStates
<1>8. Active' \subseteq Active
  BY <1>4, <1>6, <1>7 DEF Active, InState
<1>9. SingleActive'
  BY <1>8 DEF SingleActive, StoreInv
<1>10. DeferredIffTimed'
  BY <1>4, <1>6 DEF DeferredIffTimed, StoreInv, Live
<1>11. IdentitiesFresh'
  <2> SUFFICES ASSUME NEW j \in Live(outbox')
               PROVE  j < nextId'
    BY DEF IdentitiesFresh
  <2>1. CASE j = nextId
    BY <2>1, <1>2
  <2>2. CASE j \in Live(outbox)
    <3>1. j < nextId /\ j \in Nat
      BY <2>2 DEF IdentitiesFresh, StoreInv, Live
    <3> QED BY <3>1, <1>2
  <2> QED BY <1>6, <2>1, <2>2
<1> QED BY <1>5, <1>9, <1>10, <1>11 DEF StoreInv

\* A step that leaves the table swept, and perhaps claims one row of it.
LEMMA SweepInv ==
    ASSUME StoreInv, NEW moment \in Times, outbox' = Swept(moment), nextId' = nextId
    PROVE  StoreInv'
<1>1. StoreTypeOK
  BY DEF StoreInv
<1>2. StoreTypeOK'
  BY <1>1, SweptRows DEF StoreTypeOK
<1>3. Live(outbox') = Live(outbox)
  BY <1>1, SweptRows
<1>4. Active' \subseteq Active
  BY <1>1, <1>3, SweptRows DEF Active, InState, ActiveStates
<1>5. SingleActive'
  BY <1>4 DEF SingleActive, StoreInv
<1>6. DeferredIffTimed'
  BY <1>1, <1>3, SweptRows DEF DeferredIffTimed, StoreInv, Live
<1>7. IdentitiesFresh'
  BY <1>3 DEF IdentitiesFresh, StoreInv
<1> QED BY <1>2, <1>5, <1>6, <1>7 DEF StoreInv

LEMMA ClaimHeadInv ==
    ASSUME StoreInv, NEW moment \in Times, NEW i \in Ids, ClaimHead(i, moment)
    PROVE  StoreInv'
<1> DEFINE t == Swept(moment)
<1>1. /\ StoreTypeOK
      /\ Active = {}
      /\ i \in Runnable(t)
      /\ outbox' = [t EXCEPT ![i] = Moved(@, "in_flight", NoTime)]
      /\ nextId' = nextId
  BY DEF ClaimHead, StoreInv, IsHead
<1>2. /\ t \in [Ids -> Row \cup {NoRow}] /\ Live(t) = Live(outbox)
      /\ t[i] \in Row /\ t[i] # NoRow
  <2>1. t \in [Ids -> Row \cup {NoRow}] /\ Live(t) = Live(outbox)
    BY <1>1, SweptRows
  <2> HIDE DEF t
  <2>2. t[i] # NoRow
    BY <1>1 DEF Runnable, InState, Live
  <2> QED BY <2>1, <2>2
<1>3. /\ outbox'[i] \in Row
      /\ outbox'[i].state = "in_flight"
      /\ outbox'[i].available = NoTime
      /\ \A j \in Ids \ {i} : outbox'[j] = t[j]
  BY <1>1, <1>2 DEF Moved, Row, States
<1>4. StoreTypeOK'
  BY <1>1, <1>2, <1>3 DEF StoreTypeOK
<1>5. Live(outbox') = Live(outbox)
  BY <1>2, <1>3 DEF Live
<1>6. Active' \subseteq {i}
  <2> SUFFICES ASSUME NEW j \in Active', j # i
               PROVE  FALSE
    OBVIOUS
  <2>1. j \in Ids /\ outbox'[j] = t[j] /\ outbox'[j].state \in ActiveStates /\ t[j] # NoRow
    BY <1>3 DEF Active, InState, Live
  <2>2. t[j] = outbox[j]
    BY <1>1, <2>1, SweptRows DEF ActiveStates
  <2> QED BY <1>1, <2>1, <2>2 DEF Active, InState, Live
<1>7. SingleActive'
  BY <1>6 DEF SingleActive
<1>8. DeferredIffTimed'
  <2> SUFFICES ASSUME NEW j \in Live(outbox')
               PROVE  outbox'[j].state = "deferred" <=> outbox'[j].available # NoTime
    BY DEF DeferredIffTimed
  <2>1. CASE j = i
    BY <1>3, <2>1
  <2>2. CASE j # i
    <3>1. j \in Ids /\ outbox'[j] = t[j] /\ j \in Live(outbox)
      BY <1>3, <1>5, <2>2 DEF Live
    <3>2. \/ t[j] = outbox[j]
          \/ t[j].state = "expired" /\ t[j].available = NoTime
      BY <1>1, <3>1, SweptRows
    <3> HIDE DEF t
    <3> QED BY <3>1, <3>2 DEF DeferredIffTimed, StoreInv
  <2> QED BY <2>1, <2>2
<1>9. IdentitiesFresh'
  BY <1>1, <1>5 DEF IdentitiesFresh, StoreInv
<1> QED BY <1>4, <1>7, <1>8, <1>9 DEF StoreInv

LEMMA SetExpiryInv ==
    ASSUME StoreInv, NEW i \in Ids, NEW expires \in Times \cup {NoTime},
           SetExpiry(i, expires)
    PROVE  StoreInv'
<1>1. /\ outbox \in [Ids -> Row \cup {NoRow}]
      /\ outbox[i] \in Row /\ outbox[i] # NoRow
      /\ outbox' = [outbox EXCEPT ![i].expires = expires]
      /\ nextId' = nextId
  BY DEF SetExpiry, InState, Live, StoreInv, StoreTypeOK
<1>2. /\ outbox'[i] \in Row
      /\ outbox'[i].state = outbox[i].state
      /\ outbox'[i].available = outbox[i].available
      /\ \A j \in Ids \ {i} : outbox'[j] = outbox[j]
  BY <1>1 DEF Row
<1>3. StoreTypeOK'
  BY <1>1, <1>2 DEF StoreInv, StoreTypeOK
<1>4. Live(outbox') = Live(outbox)
  BY <1>1, <1>2 DEF Live
<1>5. Active' \subseteq Active
  BY <1>2, <1>4 DEF Active, InState
<1>6. SingleActive'
  BY <1>5 DEF SingleActive, StoreInv
<1>7. DeferredIffTimed'
  BY <1>2, <1>4 DEF DeferredIffTimed, StoreInv, Live
<1>8. IdentitiesFresh'
  BY <1>1, <1>4 DEF IdentitiesFresh, StoreInv
<1> QED BY <1>3, <1>6, <1>7, <1>8 DEF StoreInv

\* A reopen, with whatever next identity lies above the stored rows.
LEMMA ReopenInv ==
    ASSUME StoreInv, outbox' = [i \in Ids |-> Recovered(outbox[i])],
           nextId' \in Nat \ {0}, \A i \in Live(outbox) : i < nextId'
    PROVE  StoreInv'
<1>1. outbox \in [Ids -> Row \cup {NoRow}]
  BY DEF StoreInv, StoreTypeOK
<1>2. Recovered(NoRow) = NoRow
  BY DEF Recovered
<1>3. ASSUME NEW i \in Ids
      PROVE  /\ outbox'[i] = Recovered(outbox[i])
             /\ \/ outbox[i] = NoRow /\ outbox'[i] = NoRow
                \/ outbox[i] \in Row /\ outbox'[i] \in Row
  BY <1>1, <1>2, RecoveredRow
<1>4. StoreTypeOK'
  BY <1>3 DEF StoreTypeOK
<1>5. Live(outbox') = Live(outbox)
  BY <1>3 DEF Live
<1>6. Active' = {}
  BY <1>1, <1>3, <1>5, RecoveredRow DEF Active, InState, Live
<1>7. SingleActive'
  BY <1>6 DEF SingleActive
<1>8. DeferredIffTimed'
  <2> SUFFICES ASSUME NEW j \in Live(outbox')
               PROVE  outbox'[j].state = "deferred" <=> outbox'[j].available # NoTime
    BY DEF DeferredIffTimed
  <2>1. j \in Live(outbox) /\ j \in Ids /\ outbox[j] \in Row /\ outbox'[j] = Recovered(outbox[j])
    BY <1>1, <1>3, <1>5 DEF Live
  <2>2. outbox[j].state = "deferred" <=> outbox[j].available # NoTime
    BY <2>1 DEF DeferredIffTimed, StoreInv
  <2> QED BY <2>1, <2>2, RecoveredRow
<1>9. IdentitiesFresh'
  BY <1>5 DEF IdentitiesFresh
<1> QED BY <1>4, <1>7, <1>8, <1>9 DEF StoreInv

\* Every command keeps the invariant.
LEMMA StoreInvStep == StoreInv /\ [StoreNext]_storeVars => StoreInv'
<1> SUFFICES ASSUME StoreInv, [StoreNext]_storeVars
             PROVE  StoreInv'
  OBVIOUS
<1> USE DEF States, ActiveStates
<1>1. CASE AdmitStep
  BY <1>1, AdmitInv
<1>2. ASSUME NEW moment \in Times, ClockStep(moment)
      PROVE  StoreInv'
  <2>1. CASE Expire(moment)
    BY <2>1, SweepInv DEF Expire
  <2>2. CASE ClaimIdle(moment)
    BY <2>2, SweepInv DEF ClaimIdle
  <2>3. ASSUME NEW i \in Ids, ClaimWaiting(i, moment)
        PROVE  StoreInv'
    BY <2>3, SweepInv DEF ClaimWaiting
  <2>4. ASSUME NEW i \in Ids, ClaimHead(i, moment)
        PROVE  StoreInv'
    BY <2>4, ClaimHeadInv
  <2> QED BY <1>2, <2>1, <2>2, <2>3, <2>4 DEF ClockStep
<1>3. ASSUME NEW i \in Ids, UserStep(i)
      PROVE  StoreInv'
  <2>1. CASE Cancel(i)
    BY <2>1, TransitionInv DEF Cancel
  <2>2. CASE Dismiss(i)
    BY <2>2, RemoveInv DEF Dismiss
  <2>3. CASE Retry(i)
    BY <2>3, TransitionInv DEF Retry
  <2>4. CASE ResolveConflict(i)
    BY <2>4, TransitionInv DEF ResolveConflict
  <2>5. CASE ResolveOutcomeUnknown(i)
    BY <2>5, TransitionInv DEF ResolveOutcomeUnknown
  <2> QED BY <1>3, <2>1, <2>2, <2>3, <2>4, <2>5 DEF UserStep
<1>4. ASSUME NEW i \in Ids, OutcomeStep(i)
      PROVE  StoreInv'
  <2>1. ASSUME NEW t \in Times, Defer(i, t)
        PROVE  StoreInv'
    <3>1. t # NoTime
      OBVIOUS
    <3> QED BY <2>1, <3>1, TransitionInv DEF Defer
  <2>2. CASE Fail(i)
    BY <2>2, TransitionInv DEF Fail
  <2>3. CASE Conflict(i)
    BY <2>3, TransitionInv DEF Conflict
  <2>4. CASE MarkOutcomeUnknown(i)
    BY <2>4, TransitionInv DEF MarkOutcomeUnknown
  <2>5. CASE ConfirmUnsent(i)
    BY <2>5, TransitionInv DEF ConfirmUnsent
  <2>6. CASE Complete(i)
    BY <2>6, RemoveInv DEF Complete
  <2> QED BY <1>4, <2>1, <2>2, <2>3, <2>4, <2>5, <2>6 DEF OutcomeStep
<1>5. ASSUME NEW i \in Ids, NEW expires \in Times \cup {NoTime}, SetExpiry(i, expires)
      PROVE  StoreInv'
  BY <1>5, SetExpiryInv
<1>6. CASE Recover
  <2>1. nextId' \in Nat \ {0} /\ \A i \in Live(outbox) : i < nextId'
    BY <1>6 DEF Recover, StoreInv, StoreTypeOK, IdentitiesFresh
  <2> QED BY <1>6, <2>1, ReopenInv DEF Recover
<1>7. CASE Rebuild
  <2>1. nextId' \in Nat \ {0} /\ \A i \in Live(outbox) : i < nextId'
    BY <1>7 DEF Rebuild, StoreInv, StoreTypeOK
  <2> QED BY <1>7, <2>1, ReopenInv DEF Rebuild
<1>8. CASE UNCHANGED storeVars
  BY <1>8 DEF storeVars, StoreInv, StoreTypeOK, SingleActive, DeferredIffTimed,
              IdentitiesFresh, Active, Live, InState
<1> QED BY <1>1, <1>2, <1>3, <1>4, <1>5, <1>6, <1>7, <1>8 DEF StoreNext

LEMMA StoreInvInit == StoreInit => StoreInv
BY DEF StoreInit, StoreInv, StoreTypeOK, SingleActive, DeferredIffTimed,
       IdentitiesFresh, Active, InState, Live

LEMMA StoreInvariant == StoreSpec => []StoreInv
BY StoreInvInit, StoreInvStep, PTL DEF StoreSpec

\* Type correctness: every reachable table holds rows of their columns' types.
THEOREM StoreTypeCorrect == StoreSpec => []StoreTypeOK
BY StoreInvariant, PTL DEF StoreInv

\* However commands, clock readings and reopens interleave, at most one row is
\* claimed or awaiting cancellation.
THEOREM SingleActiveHolds == StoreSpec => []SingleActive
BY StoreInvariant, PTL DEF StoreInv

\* claim never meets a deferred head without a retry time.
THEOREM DeferredIffTimedHolds == StoreSpec => []DeferredIffTimed
BY StoreInvariant, PTL DEF StoreInv

\* No admission, after rebuilds too, receives the identity of stored work.
THEOREM IdentitiesFreshHolds == StoreSpec => []IdentitiesFresh
BY StoreInvariant, PTL DEF StoreInv

-------------------------------------------------------------------------------
(***************************************************************************)
(* The table implements OutboxPromise.  A command maps to one promise step *)
(* or to a stutter; Recover maps to one step because at most one row was   *)
(* active.                                                                 *)
(***************************************************************************)
Phase == [i \in Ids |-> PhaseOf(outbox[i])]
Key   == [i \in Ids |-> KeyOf(outbox[i])]

\* The phases are decided by the state column and partition the rows.
LEMMA PhaseFacts ==
    ASSUME StoreTypeOK, NEW i \in Ids
    PROVE  /\ PhaseOf(outbox[i]) = "absent" <=> outbox[i] = NoRow
           /\ PhaseOf(outbox[i]) = "active" <=> i \in Active
           /\ PhaseOf(outbox[i]) = "queued" <=> i \in Runnable(outbox)
           /\ PhaseOf(outbox[i]) = "held"   <=> InState(outbox, i, HeldStates)
           /\ KeyOf(outbox[i]) \in Times
           /\ outbox[i] # NoRow => outbox[i] \in Row /\ KeyOf(outbox[i]) = outbox[i].admitted
<1>1. CASE outbox[i] = NoRow
  BY <1>1 DEF PhaseOf, KeyOf, Active, Runnable, InState, Live
<1>2. CASE outbox[i] # NoRow
  <2>1. outbox[i] \in Row /\ outbox[i].state \in States /\ outbox[i].admitted \in Times
    BY <1>2 DEF StoreTypeOK, Row
  <2> QED BY <1>2, <2>1 DEF PhaseOf, KeyOf, Active, Runnable, InState, Live, States,
                            ActiveStates, RunnableStates, HeldStates
<1> QED BY <1>1, <1>2

\* A transition moves one item between phases and keeps every key.
LEMMA TransitionMoves ==
    ASSUME StoreTypeOK, NEW i \in Ids, NEW allowed, NEW state \in States,
           NEW available \in Times \cup {NoTime}, Transition(i, allowed, state, available)
    PROVE  /\ outbox[i] \in Row /\ outbox[i] # NoRow /\ outbox[i].state \in allowed
           /\ Phase' = [Phase EXCEPT ![i] = IF state \in ActiveStates THEN "active"
                                            ELSE IF state \in RunnableStates THEN "queued"
                                            ELSE "held"]
           /\ Key' = Key
<1>1. /\ outbox[i] \in Row /\ outbox[i] # NoRow /\ outbox[i].state \in allowed
      /\ outbox \in [Ids -> Row \cup {NoRow}]
      /\ outbox' = [outbox EXCEPT ![i] = Moved(@, state, available)]
  BY DEF Transition, InState, Live, StoreTypeOK
<1>2. /\ outbox'[i] \in Row
      /\ outbox'[i].state = state
      /\ outbox'[i].admitted = outbox[i].admitted
      /\ \A j \in Ids \ {i} : outbox'[j] = outbox[j]
  BY <1>1 DEF Moved, Row
<1>3. outbox'[i] # NoRow
  BY <1>2
<1>4. /\ PhaseOf(outbox'[i]) = IF state \in ActiveStates THEN "active"
                               ELSE IF state \in RunnableStates THEN "queued" ELSE "held"
      /\ KeyOf(outbox'[i]) = KeyOf(outbox[i])
  BY <1>1, <1>2, <1>3 DEF PhaseOf, KeyOf
<1>5. Key' = Key
  BY <1>2, <1>4 DEF Key
<1> QED BY <1>1, <1>2, <1>4, <1>5 DEF Phase

LEMMA RemoveMoves ==
    ASSUME StoreTypeOK, NEW i \in Ids, NEW allowed, Remove(i, allowed)
    PROVE  /\ outbox[i] # NoRow /\ outbox[i].state \in allowed
           /\ Phase' = [Phase EXCEPT ![i] = "absent"]
           /\ \E t \in Times : Key' = [Key EXCEPT ![i] = t]
<1>1. /\ outbox[i] # NoRow /\ outbox[i].state \in allowed
      /\ outbox \in [Ids -> Row \cup {NoRow}]
      /\ outbox' = [outbox EXCEPT ![i] = NoRow]
  BY DEF Remove, InState, Live, StoreTypeOK
<1>2. Phase' = [Phase EXCEPT ![i] = "absent"]
  BY <1>1 DEF Phase, PhaseOf
<1>3. /\ KeyOf(NoRow) \in Times
      /\ Key' = [Key EXCEPT ![i] = KeyOf(NoRow)]
  BY <1>1 DEF Key, KeyOf
<1> QED BY <1>1, <1>2, <1>3

\* The items a sweep sets aside were queued, and it touches no other item.
LEMMA SweepMoves ==
    ASSUME StoreTypeOK, NEW moment \in Times
    PROVE  \E gone \in SUBSET Runnable(outbox) :
              /\ [i \in Ids |-> PhaseOf(Swept(moment)[i])] =
                    [i \in Ids |-> IF i \in gone THEN "held" ELSE Phase[i]]
              /\ [i \in Ids |-> KeyOf(Swept(moment)[i])] = Key
              /\ Runnable(Swept(moment)) = Runnable(outbox) \ gone
<1> DEFINE gone == {i \in Runnable(outbox) : Swept(moment)[i] # outbox[i]}
<1>1. ASSUME NEW i \in Ids
      PROVE  /\ i \in gone => /\ Swept(moment)[i] # NoRow
                              /\ Swept(moment)[i].state = "expired"
                              /\ Swept(moment)[i].admitted = outbox[i].admitted
             /\ i \notin gone => Swept(moment)[i] = outbox[i]
  BY SweptRows
<1>2. \A i \in gone : outbox[i] # NoRow
  BY DEF Runnable, InState, Live
<1>3. ASSUME NEW i \in Ids
      PROVE  /\ PhaseOf(Swept(moment)[i]) = IF i \in gone THEN "held" ELSE Phase[i]
             /\ KeyOf(Swept(moment)[i]) = Key[i]
             /\ i \in Runnable(Swept(moment)) <=> i \in Runnable(outbox) \ gone
  <2>1. CASE i \in gone
    BY <1>1, <1>2, <2>1 DEF PhaseOf, KeyOf, Key, Runnable, InState, Live,
                            ActiveStates, RunnableStates
  <2>2. CASE i \notin gone
    BY <1>1, <2>2 DEF Phase, Key, Runnable, InState, Live
  <2> QED BY <2>1, <2>2
<1>4. [i \in Ids |-> PhaseOf(Swept(moment)[i])] = [i \in Ids |-> IF i \in gone THEN "held" ELSE Phase[i]]
  BY <1>3
<1>5. [i \in Ids |-> KeyOf(Swept(moment)[i])] = Key
  BY <1>3 DEF Key
<1>6. Runnable(Swept(moment)) = Runnable(outbox) \ gone
  BY <1>3 DEF Runnable
<1>7. gone \in SUBSET Runnable(outbox)
  OBVIOUS
<1> QED BY <1>4, <1>5, <1>6, <1>7

\* The promise's operators in the vocabulary of the table.
LEMMA PromiseVocabulary ==
    ASSUME StoreInv
    PROVE  /\ Promise!Queued = Runnable(outbox)
           /\ Promise!NoneActive <=> Active = {}
           /\ Promise!promiseVars = <<Phase, Key>>
           /\ \A i \in Ids : Phase[i] = PhaseOf(outbox[i]) /\ Key[i] = KeyOf(outbox[i])
<1>1. StoreTypeOK
  BY DEF StoreInv
<1>2. Promise!Queued = Runnable(outbox)
  BY <1>1, PhaseFacts DEF Promise!Queued, Runnable
<1>3. Promise!NoneActive <=> Active = {}
  BY <1>1, PhaseFacts DEF Promise!NoneActive, Active
<1> QED BY <1>2, <1>3 DEF Promise!promiseVars, Phase, Key

\* A claim sets the expired rows aside and starts the first of the others.
LEMMA ClaimRefines ==
    ASSUME StoreInv, NEW moment \in Times, NEW i \in Ids, ClaimHead(i, moment)
    PROVE  \E gone \in SUBSET Promise!Queued : Promise!Start(i, gone)
<1> DEFINE t == Swept(moment)
<1>1. /\ StoreTypeOK
      /\ Active = {}
      /\ i \in Runnable(t)
      /\ \A j \in Runnable(t) \ {i} : Precedes(t, i, j)
      /\ outbox' = [t EXCEPT ![i] = Moved(@, "in_flight", NoTime)]
  BY DEF ClaimHead, IsHead, StoreInv
<1>2. PICK gone \in SUBSET Runnable(outbox) :
          /\ [j \in Ids |-> PhaseOf(t[j])] = [j \in Ids |-> IF j \in gone THEN "held" ELSE Phase[j]]
          /\ [j \in Ids |-> KeyOf(t[j])] = Key
          /\ Runnable(t) = Runnable(outbox) \ gone
  BY <1>1, SweepMoves
<1>3. /\ t \in [Ids -> Row \cup {NoRow}]
      /\ \A j \in Runnable(t) : t[j] # NoRow /\ t[j] \in Row
  <2>1. t \in [Ids -> Row \cup {NoRow}]
    BY <1>1, SweptRows
  <2>2. \A j \in Runnable(t) : j \in Ids /\ t[j] # NoRow
    BY DEF Runnable, InState, Live
  <2> HIDE DEF t
  <2> QED BY <2>1, <2>2
<1>4. /\ outbox'[i].state = "in_flight" /\ outbox'[i] \in Row
      /\ outbox'[i].admitted = t[i].admitted
      /\ \A j \in Ids \ {i} : outbox'[j] = t[j]
  BY <1>1, <1>3 DEF Moved, Row, States
<1>5. ASSUME NEW j \in Ids
      PROVE  /\ PhaseOf(t[j]) = IF j \in gone THEN "held" ELSE Phase[j]
             /\ KeyOf(t[j]) = Key[j]
  <2>1. [k \in Ids |-> PhaseOf(t[k])][j] = [k \in Ids |-> IF k \in gone THEN "held" ELSE Phase[k]][j]
    BY <1>2
  <2>2. [k \in Ids |-> KeyOf(t[k])][j] = Key[j]
    BY <1>2
  <2> QED BY <2>1, <2>2
<1>6. ASSUME NEW j \in Ids
      PROVE  /\ PhaseOf(outbox'[j]) = IF j = i THEN "active"
                                      ELSE IF j \in gone THEN "held" ELSE Phase[j]
             /\ KeyOf(outbox'[j]) = Key[j]
  <2>1. CASE j = i
    BY <1>1, <1>3, <1>4, <1>5, <2>1 DEF PhaseOf, KeyOf, ActiveStates
  <2>2. CASE j # i
    BY <1>4, <1>5, <2>2
  <2> QED BY <2>1, <2>2
<1>7. ASSUME NEW j \in Promise!Queued \ (gone \cup {i})
      PROVE  Promise!Before(i, j)
  <2>1. j \in Runnable(t) \ {i}
    BY <1>2, <1>7, PromiseVocabulary
  <2>2. Precedes(t, i, j)
    BY <1>1, <2>1
  <2>3. i \in Ids /\ j \in Ids /\ Key[i] = t[i].admitted /\ Key[j] = t[j].admitted
    BY <1>1, <1>3, <1>5, <2>1 DEF KeyOf, Runnable
  <2> QED BY <2>2, <2>3 DEF Precedes, Promise!Before, Key
<1>8. i \in Promise!Queued \ gone /\ gone \in SUBSET Promise!Queued
  BY <1>1, <1>2, PromiseVocabulary
<1>9. Promise!NoneActive
  BY <1>1, PromiseVocabulary
<1>10. Phase' = [j \in Ids |-> IF j = i THEN "active" ELSE IF j \in gone THEN "held" ELSE Phase[j]]
  BY <1>6 DEF Phase
<1>11. Key' = Key
  BY <1>6 DEF Key
<1> QED BY <1>7, <1>8, <1>9, <1>10, <1>11 DEF Promise!Start, Phase, Key

\* A sweep without a claim is the promise's SetAside.
LEMMA SweepRefines ==
    ASSUME StoreInv, NEW moment \in Times, outbox' = Swept(moment)
    PROVE  \E gone \in SUBSET Promise!Queued : Promise!SetAside(gone)
<1>1. StoreTypeOK
  BY DEF StoreInv
<1>2. PICK gone \in SUBSET Runnable(outbox) :
          /\ [j \in Ids |-> PhaseOf(Swept(moment)[j])] =
                [j \in Ids |-> IF j \in gone THEN "held" ELSE Phase[j]]
          /\ [j \in Ids |-> KeyOf(Swept(moment)[j])] = Key
  BY <1>1, SweepMoves
<1>3. /\ Phase' = [j \in Ids |-> IF j \in gone THEN "held" ELSE Phase[j]]
      /\ Key' = Key
  BY <1>2 DEF Phase, Key
<1>4. gone \in SUBSET Promise!Queued
  BY PromiseVocabulary
<1> QED BY <1>3, <1>4 DEF Promise!SetAside, Phase, Key

\* Opening the database puts the one active item back or sets it aside.
LEMMA ReopenRefines ==
    ASSUME StoreInv, outbox' = [i \in Ids |-> Recovered(outbox[i])]
    PROVE  [Promise!PromiseNext]_(Promise!promiseVars)
<1>1. /\ StoreTypeOK /\ SingleActive
      /\ outbox \in [Ids -> Row \cup {NoRow}]
  BY DEF StoreInv, StoreTypeOK
<1>2. ASSUME NEW i \in Ids
      PROVE  KeyOf(outbox'[i]) = KeyOf(outbox[i])
  <2>1. outbox'[i] = Recovered(outbox[i])
    OBVIOUS
  <2>2. CASE outbox[i] = NoRow
    BY <2>1, <2>2 DEF Recovered
  <2>3. CASE outbox[i] \in Row
    BY <2>1, <2>3, RecoveredRow DEF KeyOf
  <2> QED BY <1>1, <2>2, <2>3
<1>3. Key' = Key
  BY <1>2 DEF Key
<1>4. ASSUME NEW i \in Ids, i \notin Active
      PROVE  outbox'[i] = outbox[i]
  <2>1. outbox'[i] = Recovered(outbox[i])
    OBVIOUS
  <2>2. CASE outbox[i] = NoRow
    BY <2>1, <2>2 DEF Recovered
  <2>3. CASE outbox[i] \in Row
    BY <1>4, <2>1, <2>3, RecoveredRow DEF Active, InState, Live
  <2> QED BY <1>1, <2>2, <2>3
<1>5. CASE Active = {}
  BY <1>3, <1>4, <1>5 DEF Promise!promiseVars, Phase, Key
<1>6. CASE Active # {}
  <2>1. PICK i \in Active : Active = {i}
    BY <1>1, <1>6 DEF SingleActive
  <2>2. i \in Ids /\ outbox[i] \in Row /\ outbox[i].state \in ActiveStates /\ outbox[i] # NoRow
    BY <1>1, <2>1 DEF Active, InState, Live
  <2>3. outbox'[i] = Recovered(outbox[i])
    BY <2>2
  <2>4. outbox'[i] \in Row /\ outbox'[i].state \in {"ready", "outcome_unknown"}
    BY <2>2, <2>3, RecoveredRow
  <2>5. /\ Phase[i] = "active"
        /\ PhaseOf(outbox'[i]) \in {"queued", "held"}
    BY <1>1, <2>1, <2>2, <2>4, PhaseFacts
       DEF PhaseOf, Phase, ActiveStates, RunnableStates
  <2>6. \A j \in Ids \ {i} : PhaseOf(outbox'[j]) = Phase[j]
    BY <1>4, <2>1 DEF Phase
  <2>7. Phase' = [Phase EXCEPT ![i] = PhaseOf(outbox'[i])]
    BY <2>2, <2>6 DEF Phase
  <2>8. Promise!PutBack(i) \/ Promise!Hold(i)
    BY <1>3, <2>5, <2>7 DEF Promise!PutBack, Promise!Hold, Promise!Move, Phase, Key
  <2> QED BY <2>2, <2>8 DEF Promise!PromiseNext
<1> QED BY <1>5, <1>6

LEMMA UserRefines ==
    ASSUME StoreInv, NEW i \in Ids, UserStep(i)
    PROVE  [Promise!PromiseNext]_(Promise!promiseVars)
<1>1. StoreTypeOK
  BY DEF StoreInv
<1>2. PhaseOf(outbox[i]) = Phase[i] /\ KeyOf(outbox[i]) = Key[i]
  BY DEF Phase, Key
<1> USE DEF States, ActiveStates, RunnableStates, HeldStates
<1>3. ASSUME Transition(i, RunnableStates, "cancelled", NoTime)
      PROVE  Promise!SetAside({i}) /\ {i} \in SUBSET Promise!Queued
  <2>1. i \in Runnable(outbox) /\ Phase' = [Phase EXCEPT ![i] = "held"] /\ Key' = Key
    BY <1>1, <1>3, TransitionMoves DEF Runnable, InState, Transition
  <2>2. Phase' = [j \in Ids |-> IF j \in {i} THEN "held" ELSE Phase[j]]
    BY <2>1 DEF Phase
  <2> QED BY <2>1, <2>2, PromiseVocabulary DEF Promise!SetAside, Phase, Key
<1>4. ASSUME Transition(i, {"in_flight"}, "cancel_requested", NoTime)
      PROVE  UNCHANGED Promise!promiseVars
  <2>1. Phase[i] = "active" /\ Phase' = [Phase EXCEPT ![i] = "active"] /\ Key' = Key
    BY <1>1, <1>2, <1>4, TransitionMoves DEF PhaseOf
  <2>2. Phase' = Phase
    BY <2>1 DEF Phase
  <2> QED BY <2>1, <2>2 DEF Promise!promiseVars, Phase, Key
<1>5. ASSUME NEW from \in SUBSET HeldStates, Transition(i, from, "ready", NoTime)
      PROVE  Promise!Release(i)
  <2>1. "ready" \in States /\ NoTime \in Times \cup {NoTime}
    OBVIOUS
  <2>2. /\ outbox[i] # NoRow /\ outbox[i].state \in from
        /\ Phase' = [Phase EXCEPT ![i] = "queued"] /\ Key' = Key
    BY <1>1, <1>5, <2>1, TransitionMoves
  <2>3. Phase[i] = "held"
    BY <1>2, <2>2 DEF PhaseOf
  <2> QED BY <2>2, <2>3 DEF Promise!Release, Promise!Move, Phase, Key
<1>6. CASE Cancel(i)
  BY <1>3, <1>4, <1>6 DEF Cancel, Promise!PromiseNext
<1>7. CASE Dismiss(i)
  <2>1. /\ Phase[i] = "held" /\ Phase' = [Phase EXCEPT ![i] = "absent"]
        /\ \E t \in Times : Key' = [Key EXCEPT ![i] = t]
    BY <1>1, <1>2, <1>7, RemoveMoves DEF PhaseOf, Dismiss
  <2>2. Promise!Leave(i)
    BY <2>1 DEF Promise!Leave, Promise!Move, Promise!Rekey, Phase, Key
  <2> QED BY <2>2 DEF Promise!PromiseNext
<1>8. CASE Retry(i) \/ ResolveConflict(i) \/ ResolveOutcomeUnknown(i)
  BY <1>5, <1>8 DEF Retry, ResolveConflict, ResolveOutcomeUnknown, Promise!PromiseNext
<1> QED BY <1>6, <1>7, <1>8 DEF UserStep

LEMMA OutcomeRefines ==
    ASSUME StoreInv, NEW i \in Ids, OutcomeStep(i)
    PROVE  [Promise!PromiseNext]_(Promise!promiseVars)
<1>1. StoreTypeOK
  BY DEF StoreInv
<1>2. PhaseOf(outbox[i]) = Phase[i] /\ KeyOf(outbox[i]) = Key[i]
  BY DEF Phase, Key
<1> USE DEF States, ActiveStates, RunnableStates, HeldStates
<1>3. ASSUME NEW t \in Times, Defer(i, t)
      PROVE  Promise!PutBack(i)
  <2>1. Phase[i] = "active" /\ Phase' = [Phase EXCEPT ![i] = "queued"] /\ Key' = Key
    BY <1>1, <1>2, <1>3, TransitionMoves DEF PhaseOf, Defer
  <2> QED BY <2>1 DEF Promise!PutBack, Promise!Move, Phase, Key
<1>4. ASSUME NEW from \in SUBSET ActiveStates, NEW to \in HeldStates, Transition(i, from, to, NoTime)
      PROVE  Promise!Hold(i)
  <2>1. /\ to \in States /\ to \notin ActiveStates /\ to \notin RunnableStates
        /\ NoTime \in Times \cup {NoTime}
    OBVIOUS
  <2>2. /\ outbox[i] # NoRow /\ outbox[i].state \in from
        /\ Key' = Key
        /\ Phase' = [Phase EXCEPT ![i] = IF to \in ActiveStates THEN "active"
                                         ELSE IF to \in RunnableStates THEN "queued"
                                         ELSE "held"]
    <3> HIDE DEF States, ActiveStates, RunnableStates, HeldStates
    <3> QED BY <1>1, <1>4, <2>1, TransitionMoves
  <2>3. Phase' = [Phase EXCEPT ![i] = "held"]
    BY <2>1, <2>2
  <2>4. Phase[i] = "active"
    BY <1>2, <2>2 DEF PhaseOf
  <2> QED BY <2>3, <2>4, <2>2 DEF Promise!Hold, Promise!Move, Phase, Key
<1>5. CASE Complete(i)
  <2>1. /\ Phase[i] = "active" /\ Phase' = [Phase EXCEPT ![i] = "absent"]
        /\ \E t \in Times : Key' = [Key EXCEPT ![i] = t]
    BY <1>1, <1>2, <1>5, RemoveMoves DEF PhaseOf, Complete
  <2>2. Promise!Leave(i)
    BY <2>1 DEF Promise!Leave, Promise!Move, Promise!Rekey, Phase, Key
  <2> QED BY <2>2 DEF Promise!PromiseNext
<1>6. CASE Fail(i) \/ Conflict(i) \/ MarkOutcomeUnknown(i) \/ ConfirmUnsent(i)
  BY <1>4, <1>6 DEF Fail, Conflict, MarkOutcomeUnknown, ConfirmUnsent, Promise!PromiseNext
<1> QED BY <1>3, <1>5, <1>6 DEF OutcomeStep, Promise!PromiseNext

LEMMA AdmitRefines ==
    ASSUME StoreInv, AdmitStep
    PROVE  \E i \in Ids : Promise!Enqueue(i)
<1>1. PICK operation \in Operations, admitted \in Times, expires \in Times \cup {NoTime} :
          Admit(operation, admitted, expires)
  BY DEF AdmitStep
<1>2. /\ nextId \in Ids /\ nextId \in Nat
      /\ outbox \in [Ids -> Row \cup {NoRow}]
      /\ outbox' = [outbox EXCEPT ![nextId] =
                      [operation |-> operation, state |-> "ready", admitted |-> admitted,
                       available |-> NoTime, expires |-> expires]]
  BY <1>1 DEF Admit, StoreInv, StoreTypeOK
<1>3. outbox[nextId] = NoRow
  BY <1>2 DEF StoreInv, IdentitiesFresh, Live
<1>4. outbox'[nextId] \in Row /\ outbox'[nextId].state = "ready" /\ outbox'[nextId].admitted = admitted
  BY <1>2 DEF Row, States
<1>5. /\ PhaseOf(outbox'[nextId]) = "queued" /\ KeyOf(outbox'[nextId]) = admitted
      /\ PhaseOf(outbox[nextId]) = "absent"
  BY <1>3, <1>4 DEF PhaseOf, KeyOf, ActiveStates, RunnableStates
<1>6. \A j \in Ids \ {nextId} : outbox'[j] = outbox[j]
  BY <1>2
<1>7. /\ Phase' = [Phase EXCEPT ![nextId] = "queued"] /\ Phase[nextId] = "absent"
      /\ Key' = [Key EXCEPT ![nextId] = admitted]
  BY <1>2, <1>5, <1>6 DEF Phase, Key
<1>8. Promise!Enqueue(nextId)
  BY <1>7 DEF Promise!Enqueue, Promise!Move, Promise!Rekey, Phase, Key
<1> QED BY <1>2, <1>8

LEMMA ExpiryRefines ==
    ASSUME StoreInv, NEW i \in Ids, NEW expires \in Times \cup {NoTime}, SetExpiry(i, expires)
    PROVE  UNCHANGED Promise!promiseVars
<1>1. /\ outbox[i] \in Row /\ outbox[i] # NoRow
      /\ outbox \in [Ids -> Row \cup {NoRow}]
      /\ outbox' = [outbox EXCEPT ![i].expires = expires]
  BY DEF SetExpiry, InState, Live, StoreInv, StoreTypeOK
<1>2. /\ outbox'[i] \in Row /\ outbox'[i].state = outbox[i].state
      /\ outbox'[i].admitted = outbox[i].admitted
      /\ \A j \in Ids \ {i} : outbox'[j] = outbox[j]
  BY <1>1 DEF Row
<1>3. \A j \in Ids : PhaseOf(outbox'[j]) = PhaseOf(outbox[j]) /\ KeyOf(outbox'[j]) = KeyOf(outbox[j])
  BY <1>1, <1>2 DEF PhaseOf, KeyOf
<1> QED BY <1>3 DEF Promise!promiseVars

LEMMA PromiseStep ==
    StoreInv /\ [StoreNext]_storeVars => [Promise!PromiseNext]_(Promise!promiseVars)
<1> SUFFICES ASSUME StoreInv, [StoreNext]_storeVars
             PROVE  [Promise!PromiseNext]_(Promise!promiseVars)
  OBVIOUS
<1>1. CASE AdmitStep
  BY <1>1, AdmitRefines DEF Promise!PromiseNext
<1>2. ASSUME NEW moment \in Times, ClockStep(moment)
      PROVE  Promise!PromiseNext
  <2>1. ASSUME outbox' = Swept(moment)
        PROVE  Promise!PromiseNext
    BY <2>1, SweepRefines DEF Promise!PromiseNext
  <2>2. ASSUME NEW i \in Ids, ClaimHead(i, moment)
        PROVE  Promise!PromiseNext
    <3>1. PICK gone \in SUBSET Promise!Queued : Promise!Start(i, gone)
      BY <2>2, ClaimRefines
    <3>2. i \in Promise!Queued
      BY <3>1 DEF Promise!Start
    <3> QED BY <3>1, <3>2 DEF Promise!PromiseNext
  <2> QED BY <1>2, <2>1, <2>2 DEF ClockStep, Expire, ClaimIdle, ClaimWaiting
<1>3. ASSUME NEW i \in Ids, UserStep(i) \/ OutcomeStep(i)
      PROVE  [Promise!PromiseNext]_(Promise!promiseVars)
  BY <1>3, UserRefines, OutcomeRefines
<1>4. ASSUME NEW i \in Ids, NEW expires \in Times \cup {NoTime}, SetExpiry(i, expires)
      PROVE  [Promise!PromiseNext]_(Promise!promiseVars)
  BY <1>4, ExpiryRefines
<1>5. CASE Recover \/ Rebuild
  BY <1>5, ReopenRefines DEF Recover, Rebuild
<1>6. CASE UNCHANGED storeVars
  BY <1>6 DEF storeVars, Promise!promiseVars
<1> QED BY <1>1, <1>2, <1>3, <1>4, <1>5, <1>6 DEF StoreNext

LEMMA PromiseInitial == StoreInit => Promise!PromiseInit
<1> SUFFICES ASSUME StoreInit PROVE Promise!PromiseInit
  OBVIOUS
<1>1. \A i \in Ids : PhaseOf(outbox[i]) = "absent" /\ KeyOf(outbox[i]) \in Times
  BY DEF StoreInit, PhaseOf, KeyOf
<1> QED BY <1>1 DEF Promise!PromiseInit

\* Every execution of the table is an execution of the single-server queue:
\* work runs one at a time in admission order, and leaves the Outbox only
\* acknowledged or dismissed.
THEOREM StoreKeepsPromise == StoreSpec => KeepsPromise
<1>1. StoreInit => Promise!PromiseInit
  BY PromiseInitial
<1>2. StoreInv /\ [StoreNext]_storeVars => [Promise!PromiseNext]_(Promise!promiseVars)
  BY PromiseStep
<1> QED BY StoreInvariant, <1>1, <1>2, PTL DEF StoreSpec, KeepsPromise, Promise!PromiseSpec

-------------------------------------------------------------------------------
\* A claimed mutation becomes ready again only through the user: neither an
\* outcome nor a reopen of the database replays it.
THEOREM InterruptedMutationsHeldAlways == StoreSpec => InterruptedMutationsHeld
<1>1. StoreInv /\ [StoreNext]_storeVars
        => [\A i \in Active : outbox[i].operation = "mutation"
                                 => ~InState(outbox, i, {"ready"})']_storeVars
  <2> SUFFICES ASSUME StoreInv, [StoreNext]_storeVars, NEW i \in Active,
                      outbox[i].operation = "mutation", InState(outbox, i, {"ready"})'
               PROVE  FALSE
    OBVIOUS
  <2>1. i \in Live(outbox) /\ outbox[i].state \in ActiveStates
    BY DEF Active, InState
  <2>2. outbox'[i] # NoRow /\ outbox'[i].state = "ready"
    BY DEF InState, Live
  <2> QED BY <2>1, <2>2, EdgeStep DEF Edge, ActiveStates, RunnableStates
<1> QED BY StoreInvariant, <1>1, PTL DEF StoreSpec, InterruptedMutationsHeld

\* Cancelled and expired work is never executed.
THEOREM WithdrawnStaysWithdrawnAlways == StoreSpec => WithdrawnStaysWithdrawn
<1>1. StoreInv /\ [StoreNext]_storeVars
        => [\A i \in Ids : InState(outbox, i, {"expired", "cancelled"})
                => outbox'[i] = NoRow \/ InState(outbox, i, {"expired", "cancelled"})']_storeVars
  <2> SUFFICES ASSUME StoreInv, [StoreNext]_storeVars, NEW i \in Ids,
                      InState(outbox, i, {"expired", "cancelled"}), outbox'[i] # NoRow
               PROVE  InState(outbox, i, {"expired", "cancelled"})'
    OBVIOUS
  <2>1. i \in Live(outbox) /\ outbox[i].state \in {"expired", "cancelled"}
    BY DEF InState
  <2>2. outbox'[i].state \in {"expired", "cancelled"}
    BY <2>1, EdgeStep DEF Edge, RunnableStates
  <2> QED BY <2>2 DEF InState, Live
<1> QED BY StoreInvariant, <1>1, PTL DEF StoreSpec, WithdrawnStaysWithdrawn

-------------------------------------------------------------------------------
(* The coordinator, the lane and the session.                              *)

\* The coordinator holds an item at these points.
Holding == CoordPcs \ {"idle", "sleeping", "raising"}

\* What makes the types inductive: who holds an item has its identity, a part on
\* its way is one of the send, and a retry that may be stored lies on the clock.
Held == /\ coord.pc \in Holding => coord.item \in Ids
        /\ coord.pc \in {"calling", "sent", "reading"} => coord.part \in Parts
        /\ coord.pc \in {"answered", "inspected"}
              /\ coord.answer.kind \in {"flood", "capacity", "lost"}
           => RetryAt(coord.since, coord.answer) \in Times
        /\ coord.pc = "answered" => coord.answer.kind # "none"
        /\ coord.pc = "inspected" => coord.answer.kind \notin {"none", "success"}
        /\ lane.pc # "free" => lane.item \in Ids \/ lane.action \in Operations
        /\ lane.pc \notin {"free", "asked"} => lane.item \in Ids

ExecInv == ExecTypeOK /\ Held

USE DEF CoordType, LaneType

-------------------------------------------------------------------------------
(* Every step is a command of the store.                                   *)

\* The outcome of an attempt is one transition, out of the active states.
LEMMA OutcomeStored ==
    ASSUME ExecInv, CoordDecide
    PROVE  /\ OutcomeStep(coord.item)
           /\ \E allowed \in SUBSET States, state \in States \ ActiveStates,
                 available \in Times \cup {NoTime} :
                 Transition(coord.item, allowed, state, available)
<1>1. coord.pc = "inspected" /\ StoreOutcome(coord.item, Decision)
  BY DEF CoordDecide, Polled
<1>2. coord.answer.kind \in AnswerKinds \ {"none", "success"}
  BY <1>1 DEF ExecInv, ExecTypeOK, Held
<1>3. ActiveStates \in SUBSET States /\ {"in_flight"} \in SUBSET States
      /\ {"cancel_requested"} \in SUBSET States /\ NoTime \in Times \cup {NoTime}
  BY DEF ActiveStates, States
<1>4. {"deferred", "failed", "conflict", "outcome_unknown", "cancelled"}
          \subseteq States \ ActiveStates
  BY DEF ActiveStates, States
<1>5. CASE Decision = "deferred" /\ Defer(coord.item, RetryAt(coord.since, coord.answer))
  <2>1. coord.answer.kind \in {"flood", "capacity", "lost"}
    BY <1>2, <1>5 DEF Decision, Decide, AnswerKinds
  <2>2. RetryAt(coord.since, coord.answer) \in Times
    BY <1>1, <2>1 DEF ExecInv, Held
  <2> QED BY <1>3, <1>4, <1>5, <2>2 DEF OutcomeStep, Defer
<1>6. CASE Fail(coord.item)
  BY <1>3, <1>4, <1>6 DEF OutcomeStep, Fail
<1>7. CASE Conflict(coord.item)
  BY <1>3, <1>4, <1>7 DEF OutcomeStep, Conflict
<1>8. CASE MarkOutcomeUnknown(coord.item)
  BY <1>3, <1>4, <1>8 DEF OutcomeStep, MarkOutcomeUnknown
<1>9. CASE ConfirmUnsent(coord.item)
  BY <1>3, <1>4, <1>9 DEF OutcomeStep, ConfirmUnsent
<1> QED BY <1>1, <1>5, <1>6, <1>7, <1>8, <1>9 DEF StoreOutcome

LEMMA ExecStepStores ==
    ASSUME ExecInv, [ExecNext]_execVars
    PROVE  [StoreNext]_storeVars
<1>1. Times = 0..MaxTime /\ now \in Times
  BY ExecutionAssumption DEF ExecInv, ExecTypeOK
<1>2. CASE CoordStep
  <2>1. CASE CoordClaim
    <3>1. ClockStep(now)
      BY <2>1 DEF CoordClaim, ClockStep
    <3> QED BY <1>1, <3>1 DEF StoreNext
  <2>2. CASE CoordComplete
    <3>1. coord.item \in Ids /\ OutcomeStep(coord.item)
      BY <2>2 DEF CoordComplete, Polled, OutcomeStep, ExecInv, Held, Holding, CoordPcs
    <3> QED BY <3>1 DEF StoreNext
  <2>3. CASE CoordDecide
    <3>1. coord.item \in Ids /\ OutcomeStep(coord.item)
      BY <2>3, OutcomeStored DEF CoordDecide, Polled, ExecInv, Held, Holding, CoordPcs
    <3> QED BY <3>1 DEF StoreNext
  <2> QED BY <1>2, <2>1, <2>2, <2>3
      DEF CoordStep, CoordWakes, CoordStart, CoordRemoved, CoordInspect, CoordRefused,
          CoordReload, CoordReport, CoordRaises
<1>3. CASE LaneStep
  <2>1. CASE LaneAdmit
    <3>1. AdmitStep
      BY <1>1, <2>1 DEF LaneAdmit, AdmitStep
    <3> QED BY <3>1 DEF StoreNext
  <2>2. CASE LaneAct
    <3>1. lane.item \in Ids /\ UserStep(lane.item)
      BY <2>2 DEF LaneAct, Act, UserStep, ExecInv, Held
    <3> QED BY <3>1 DEF StoreNext
  <2> QED BY <1>3, <2>1, <2>2 DEF LaneStep, LaneLook, LaneRefused, LaneReload, LanePanics,
         LaneReport, LaneFails
<1>4. CASE SessionStep
  BY <1>4 DEF SessionStep, CloseSession, Reopen, Launch, Exit, StoreNext
<1>5. CASE Served
  BY <1>5 DEF Served, SendPart, Acknowledge, ReadAgain, PopSubmission, CommitSubmission, Lands
<1>6. CASE Failure
  BY <1>6 DEF Failure, Refuse, Lose, Withhold, Misread, NotRead, SubmissionFails, Disconnect,
     Crash
<1>7. CASE UserRequest
  BY <1>7 DEF UserRequest, AskAction, AskSend
<1>8. CASE Tick
  BY <1>8 DEF Tick
<1>9. CASE UNCHANGED execVars
  BY <1>9 DEF execVars, storeVars
<1> QED BY <1>2, <1>3, <1>4, <1>5, <1>6, <1>7, <1>8, <1>9 DEF ExecNext

-------------------------------------------------------------------------------
(* Every step keeps the types.                                             *)

LEMMA ShownTyped ==
    ASSUME NEW row \in Row \cup {NoRow}
    PROVE  Shown(row) \in ViewRow \cup {NoRow}
BY NoRowAssumption DEF Shown, ViewRow, Row

LEMMA FreshTyped ==
    /\ Idle \in CoordType
    /\ Free \in LaneType
    /\ Idle.pc = "idle" /\ Free.pc = "free"
<1>1. SendParts \in Nat
  BY ExecutionAssumption
<1>2. NoAnswer \in [kind : AnswerKinds, delay : Nat]
  BY DEF NoAnswer, AnswerKinds
<1> QED BY <1>1, <1>2 DEF Idle, Free, CoordPcs, LanePcs, Operations

\* A claim finds the time of a waiting head, and a row of the table at the head.
LEMMA ClaimFinds ==
    ASSUME StoreTypeOK, NEW t \in Times, NEW i \in Ids
    PROVE  /\ ClaimWaiting(i, t) => outbox[i].available \in Times
           /\ ClaimHead(i, t) => outbox[i] \in Row
<1>1. i \in Runnable(Swept(t)) => outbox[i] \in Row /\ Swept(t)[i] = outbox[i]
  <2>1. ASSUME i \in Runnable(Swept(t)), Swept(t)[i] # outbox[i]
        PROVE  FALSE
    <3>1. Swept(t)[i].state = "expired"
      BY <2>1, SweptRows
    <3> QED BY <2>1, <3>1 DEF Runnable, InState, RunnableStates
  <2>2. i \in Runnable(Swept(t)) => Swept(t)[i] # NoRow
    BY DEF Runnable, InState, Live
  <2> QED BY <2>1, <2>2 DEF StoreTypeOK
<1>2. ClaimHead(i, t) => outbox[i] \in Row
  BY <1>1 DEF ClaimHead, IsHead
<1>3. ASSUME ClaimWaiting(i, t)
      PROVE  outbox[i].available \in Times
  <2>1. outbox[i] \in Row /\ ~Broken(outbox[i]) /\ Waits(outbox[i], t)
    BY <1>1, <1>3 DEF ClaimWaiting, IsHead
  <2> QED BY <2>1 DEF Broken, Waits, Row
<1> QED BY <1>2, <1>3

LEMMA CoordTyped ==
    ASSUME ExecInv, StoreTypeOK', CoordStep
    PROVE  ExecInv'
<1>1. Times = 0..MaxTime /\ now \in Times /\ now \in Nat /\ Times \subseteq Nat
  BY ExecutionAssumption DEF ExecInv, ExecTypeOK
<1>2. StoreTypeOK
  BY DEF ExecInv, ExecTypeOK
<1>3. ASSUME NEW i \in Ids
      PROVE  Shown(outbox[i]) \in ViewRow \cup {NoRow}
  BY <1>2, ShownTyped DEF StoreTypeOK
<1>4. coord.pc \in Holding => coord.item \in Ids
  BY DEF ExecInv, Held
<1>5. SendParts \in Nat \ {0}
  BY ExecutionAssumption
<1> USE DEF CoordPcs, Holding
<1>6. CASE CoordClaim
  <2>1. CASE coord' = Idle
    BY <1>6, <2>1, FreshTyped DEF CoordClaim, Polled, ExecInv, ExecTypeOK, Held, Idle,
       boundVars, remoteVars
  <2>2. ASSUME NEW i \in Ids, ClaimWaiting(i, now),
               coord' = [Idle EXCEPT !.pc = "sleeping", !.since = outbox[i].available]
        PROVE  ExecInv'
    <3>1. outbox[i].available \in Nat
      BY <1>1, <1>2, <2>2, ClaimFinds
    <3> QED BY ZenonT(40), <1>6, <2>2, <3>1, FreshTyped
            DEF CoordClaim, Polled, ExecInv, ExecTypeOK, Held, Idle, boundVars, remoteVars
  <2>3. ASSUME NEW i \in Ids, ClaimHead(i, now),
               coord' = [Idle EXCEPT !.pc = "claimed", !.item = i,
                                     !.operation = outbox[i].operation]
        PROVE  ExecInv'
    <3>1. outbox[i].operation \in Operations
      BY <1>1, <1>2, <2>3, ClaimFinds DEF Row
    <3>2. coord' \in CoordType
      BY <2>3, <3>1, FreshTyped
    <3>3. coord'.pc = "claimed" /\ coord'.item = i
      BY <2>3 DEF Idle
    <3> QED BY <1>6, <3>2, <3>3 DEF CoordClaim, Polled, ExecInv, ExecTypeOK, Held,
            boundVars, remoteVars
  <2> QED BY <1>6, <2>1, <2>2, <2>3 DEF CoordClaim
<1>7. CASE CoordWakes
  BY <1>7, FreshTyped DEF CoordWakes, Polled, ExecInv, ExecTypeOK, Held, Idle,
     storeVars, boundVars, remoteVars
<1>8. CASE CoordStart
  <2>1. coord.item \in Ids /\ 1 \in Parts /\ 1 \in 0..SendParts
    BY <1>4, <1>5, <1>8 DEF CoordStart, Polled, Parts
  <2>2. [state |-> "in_flight", operation |-> coord.operation] \in ViewRow
    BY DEF ViewRow, States, ExecInv, ExecTypeOK
  <2>3. view' \in [Ids -> ViewRow \cup {NoRow}]
    BY <1>8, <2>2 DEF CoordStart, ExecInv, ExecTypeOK
  <2>4. tries' \in [Ids -> Nat]
    BY <1>8, <2>1 DEF CoordStart, ExecInv, ExecTypeOK
  <2> QED BY <1>1, <1>8, <2>1, <2>3, <2>4
          DEF CoordStart, Polled, ExecInv, ExecTypeOK, Held, storeVars, boundVars
<1>9. CASE CoordComplete
  BY <1>9 DEF CoordComplete, Polled, ExecInv, ExecTypeOK, Held, boundVars, remoteVars
<1>10. CASE CoordRemoved
  BY <1>10, FreshTyped DEF CoordRemoved, Polled, ExecInv, ExecTypeOK, Held, Idle,
     storeVars, boundVars, remoteVars
<1>11. CASE CoordInspect
  BY <1>3, <1>4, <1>11 DEF CoordInspect, Polled, ExecInv, ExecTypeOK, Held,
     storeVars, boundVars, remoteVars
<1>12. CASE CoordDecide
  BY <1>12 DEF CoordDecide, Polled, ExecInv, ExecTypeOK, Held,
     boundVars, remoteVars
<1>13. CASE CoordRefused
  BY <1>13, FreshTyped DEF CoordRefused, Polled, ExecInv, ExecTypeOK, Held, Idle, Free,
     storeVars, boundVars, remoteVars
<1>14. CASE CoordReload
  BY ZenonT(40), <1>3, <1>4, <1>14 DEF CoordReload, Polled, ExecInv, ExecTypeOK, Held,
     storeVars, boundVars, remoteVars
<1>15. CASE CoordReport
  <2>1. /\ coord' \in CoordType
        /\ coord'.pc \in {"idle", "raising"}
    BY <1>15, FreshTyped DEF CoordReport, Idle, CoordPcs
  <2>2. view' \in [Ids -> ViewRow \cup {NoRow}]
    BY <1>15 DEF CoordReport, ExecInv, ExecTypeOK
  <2>3. UNCHANGED <<storeVars, now, link, lane, boundVars, remoteVars>> /\ requested' = TRUE
    BY <1>15 DEF CoordReport
  <2> QED BY <2>1, <2>2, <2>3 DEF ExecInv, ExecTypeOK, Held, Holding, storeVars, boundVars, remoteVars
<1>16. CASE CoordRaises
  BY <1>16 DEF CoordRaises, Polled, ExecInv, ExecTypeOK, Held, storeVars, boundVars, remoteVars
<1> QED BY <1>6, <1>7, <1>8, <1>9, <1>10, <1>11, <1>12, <1>13, <1>14, <1>15, <1>16 DEF CoordStep

LEMMA LaneTyped ==
    ASSUME ExecInv, StoreTypeOK', LaneStep
    PROVE  ExecInv'
<1>1. StoreTypeOK /\ lane.pc \in LanePcs
  BY DEF ExecInv, ExecTypeOK
<1>2. ASSUME NEW i \in Ids
      PROVE  Shown(outbox[i]) \in ViewRow \cup {NoRow}
  BY <1>1, ShownTyped DEF StoreTypeOK
<1> USE DEF LanePcs
<1>3. CASE LaneAdmit
  <2>1. nextId \in Ids
    BY <1>3 DEF LaneAdmit, Admit
  <2> QED BY <1>3, <2>1 DEF LaneAdmit, ExecInv, ExecTypeOK, Held, boundVars, remoteVars
<1>4. CASE LaneLook
  <2>1. CASE outbox[lane.item] = NoRow
    BY <1>4, <2>1, FreshTyped DEF LaneLook, ExecInv, ExecTypeOK, Held,
       storeVars, boundVars, remoteVars
  <2>2. CASE outbox[lane.item] # NoRow
    <3>1. lane.item \in Ids
      BY <1>4 DEF LaneLook, ExecInv, Held
    <3>2. lane' = [lane EXCEPT !.pc = "looked"] /\ lane \in LaneType
      BY <1>4, <2>2 DEF LaneLook, ExecInv, ExecTypeOK
    <3>3. lane' \in LaneType /\ lane'.item = lane.item
      BY <3>2
    <3>4. UNCHANGED <<storeVars, now, link, coord, requested, view, boundVars, remoteVars>>
      BY <1>4, <2>2 DEF LaneLook
    <3> QED BY <3>1, <3>3, <3>4 DEF ExecInv, ExecTypeOK, Held, storeVars, boundVars, remoteVars
  <2> QED BY <2>1, <2>2
<1>5. CASE LaneAct
  <2>1. lane.item \in Ids
    BY <1>5 DEF LaneAct, ExecInv, Held
  <2>2. PICK pc \in {"acted", "reporting"} : lane' = [lane EXCEPT !.pc = pc]
    BY <1>5 DEF LaneAct
  <2>3. /\ lane' \in LaneType
        /\ lane'.item \in Ids
    BY <2>1, <2>2 DEF ExecInv, ExecTypeOK
  <2>4. UNCHANGED <<now, link, coord, requested, view, boundVars, remoteVars>>
    BY <1>5 DEF LaneAct
  <2> QED BY <2>3, <2>4 DEF ExecInv, ExecTypeOK, Held, boundVars, remoteVars
<1>6. CASE LaneRefused
  <2>1. lane.item \in Ids /\ lane \in LaneType /\ lane' = [lane EXCEPT !.pc = "refused"]
    BY <1>6 DEF LaneRefused, ExecInv, ExecTypeOK, Held
  <2>2. lane' \in LaneType /\ lane'.item \in Ids
    BY <2>1
  <2>3. UNCHANGED <<storeVars, now, link, coord, requested, view, boundVars, remoteVars>>
    BY <1>6 DEF LaneRefused
  <2> QED BY <2>2, <2>3 DEF ExecInv, ExecTypeOK, Held, storeVars, boundVars, remoteVars
<1>7. CASE LaneReload
  <2>1. lane.item \in Ids
    BY <1>7 DEF LaneReload, ExecInv, Held
  <2>2. PICK pc \in {"failing", "reporting"} :
            lane' = [lane EXCEPT !.pc = pc, !.seen = Shown(outbox[lane.item])]
    BY <1>7 DEF LaneReload
  <2>3. /\ lane' \in LaneType
        /\ lane'.item \in Ids
    BY <1>2, <2>1, <2>2 DEF ExecInv, ExecTypeOK
  <2>4. UNCHANGED <<storeVars, now, link, coord, requested, view, boundVars, remoteVars>>
    BY <1>7 DEF LaneReload
  <2> QED BY <2>3, <2>4 DEF ExecInv, ExecTypeOK, Held, storeVars, boundVars, remoteVars
<1>8. CASE LaneReport
  <2>1. view' \in [Ids -> ViewRow \cup {NoRow}]
    BY <1>8 DEF LaneReport, ExecInv, ExecTypeOK
  <2> QED BY <1>8, <2>1, FreshTyped DEF LaneReport, ExecInv, ExecTypeOK, Held,
          storeVars, boundVars, remoteVars
<1>9. CASE LaneFails
  BY <1>9, FreshTyped DEF LaneFails, ExecInv, ExecTypeOK, Held, Holding,
     storeVars, boundVars, remoteVars
<1>10. CASE LanePanics
  BY <1>10, FreshTyped DEF LanePanics, ExecInv, ExecTypeOK, Held, Holding,
     storeVars, boundVars, remoteVars
<1> QED BY <1>3, <1>4, <1>5, <1>6, <1>7, <1>8, <1>9, <1>10 DEF LaneStep

\* A request on the wire names the item and the part the coordinator executes.
LEMMA RequestTyped ==
    ASSUME ExecInv, coord.pc \in {"calling", "sent"}
    PROVE  Request \in [item : Ids, part : Parts, attempt : Nat, once : BOOLEAN]
BY DEF Request, ExecInv, ExecTypeOK, Held, Holding, CoordPcs

\* A success leaves the coordinator with the answer of the item it holds.
LEMMA SuccessTyped ==
    ASSUME ExecInv, StoreTypeOK', Answer("success", 0), coord.pc \in Holding,
           UNCHANGED <<storeVars, now, link, requested, lane, view, boundVars, remoteVars>>
    PROVE  ExecInv'
<1>1. coord' = [coord EXCEPT !.pc = "answered", !.answer = [kind |-> "success", delay |-> 0]]
  BY DEF Answer
<1>2. [kind |-> "success", delay |-> 0] \in [kind : AnswerKinds, delay : Nat]
  BY DEF AnswerKinds
<1>3. /\ coord' \in CoordType /\ coord'.pc = "answered"
      /\ coord'.item \in Ids /\ coord'.answer.kind = "success"
  BY <1>1, <1>2 DEF ExecInv, ExecTypeOK, Held, CoordPcs
<1> QED BY <1>3 DEF ExecInv, ExecTypeOK, Held, Holding, storeVars, boundVars, remoteVars

LEMMA ServedTyped ==
    ASSUME ExecInv, StoreTypeOK', Served
    PROVE  ExecInv'
<1> USE DEF CoordPcs, Holding
<1>1. CASE SendPart
  <2>1. Request \in [item : Ids, part : Parts, attempt : Nat, once : BOOLEAN]
    BY <1>1, RequestTyped DEF SendPart, Calling
  <2> QED BY <1>1, <2>1 DEF SendPart, Calling, ExecInv, ExecTypeOK, Held, storeVars, boundVars
<1>2. CASE Acknowledge
  <2>1. coord.pc = "sent" /\ coord.item \in Ids /\ coord \in CoordType /\ coord.part \in Parts
        /\ UNCHANGED <<storeVars, now, link, requested, lane, view, boundVars, remoteVars>>
    BY <1>2 DEF Acknowledge, Calling, ExecInv, ExecTypeOK, Held
  <2>2. CASE /\ coord.part < PartsOf(coord.operation)
             /\ coord' = [coord EXCEPT !.pc = "calling", !.part = coord.part + 1]
    <3>1. coord.part + 1 \in Parts /\ coord.part + 1 \in 0..SendParts
      BY <2>1, <2>2, ExecutionAssumption DEF PartsOf, Parts
    <3>2. /\ coord' \in CoordType /\ coord'.pc = "calling"
          /\ coord'.item \in Ids /\ coord'.part \in Parts
      BY <2>1, <2>2, <3>1
    <3> QED BY <2>1, <3>2 DEF ExecInv, ExecTypeOK, Held, storeVars, boundVars, remoteVars
  <2>3. CASE Answer("success", 0)
    BY <2>1, <2>3, SuccessTyped
  <2>4. ASSUME NEW next \in {"reading", "submitting"}, coord' = [coord EXCEPT !.pc = next]
        PROVE  ExecInv'
    <3>1. /\ coord' \in CoordType /\ coord'.pc \in {"reading", "submitting"}
          /\ coord'.item \in Ids /\ coord'.part \in Parts
      BY <2>1, <2>4
    <3> QED BY <2>1, <3>1 DEF ExecInv, ExecTypeOK, Held, storeVars, boundVars, remoteVars
  <2> QED BY <1>2, <2>2, <2>3, <2>4 DEF Acknowledge
<1>4. CASE ReadAgain
  BY <1>4, SuccessTyped DEF ReadAgain, Calling
<1>5. CASE PopSubmission
  <2>1. /\ coord' \in CoordType /\ coord'.pc = "popped" /\ coord'.item \in Ids
        /\ UNCHANGED <<storeVars, now, link, requested, lane, view, boundVars, remoteVars>>
    BY <1>5 DEF PopSubmission, ExecInv, ExecTypeOK, Held
  <2> QED BY <2>1 DEF ExecInv, ExecTypeOK, Held, storeVars, boundVars, remoteVars
<1>6. CASE CommitSubmission
  BY <1>6, SuccessTyped DEF CommitSubmission
<1>3. ASSUME NEW request \in wire, Lands(request)
      PROVE  ExecInv'
  <2>1. /\ request.item \in Ids /\ request.part \in Parts
        /\ applied \in [Ids -> [Parts -> Nat]]
    BY DEF ExecInv, ExecTypeOK
  <2> DEFINE counts == applied[request.item]
             count == IF request.once THEN 1 ELSE counts[request.part] + 1
  <2>2. counts \in [Parts -> Nat] /\ count \in Nat
    <3>1. counts \in [Parts -> Nat]
      BY <2>1
    <3>2. counts[request.part] + 1 \in Nat
      BY <2>1, <3>1
    <3> QED BY <3>1, <3>2
  <2>3. [counts EXCEPT ![request.part] = count] \in [Parts -> Nat]
    BY <2>2
  <2>4. applied' = [applied EXCEPT ![request.item] = [counts EXCEPT ![request.part] = count]]
    BY <1>3, <2>1 DEF Lands
  <2> HIDE DEF counts, count
  <2>5. applied' \in [Ids -> [Parts -> Nat]]
    BY <2>1, <2>3, <2>4
  <2>6. wire' \subseteq wire
    BY <1>3 DEF Lands
  <2> QED BY <1>3, <2>5, <2>6 DEF Lands, ExecInv, ExecTypeOK, Held,
          storeVars, sessionVars, boundVars
<1> QED BY <1>1, <1>2, <1>3, <1>4, <1>5, <1>6 DEF Served

LEMMA FailureTyped ==
    ASSUME ExecInv, StoreTypeOK', Failure
    PROVE  ExecInv'
<1>1. /\ Times = 0..MaxTime /\ MaxFaults \in Nat /\ Delays \subseteq Nat /\ MaxTime \in Nat
      /\ coord.since \in Nat /\ now \in Nat /\ faults \in 0..MaxFaults
  BY ExecutionAssumption DEF ExecInv, ExecTypeOK
<1>2. Fault => faults' \in 0..MaxFaults /\ acts' = acts
  BY <1>1 DEF Fault
<1>3. coord.pc \in {"calling", "sent", "reading"} => coord.item \in Ids
  BY DEF ExecInv, Held, Holding, CoordPcs
\* An answer is well typed, and one that defers has room for its retry.
<1>4. ASSUME NEW kind \in AnswerKinds \ {"none"}, NEW d \in Nat, Answer(kind, d),
             coord.pc \in {"calling", "sent", "reading"},
             kind \in {"flood", "capacity", "lost"} => Room(1),
             kind = "flood" => Room(d)
      PROVE  /\ coord' \in CoordType
             /\ coord'.pc = "answered" /\ coord'.item \in Ids /\ coord'.answer.kind = kind
             /\ kind \in {"flood", "capacity", "lost"}
                   => RetryAt(coord'.since, coord'.answer) \in Times
  <2>1. coord' = [coord EXCEPT !.pc = "answered", !.answer = [kind |-> kind, delay |-> d]]
    BY <1>4 DEF Answer
  <2>2. [kind |-> kind, delay |-> d] \in [kind : AnswerKinds, delay : Nat]
    BY <1>4
  <2>3. /\ coord' \in CoordType
        /\ coord'.pc = "answered" /\ coord'.item = coord.item /\ coord'.since = coord.since
        /\ coord'.answer = [kind |-> kind, delay |-> d]
    BY <2>1, <2>2 DEF ExecInv, ExecTypeOK, CoordPcs
  <2>4. kind \in {"flood", "capacity", "lost"} =>
            /\ coord.since + 1 \in 0..MaxTime
            /\ kind = "flood" => coord.since + d \in 0..MaxTime
    BY <1>1, <1>4 DEF Room
  <2>5. kind \in {"flood", "capacity", "lost"} =>
            RetryAt(coord.since, [kind |-> kind, delay |-> d]) \in 0..MaxTime
    BY <2>4 DEF RetryAt
  <2> QED BY <1>1, <1>3, <1>4, <2>3, <2>5
<1>5. CASE Refuse
  <2>1. wire' \subseteq wire /\ coord.pc = "sent" /\ Fault
    BY <1>5 DEF Refuse, Calling
  <2>2. PICK kind \in {"refused", "flood"}, d \in Nat :
            /\ Answer(kind, d)
            /\ kind = "flood" => Room(1) /\ Room(d)
            /\ kind = "refused" => notBefore' = notBefore
            /\ kind = "flood" => notBefore' = [notBefore EXCEPT ![coord.item] = now + d]
    BY <1>1, <1>5 DEF Refuse
  <2>3. notBefore' \in [Ids -> Nat]
    <3>1. now + d \in Nat /\ notBefore \in [Ids -> Nat]
      BY <1>1 DEF ExecInv, ExecTypeOK
    <3> QED BY <2>2, <3>1
  <2>4. /\ coord' \in CoordType
        /\ coord'.pc = "answered" /\ coord'.item \in Ids /\ coord'.answer.kind = kind
        /\ kind \in {"flood", "capacity", "lost"}
              => RetryAt(coord'.since, coord'.answer) \in Times
    BY <1>4, <2>1, <2>2 DEF AnswerKinds
  <2> QED BY <1>2, <1>5, <2>1, <2>3, <2>4
          DEF Refuse, ExecInv, ExecTypeOK, Held, storeVars
<1>6. CASE Lose \/ Withhold \/ Misread \/ NotRead
  <2>1. /\ coord.pc \in {"calling", "sent", "reading"} /\ Fault
        /\ UNCHANGED <<storeVars, now, link, requested, lane, view, wire, applied, tries,
                       notBefore>>
        /\ unread' \subseteq Ids
    BY <1>3, <1>6 DEF Lose, Withhold, Misread, NotRead, Calling, ExecInv, ExecTypeOK, remoteVars
  <2>2. PICK kind \in {"lost", "capacity", "refused", "corrupt"} :
            Answer(kind, 0) /\ (kind \in {"lost", "capacity"} => Room(1))
    BY <1>6 DEF Lose, Withhold, Misread, NotRead
  <2>3. /\ coord' \in CoordType
        /\ coord'.pc = "answered" /\ coord'.item \in Ids /\ coord'.answer.kind = kind
        /\ kind \in {"flood", "capacity", "lost"}
              => RetryAt(coord'.since, coord'.answer) \in Times
    BY <1>4, <2>1, <2>2 DEF AnswerKinds
  <2> QED BY <1>2, <2>1, <2>3 DEF ExecInv, ExecTypeOK, Held, storeVars
<1>9. CASE SubmissionFails
  BY <1>2, <1>9, FreshTyped DEF SubmissionFails, ExecInv, ExecTypeOK, Held, Holding, Free,
     storeVars, remoteVars
<1>7. CASE Disconnect
  BY <1>2, <1>7 DEF Disconnect, ExecInv, ExecTypeOK, Held, storeVars, remoteVars
<1>8. CASE Crash
  BY <1>2, <1>8, FreshTyped DEF Crash, ExecInv, ExecTypeOK, Held, Holding, storeVars, remoteVars
<1> QED BY <1>5, <1>6, <1>7, <1>8, <1>9 DEF Failure

LEMMA SessionTyped ==
    ASSUME ExecInv, StoreTypeOK', SessionStep
    PROVE  ExecInv'
<1>1. CASE CloseSession
  BY <1>1, FreshTyped DEF CloseSession, ExecInv, ExecTypeOK, Held, Holding,
     storeVars, boundVars, remoteVars
<1>2. CASE Reopen
  BY <1>2 DEF Reopen, ExecInv, ExecTypeOK, Held, boundVars, remoteVars
<1>3. CASE Launch
  <2>1. \A i \in Ids : outbox'[i] \in Row \cup {NoRow}
    BY DEF StoreTypeOK
  <2>2. \A i \in Ids : Shown(outbox'[i]) \in ViewRow \cup {NoRow}
    BY <2>1, ShownTyped
  <2> QED BY <1>3, <2>2 DEF Launch, ExecInv, ExecTypeOK, Held, boundVars, remoteVars
<1>4. CASE Exit
  BY <1>4, FreshTyped DEF Exit, ExecInv, ExecTypeOK, Held, Holding, storeVars, boundVars,
     remoteVars
<1> QED BY <1>1, <1>2, <1>3, <1>4 DEF SessionStep

LEMMA UserTyped ==
    ASSUME ExecInv, StoreTypeOK', UserRequest
    PROVE  ExecInv'
<1>1. ASSUME NEW i \in Ids, AskAction(i)
      PROVE  ExecInv'
  <2>1. acts' \in 0..MaxActs
    <3>1. acts \in 0..MaxActs /\ acts < MaxActs /\ acts' = acts + 1
      BY <1>1 DEF AskAction, ExecInv, ExecTypeOK
    <3>2. MaxActs \in Nat
      BY ExecutionAssumption
    <3> QED BY <3>1, <3>2
  <2>2. PICK action \in Offered(view[i]) :
            lane' = [Free EXCEPT !.pc = "asked", !.item = i, !.action = action]
    BY <1>1 DEF AskAction
  <2>3. view[i] \in ViewRow \cup {NoRow}
    BY DEF ExecInv, ExecTypeOK
  <2>4. action \in {"cancel", "retry", "resolve_conflict", "resolve_unknown", "dismiss"}
    BY <2>2, <2>3 DEF Offered, ViewRow, States
  <2>5. lane' \in LaneType /\ lane'.pc = "asked" /\ lane'.item = i
    BY <2>2, <2>4, FreshTyped DEF LanePcs
  <2> QED BY <1>1, <2>1, <2>5 DEF AskAction, ExecInv, ExecTypeOK, Held, storeVars, remoteVars
<1>2. ASSUME NEW operation \in Admitted, AskSend(operation)
      PROVE  ExecInv'
  <2>1. operation \in Operations
    BY ExecutionAssumption
  <2>2. lane' \in LaneType /\ lane'.pc = "asked" /\ lane'.action = operation
    BY <1>2, <2>1, FreshTyped DEF AskSend, LanePcs
  <2> QED BY <1>2, <2>1, <2>2 DEF AskSend, ExecInv, ExecTypeOK, Held,
          storeVars, boundVars, remoteVars
<1> QED BY <1>1, <1>2 DEF UserRequest

LEMMA ExecInvStep ==
    ASSUME ExecInv, StoreTypeOK', [ExecNext]_execVars
    PROVE  ExecInv'
<1>1. CASE Tick
  BY <1>1, ExecutionAssumption DEF Tick, ExecInv, ExecTypeOK, Held,
     storeVars, sessionVars, boundVars, remoteVars
<1>2. CASE UNCHANGED execVars
  BY <1>2 DEF execVars, ExecInv, ExecTypeOK, Held
<1> QED BY <1>1, <1>2, CoordTyped, LaneTyped, ServedTyped, FailureTyped, SessionTyped, UserTyped
        DEF ExecNext

LEMMA ExecInvInit == ExecInit => ExecInv /\ StoreInv
<1> SUFFICES ASSUME ExecInit
             PROVE  ExecInv /\ StoreInv
  OBVIOUS
<1>1. StoreInv
  BY StoreInvInit DEF ExecInit
<1>2. 0 \in 0..MaxTime /\ 0 \in 0..MaxFaults /\ 0 \in 0..MaxActs
  BY ExecutionAssumption
<1>3. StoreTypeOK
  BY <1>1 DEF StoreInv
<1> QED BY <1>1, <1>2, <1>3, FreshTyped DEF ExecInit, ExecInv, ExecTypeOK, Held, Holding

\* The invariant of the table is carried along: a step keeps the types because it
\* is a command of the store, and the store's commands keep theirs.
LEMMA ExecInvariant == ExecSpec => [](ExecInv /\ StoreInv)
<1>1. ExecInv /\ StoreInv /\ [ExecNext]_execVars => (ExecInv /\ StoreInv)'
  <2> SUFFICES ASSUME ExecInv, StoreInv, [ExecNext]_execVars
               PROVE  ExecInv' /\ StoreInv'
    OBVIOUS
  <2>1. StoreInv'
    BY ExecStepStores, StoreInvStep
  <2>2. StoreTypeOK'
    BY <2>1 DEF StoreInv
  <2> QED BY <2>1, <2>2, ExecInvStep
<1> QED BY <1>1, ExecInvInit, PTL DEF ExecSpec

-------------------------------------------------------------------------------
\* Type correctness, for any number of items, attachments, faults and decisions:
\* what the coordinator and the lane hold is always an item they may hold.
THEOREM ExecTypeCorrect == ExecSpec => []ExecTypeOK
BY ExecInvariant, PTL DEF ExecInv

\* The coordinator, the lane, the user, the failures of Telegram and the reopenings
\* of the session, in any order, use the table only by the commands of OutboxStore.
THEOREM ExecutionImplementsStore == ExecSpec => StoreSpec
<1>1. ExecInit => StoreInit
  BY DEF ExecInit
<1>2. ExecInv /\ [ExecNext]_execVars => [StoreNext]_storeVars
  BY ExecStepStores
<1> QED BY <1>1, <1>2, ExecInvariant, PTL DEF ExecSpec, StoreSpec

\* What the table promises therefore holds of the application that uses it: first
\* in admission order first, one item in progress, and no item leaves unless it is
\* acknowledged or dismissed.
THEOREM ExecutionKeepsPromise == ExecSpec => KeepsPromise
BY ExecutionImplementsStore, StoreKeepsPromise, PTL

-------------------------------------------------------------------------------
(***************************************************************************)
(* The coordinator owns the active row.  While the session is up only the  *)
(* coordinator claims and settles; the lane moves rows among the queued    *)
(* and the held ones, or marks the claimed one.  A session is reopened     *)
(* only with an idle coordinator, and recovery leaves no row active.       *)
(***************************************************************************)
Owned == CoordinatorOwnsActive /\ (link \in {"down", "off"} => coord.pc = "idle")

LEMMA TransitionActive ==
    ASSUME StoreTypeOK, NEW i \in Ids, NEW allowed, NEW state \in States,
           NEW available \in Times \cup {NoTime}, Transition(i, allowed, state, available)
    PROVE  /\ state \in ActiveStates => Active' = Active \cup {i}
           /\ state \notin ActiveStates => Active' = Active \ {i}
           /\ i \in Live(outbox) /\ outbox[i].state \in allowed
<1>1. /\ outbox[i] \in Row /\ i \in Live(outbox) /\ outbox[i].state \in allowed
      /\ outbox' = [outbox EXCEPT ![i] = Moved(@, state, available)]
      /\ outbox \in [Ids -> Row \cup {NoRow}]
  BY DEF Transition, InState, Live, StoreTypeOK
<1>2. /\ outbox'[i] \in Row /\ outbox'[i].state = state
      /\ \A j \in Ids \ {i} : outbox'[j] = outbox[j]
  BY <1>1 DEF Moved, Row
<1>3. outbox'[i] # NoRow
  BY <1>2, NoRowAssumption
<1> QED BY <1>1, <1>2, <1>3 DEF Active, InState, Live

LEMMA RemoveActive ==
    ASSUME StoreTypeOK, NEW i \in Ids, NEW allowed, Remove(i, allowed)
    PROVE  /\ Active' = Active \ {i}
           /\ outbox[i].state \in allowed
BY DEF Remove, Active, InState, Live, StoreTypeOK

LEMMA AdmitActive ==
    ASSUME StoreInv, NEW operation, NEW admitted, NEW expires,
           Admit(operation, admitted, expires)
    PROVE  Active' = Active
<1>1. nextId \notin Live(outbox)
  BY DEF StoreInv, IdentitiesFresh, StoreTypeOK
<1>2. /\ outbox'[nextId].state = "ready"
      /\ \A j \in Ids \ {nextId} : outbox'[j] = outbox[j]
  BY DEF Admit, StoreInv, StoreTypeOK
<1> QED BY <1>1, <1>2 DEF Active, InState, Live, ActiveStates

LEMMA SweptActive ==
    ASSUME StoreTypeOK, NEW t \in Times, NEW i \in Ids
    PROVE  InState(Swept(t), i, ActiveStates) <=> i \in Active
<1>1. \/ Swept(t)[i] = outbox[i]
      \/ i \in Runnable(outbox) /\ Swept(t)[i].state = "expired"
  BY SweptRows
<1>2. Live(Swept(t)) = Live(outbox)
  BY SweptRows
<1> QED BY <1>1, <1>2 DEF Active, Runnable, InState, ActiveStates, RunnableStates

LEMMA ClaimActive ==
    ASSUME StoreTypeOK, NEW t \in Times
    PROVE  /\ ClaimIdle(t) => Active' = {}
           /\ \A i \in Ids : ClaimWaiting(i, t) => Active' = {}
           /\ \A i \in Ids : ClaimHead(i, t) => Active' = {i}
<1>1. ASSUME Active = {}, outbox' = Swept(t)
      PROVE  Active' = {}
  BY <1>1, SweptActive DEF Active
<1>2. ASSUME NEW i \in Ids, ClaimHead(i, t)
      PROVE  Active' = {i}
  <2>1. /\ Active = {} /\ i \in Runnable(Swept(t))
        /\ Swept(t) \in [Ids -> Row \cup {NoRow}]
        /\ outbox' = [Swept(t) EXCEPT ![i] = Moved(@, "in_flight", NoTime)]
    BY <1>2, SweptRows DEF ClaimHead, IsHead
  <2>2. Swept(t)[i] \in Row
    BY <2>1 DEF Runnable, InState, Live
  <2>3. /\ outbox'[i] \in Row /\ outbox'[i].state = "in_flight"
        /\ \A j \in Ids \ {i} : outbox'[j] = Swept(t)[j]
    BY <2>1, <2>2 DEF Moved, Row, States
  <2>4. outbox'[i] # NoRow
    BY <2>3, NoRowAssumption
  <2>5. i \in Active'
    BY <2>3, <2>4 DEF Active, InState, Live, ActiveStates
  <2>6. ASSUME NEW j \in Ids \ {i}
        PROVE  j \notin Active'
    <3>1. ~InState(Swept(t), j, ActiveStates)
      BY <2>1, SweptActive
    <3> QED BY <2>3, <3>1 DEF Active, InState, Live
  <2> QED BY <2>5, <2>6 DEF Active
<1> QED BY <1>1, <1>2 DEF ClaimIdle, ClaimWaiting

LEMMA RecoverActive ==
    ASSUME StoreTypeOK, Recover
    PROVE  Active' = {}
<1>1. ASSUME NEW i \in Ids, i \in Active'
      PROVE  FALSE
  <2>1. outbox'[i] = Recovered(outbox[i]) /\ outbox'[i] # NoRow
    BY <1>1 DEF Recover, Active, InState, Live
  <2>2. outbox[i] \in Row
    BY <2>1 DEF Recovered, StoreTypeOK
  <2>3. Recovered(outbox[i]).state \notin ActiveStates
    BY <2>2, RecoveredRow
  <2> QED BY <1>1, <2>1, <2>3 DEF Active, InState
<1> QED BY <1>1 DEF Active

\* The user's decisions move rows among the queued and the held ones, or mark the
\* claimed one.
LEMMA ActActive ==
    ASSUME StoreTypeOK, NEW i \in Ids, NEW action, Act(i, action)
    PROVE  Active' = Active
<1>1. /\ "cancelled" \in States \ ActiveStates /\ "ready" \in States \ ActiveStates
      /\ "cancel_requested" \in States \cap ActiveStates
      /\ NoTime \in Times \cup {NoTime}
  BY DEF States, ActiveStates
<1>2. ASSUME NEW held, \A from \in held : from \notin ActiveStates,
             NEW state \in States \ ActiveStates, Transition(i, held, state, NoTime)
      PROVE  Active' = Active
  <2>1. Active' = Active \ {i} /\ outbox[i].state \in held
    BY <1>1, <1>2, TransitionActive
  <2>2. i \notin Active
    BY <1>2, <2>1 DEF Active, InState
  <2> QED BY <2>1, <2>2
<1>3. CASE Transition(i, RunnableStates, "cancelled", NoTime)
  <2>1. \A from \in RunnableStates : from \notin ActiveStates
    BY DEF RunnableStates, ActiveStates
  <2> QED BY <1>1, <1>2, <1>3, <2>1
<1>4. CASE Transition(i, {"in_flight"}, "cancel_requested", NoTime)
  <2>1. Active' = Active \cup {i} /\ i \in Live(outbox) /\ outbox[i].state \in {"in_flight"}
    BY <1>1, <1>4, TransitionActive
  <2>2. i \in Active
    BY <2>1 DEF Active, InState, ActiveStates
  <2> QED BY <2>1, <2>2
<1>5. ASSUME NEW from \in {"failed", "conflict", "outcome_unknown"},
             Transition(i, {from}, "ready", NoTime)
      PROVE  Active' = Active
  <2>1. \A s \in {from} : s \notin ActiveStates
    BY DEF ActiveStates
  <2> QED BY <1>1, <1>2, <1>5, <2>1
<1>6. CASE Dismiss(i)
  <2>1. Active' = Active \ {i} /\ outbox[i].state \in HeldStates
    BY <1>6, RemoveActive DEF Dismiss
  <2>2. i \notin Active
    BY <2>1 DEF Active, InState, HeldStates, ActiveStates
  <2> QED BY <2>1, <2>2
<1> QED BY <1>3, <1>4, <1>5, <1>6
        DEF Act, Cancel, Retry, ResolveConflict, ResolveOutcomeUnknown

LEMMA OwnedCoord ==
    ASSUME ExecInv, StoreInv, Owned, CoordStep
    PROVE  Owned'
<1>1. StoreTypeOK /\ now \in Times
  BY ExecutionAssumption DEF StoreInv, ExecInv, ExecTypeOK
<1>2. /\ link = "up"
      /\ coord.pc \in Executing => Active = {coord.item} /\ coord.item \in Ids
      /\ coord.pc \notin Executing => Active = {}
  BY DEF CoordStep, CoordClaim, CoordWakes, CoordStart, CoordComplete, CoordRemoved,
         CoordInspect, CoordDecide, CoordRefused, CoordReload, CoordReport, CoordRaises,
         Polled, Owned, CoordinatorOwnsActive, ExecInv, Held, Holding, Executing, CoordPcs
<1>3. CASE CoordClaim
  <2>1. CASE ClaimIdle(now) /\ coord' = Idle
    BY <1>1, <1>2, <1>3, <2>1, ClaimActive, FreshTyped
       DEF CoordClaim, Owned, CoordinatorOwnsActive, Executing
  <2>2. ASSUME NEW i \in Ids, ClaimWaiting(i, now),
               coord' = [Idle EXCEPT !.pc = "sleeping", !.since = outbox[i].available]
        PROVE  Owned'
    <3>1. Active' = {} /\ coord'.pc = "sleeping"
      BY <1>1, <2>2, ClaimActive DEF Idle
    <3> QED BY <1>2, <1>3, <3>1 DEF CoordClaim, Owned, CoordinatorOwnsActive, Executing
  <2>3. ASSUME NEW i \in Ids, ClaimHead(i, now),
               coord' = [Idle EXCEPT !.pc = "claimed", !.item = i,
                                     !.operation = outbox[i].operation]
        PROVE  Owned'
    <3>1. Active' = {i} /\ coord'.pc = "claimed" /\ coord'.item = i
      BY <1>1, <2>3, ClaimActive DEF Idle
    <3> QED BY <1>2, <1>3, <3>1 DEF CoordClaim, Owned, CoordinatorOwnsActive, Executing
  <2> QED BY <1>3, <2>1, <2>2, <2>3 DEF CoordClaim
<1>4. CASE CoordComplete
  <2>1. Active' = {} /\ coord'.pc = "completing"
    BY <1>1, <1>2, <1>4, RemoveActive
       DEF CoordComplete, Polled, Complete, Executing, ExecInv, ExecTypeOK
  <2> QED BY <1>2, <1>4, <2>1 DEF CoordComplete, Owned, CoordinatorOwnsActive, Executing
<1>5. CASE CoordDecide
  <2>1. /\ coord.pc = "inspected" /\ coord.item \in Ids /\ Active = {coord.item}
        /\ coord'.pc = "stored" /\ link' = link
    BY <1>2, <1>5 DEF CoordDecide, Polled, Executing, ExecInv, ExecTypeOK
  <2>2. PICK allowed \in SUBSET States, state \in States \ ActiveStates,
             available \in Times \cup {NoTime} :
             Transition(coord.item, allowed, state, available)
    BY <1>5, OutcomeStored
  <2>3. Active' = Active \ {coord.item}
    BY <1>1, <2>1, <2>2, TransitionActive
  <2>4. Active' = {}
    BY <2>1, <2>3
  <2> QED BY <1>2, <2>1, <2>4 DEF Owned, CoordinatorOwnsActive, Executing
<1>6. CASE CoordWakes \/ CoordRemoved \/ CoordReport
  <2>1. coord'.pc \in {"idle", "raising"} /\ coord.pc \notin Executing
    BY <1>6, FreshTyped DEF CoordWakes, CoordRemoved, CoordReport, Polled, Idle, Executing
  <2>2. UNCHANGED <<outbox, link>>
    BY <1>6 DEF CoordWakes, CoordRemoved, CoordReport, storeVars
  <2> QED BY <1>2, <2>1, <2>2 DEF Owned, CoordinatorOwnsActive, Executing, Active, InState, Live
<1>7. CASE CoordStart \/ CoordInspect \/ CoordReload
  <2>1. /\ coord'.item = coord.item /\ UNCHANGED <<outbox, link>>
        /\ coord'.pc \in Executing <=> coord.pc \in Executing
    BY <1>7 DEF CoordStart, CoordInspect, CoordReload, Polled, Executing, storeVars,
       ExecInv, ExecTypeOK
  <2> QED BY <1>2, <2>1 DEF Owned, CoordinatorOwnsActive, Active, InState, Live
<1>8. CASE CoordRefused
  BY <1>8, FreshTyped DEF CoordRefused, Owned, CoordinatorOwnsActive
<1>9. CASE CoordRaises
  BY <1>9 DEF CoordRaises, Owned, CoordinatorOwnsActive
<1> QED BY <1>3, <1>4, <1>5, <1>6, <1>7, <1>8, <1>9 DEF CoordStep

LEMMA OwnedLane ==
    ASSUME ExecInv, StoreInv, Owned, LaneStep
    PROVE  Owned'
<1>1. StoreTypeOK
  BY DEF StoreInv
<1>2. CASE LaneAdmit
  <2>1. Active' = Active
    BY <1>2, AdmitActive DEF LaneAdmit
  <2> QED BY <1>2, <2>1 DEF LaneAdmit, Owned, CoordinatorOwnsActive
<1>3. CASE LaneAct
  <2>1. lane.item \in Ids /\ Act(lane.item, lane.action) /\ UNCHANGED <<link, coord>>
    BY <1>3 DEF LaneAct, ExecInv, Held
  <2>2. Active' = Active
    BY <1>1, <2>1, ActActive
  <2> QED BY <2>1, <2>2 DEF Owned, CoordinatorOwnsActive
<1>4. CASE LaneFails \/ LanePanics
  BY <1>4, FreshTyped DEF LaneFails, LanePanics, Owned, CoordinatorOwnsActive
<1>5. CASE LaneLook \/ LaneRefused \/ LaneReload \/ LaneReport
  <2>1. UNCHANGED <<outbox, link, coord>>
    BY <1>5 DEF LaneLook, LaneRefused, LaneReload, LaneReport, storeVars
  <2> QED BY <2>1 DEF Owned, CoordinatorOwnsActive, Active, InState, Live
<1> QED BY <1>2, <1>3, <1>4, <1>5 DEF LaneStep

\* Every step keeps the coordinator the owner of the active row.
LEMMA OwnedStep ==
    ASSUME ExecInv, StoreInv, Owned, [ExecNext]_execVars
    PROVE  Owned'
<1>1. CASE SessionStep
  <2>1. CASE CloseSession
    BY <2>1, FreshTyped DEF CloseSession, Owned, CoordinatorOwnsActive
  <2>2. CASE Reopen
    <3>1. Active' = {} /\ link' = "up" /\ coord' = coord /\ coord.pc = "idle"
      BY <2>2, RecoverActive DEF Reopen, StoreInv, Owned
    <3> QED BY <3>1 DEF Owned, CoordinatorOwnsActive, Executing
  <2>3. CASE Launch \/ Exit
    BY <2>3, FreshTyped DEF Launch, Exit, Owned, CoordinatorOwnsActive
  <2> QED BY <1>1, <2>1, <2>2, <2>3 DEF SessionStep
<1>2. CASE Served \/ Refuse \/ Lose \/ Withhold \/ Misread \/ NotRead
  <2>1. /\ UNCHANGED <<outbox, link>> /\ coord'.item = coord.item
        /\ coord'.pc \in Executing <=> coord.pc \in Executing
        /\ coord.pc = "idle" => coord'.pc = "idle"
    BY <1>2 DEF Served, SendPart, Acknowledge, ReadAgain, PopSubmission, CommitSubmission, Lands,
       Refuse, Lose, Withhold, Misread, NotRead, Answer, Calling,
       Executing, storeVars, sessionVars, ExecInv, ExecTypeOK
  <2> QED BY <2>1 DEF Owned, CoordinatorOwnsActive, Active, InState, Live
<1>3. CASE Disconnect
  BY <1>3 DEF Disconnect, Owned, CoordinatorOwnsActive
<1>4. CASE Crash \/ SubmissionFails
  BY <1>4, FreshTyped DEF Crash, SubmissionFails, Owned, CoordinatorOwnsActive
<1>5. CASE UserRequest \/ Tick \/ UNCHANGED execVars
  <2>1. UNCHANGED <<outbox, link, coord>>
    BY <1>5 DEF UserRequest, AskAction, AskSend, Tick, execVars, storeVars, sessionVars
  <2> QED BY <2>1 DEF Owned, CoordinatorOwnsActive, Active, InState, Live
<1> QED BY <1>1, <1>2, <1>3, <1>4, <1>5, OwnedCoord, OwnedLane DEF ExecNext, Failure

\* While the session is up the coordinator owns the active row and no row is active
\* without it: no item stays in flight behind an idle coordinator, and no claim is
\* answered Busy.
THEOREM CoordinatorOwnsActiveAlways == ExecSpec => []CoordinatorOwnsActive
<1>1. ExecInit => Owned
  BY FreshTyped DEF ExecInit, StoreInit, Owned, CoordinatorOwnsActive, Active, InState, Live,
     Executing
<1>2. ExecInv /\ StoreInv /\ Owned /\ [ExecNext]_execVars => Owned'
  BY OwnedStep
<1>3. Owned => CoordinatorOwnsActive
  BY DEF Owned
<1> QED BY <1>1, <1>2, <1>3, ExecInvariant, PTL DEF ExecSpec

--------------------------------------------------------------------------------
(* A mutation takes effect at most once.                                   *)

\* The item was admitted, and with this operation if it is still in the table.
Known(i, operation) == /\ i < nextId
                       /\ outbox[i] # NoRow => outbox[i].operation = operation

ViewKnown == \A i \in Ids : view[i] # NoRow => Known(i, view[i].operation)

CoordKnown == /\ coord.pc \in Holding => Known(coord.item, coord.operation)
              /\ coord.pc \in {"inspected", "stored", "reporting"} /\ coord.seen # NoRow
                    => Known(coord.item, coord.seen.operation)

LaneKnown == /\ lane.pc # "free" /\ lane.action \notin Operations => Known(lane.item, "send")
             /\ lane.pc \notin {"free", "asked"} => lane.item < nextId
             /\ lane.pc \in {"reporting", "failing"} /\ lane.seen # NoRow
                   => Known(lane.item, lane.seen.operation)
             /\ lane.pc \notin {"reporting", "failing"} => lane.seen = NoRow
             /\ lane.pc = "looked" => lane.action \notin Operations

RemoteKnown == /\ \A request \in wire : request.item < nextId
               /\ \A i \in Ids : applied[i][1] # 0 => i < nextId

Tracked == ViewKnown /\ CoordKnown /\ LaneKnown /\ RemoteKnown

Unsent(i) == applied[i][1] = 0 /\ \A request \in wire : request.item # i

\* At most one request of the item may still land, and only if none has.
OnceAtMost(i) ==
    /\ applied[i][1] <= 1
    /\ \A r1, r2 \in wire : r1.item = i /\ r2.item = i => r1 = r2
    /\ \A request \in wire : request.item = i => applied[i][1] = 0

\* A mutation in the table, other than one that landed and could not be read again.
Mutation(i) == outbox[i] # NoRow /\ outbox[i].operation = "mutation" /\ i \notin unread

\* The states that say a mutation has not been applied: it may be sent again.
Resendable == {"ready", "deferred", "failed"}

\* The answers after which a mutation has not taken effect and will not, unless it
\* is the message that could not be read again.
NotApplied == {"flood", "capacity", "corrupt"}

Faithful ==
    /\ \A i \in Ids : Mutation(i) =>
          /\ OnceAtMost(i)
          /\ outbox[i].state \in Resendable => Unsent(i)
    /\ coord.pc \in {"claimed", "calling"} /\ Mutation(coord.item) => Unsent(coord.item)
    /\ coord.pc \in {"answered", "inspected"} /\ Mutation(coord.item)
          /\ coord.answer.kind \in NotApplied => Unsent(coord.item)
    /\ coord.pc = "inspected" => coord.seen # NoRow
-------------------------------------------------------------------------------
(* Rows keep their operation and identities are not given out twice.       *)

RowsStay ==
    /\ nextId <= nextId'
    /\ \A i \in Ids : i < nextId /\ outbox'[i] # NoRow =>
          outbox[i] # NoRow /\ outbox'[i].operation = outbox[i].operation

LEMMA TransitionStays ==
    ASSUME StoreTypeOK, NEW i \in Ids, NEW allowed, NEW state, NEW available,
           Transition(i, allowed, state, available)
    PROVE  RowsStay
<1>1. /\ outbox[i] \in Row /\ outbox[i] # NoRow
      /\ outbox' = [outbox EXCEPT ![i] = Moved(@, state, available)]
      /\ outbox \in [Ids -> Row \cup {NoRow}] /\ nextId' = nextId /\ nextId \in Nat
  BY DEF Transition, InState, Live, StoreTypeOK
<1>2. outbox'[i].operation = outbox[i].operation /\ \A j \in Ids \ {i} : outbox'[j] = outbox[j]
  BY <1>1 DEF Moved, Row
<1> QED BY <1>1, <1>2 DEF RowsStay

LEMMA RemoveStays ==
    ASSUME StoreTypeOK, NEW i \in Ids, NEW allowed, Remove(i, allowed)
    PROVE  RowsStay
BY DEF Remove, RowsStay, StoreTypeOK

LEMMA AdmitStays ==
    ASSUME StoreTypeOK, NEW operation, NEW admitted, NEW expires,
           Admit(operation, admitted, expires)
    PROVE  RowsStay
BY DEF Admit, RowsStay, StoreTypeOK

LEMMA ClaimStays ==
    ASSUME StoreTypeOK, NEW t \in Times
    PROVE  /\ ClaimIdle(t) => RowsStay
           /\ \A i \in Ids : ClaimWaiting(i, t) => RowsStay
           /\ \A i \in Ids : ClaimHead(i, t) => RowsStay
<1>1. \A i \in Ids : Swept(t)[i] # NoRow =>
          outbox[i] # NoRow /\ Swept(t)[i].operation = outbox[i].operation
  BY SweptRows DEF Live
<1>2. ASSUME outbox' = Swept(t), nextId' = nextId
      PROVE  RowsStay
  BY <1>1, <1>2 DEF RowsStay, StoreTypeOK
<1>3. ASSUME NEW i \in Ids, ClaimHead(i, t)
      PROVE  RowsStay
  <2>1. /\ Swept(t)[i] # NoRow /\ Swept(t) \in [Ids -> Row \cup {NoRow}]
        /\ outbox' = [Swept(t) EXCEPT ![i] = Moved(@, "in_flight", NoTime)]
        /\ nextId' = nextId /\ nextId \in Nat
    BY <1>3, SweptRows DEF ClaimHead, IsHead, Runnable, InState, Live, StoreTypeOK
  <2>2. /\ outbox'[i].operation = Swept(t)[i].operation
        /\ \A j \in Ids \ {i} : outbox'[j] = Swept(t)[j]
    BY <2>1 DEF Moved, Row
  <2> QED BY <1>1, <2>1, <2>2 DEF RowsStay
<1> QED BY <1>2, <1>3 DEF ClaimIdle, ClaimWaiting

LEMMA RecoverStays ==
    ASSUME StoreTypeOK, Recover
    PROVE  RowsStay
<1>1. ASSUME NEW i \in Ids, outbox'[i] # NoRow
      PROVE  outbox[i] # NoRow /\ outbox'[i].operation = outbox[i].operation
  <2>1. outbox'[i] = Recovered(outbox[i])
    BY DEF Recover
  <2>2. outbox[i] \in Row /\ outbox[i] # NoRow
    BY <1>1, <2>1 DEF Recovered, StoreTypeOK
  <2>3. Recovered(outbox[i]).operation = outbox[i].operation
    BY <2>2 DEF Recovered, Moved, Row
  <2> QED BY <2>1, <2>2, <2>3
<1> QED BY <1>1 DEF Recover, RowsStay, StoreTypeOK

LEMMA ActStays ==
    ASSUME StoreTypeOK, NEW i \in Ids, NEW action, Act(i, action)
    PROVE  RowsStay
BY TransitionStays, RemoveStays
   DEF Act, Cancel, Retry, ResolveConflict, ResolveOutcomeUnknown, Dismiss

LEMMA ExecStays ==
    ASSUME ExecInv, [ExecNext]_execVars
    PROVE  RowsStay
<1>1. StoreTypeOK /\ now \in Times
  BY ExecutionAssumption DEF ExecInv, ExecTypeOK
<1>2. CASE CoordClaim
  BY <1>1, <1>2, ClaimStays DEF CoordClaim
<1>3. CASE CoordComplete
  <2>1. coord.item \in Ids /\ Remove(coord.item, ActiveStates)
    BY <1>3 DEF CoordComplete, Polled, Complete, ExecInv, Held, Holding, CoordPcs
  <2> QED BY <1>1, <2>1, RemoveStays
<1>4. CASE CoordDecide
  <2>1. coord.item \in Ids
    BY <1>4 DEF CoordDecide, Polled, ExecInv, Held, Holding, CoordPcs
  <2> QED BY <1>1, <1>4, <2>1, OutcomeStored, TransitionStays
<1>5. CASE LaneAdmit
  BY <1>1, <1>5, AdmitStays DEF LaneAdmit
<1>6. CASE LaneAct
  BY <1>1, <1>6, ActStays DEF LaneAct, ExecInv, Held
<1>7. CASE Reopen \/ Launch
  BY <1>1, <1>7, RecoverStays DEF Reopen, Launch
<1>8. CASE UNCHANGED storeVars
  BY <1>1, <1>8 DEF RowsStay, StoreTypeOK, storeVars
<1>9. UNCHANGED execVars => UNCHANGED storeVars
  BY DEF execVars, storeVars
<1> QED BY <1>2, <1>3, <1>4, <1>5, <1>6, <1>7, <1>8, <1>9
        DEF ExecNext, CoordStep, CoordWakes, CoordStart, CoordRemoved, CoordInspect,
            CoordRefused, CoordReload, CoordReport, CoordRaises, LaneStep, LaneLook, LaneRefused,
            LaneReload, LanePanics, LaneReport,
            LaneFails, SessionStep, CloseSession, Exit, Served, SendPart,
            Acknowledge, ReadAgain, PopSubmission,
            CommitSubmission, Lands, Failure, Refuse, Lose, Withhold, Misread, NotRead, SubmissionFails,
            Disconnect, Crash, UserRequest,
            AskAction, AskSend, Tick

\* What is known of an item after the step, of a value from before it.
KnownNext(i, operation) ==
    i < nextId' /\ (outbox'[i] # NoRow => outbox'[i].operation = operation)

LEMMA KnownStays ==
    ASSUME ExecInv, ExecInv', [ExecNext]_execVars,
           NEW i \in Ids, NEW operation, Known(i, operation)
    PROVE  KnownNext(i, operation)
<1>1. RowsStay
  BY ExecStays
<1>2. i \in Nat /\ nextId \in Nat /\ nextId' \in Nat
  BY IdsAssumption DEF ExecInv, ExecTypeOK, StoreTypeOK
<1> QED BY <1>1, <1>2 DEF Known, KnownNext, RowsStay

LEMMA EarlierStays ==
    ASSUME ExecInv, ExecInv', [ExecNext]_execVars, NEW i \in Ids, i < nextId
    PROVE  i < nextId'
<1>1. nextId <= nextId'
  BY ExecStays DEF RowsStay
<1>2. i \in Nat /\ nextId \in Nat /\ nextId' \in Nat
  BY IdsAssumption DEF ExecInv, ExecTypeOK, StoreTypeOK
<1> QED BY <1>1, <1>2

LEMMA ViewKnownStep ==
    ASSUME ExecInv, ExecInv', StoreInv', [ExecNext]_execVars, Tracked
    PROVE  ViewKnown'
<1>1. view \in [Ids -> ViewRow \cup {NoRow}]
  BY DEF ExecInv, ExecTypeOK
<1>2. \A i \in Ids : view[i] # NoRow => KnownNext(i, view[i].operation)
  BY KnownStays DEF Tracked, ViewKnown
<1>3. ASSUME NEW j \in Ids, NEW row, row # NoRow => KnownNext(j, row.operation),
             view' = [view EXCEPT ![j] = row]
      PROVE  ViewKnown'
  BY <1>1, <1>2, <1>3 DEF ViewKnown, Known, KnownNext
<1>4. CASE UNCHANGED view
  BY <1>2, <1>4 DEF ViewKnown, Known, KnownNext
<1>5. CASE view' = [i \in Ids |-> NoRow]
  BY <1>5 DEF ViewKnown
<1>6. coord.pc \in Holding =>
          coord.item \in Ids /\ KnownNext(coord.item, coord.operation)
  BY KnownStays DEF Tracked, CoordKnown, ExecInv, Held
<1>7. CASE CoordStart
  <2>1. coord.item \in Ids /\ KnownNext(coord.item, coord.operation)
    BY <1>6, <1>7 DEF CoordStart, Polled, Holding, CoordPcs
  <2> QED BY <1>3, <1>7, <2>1 DEF CoordStart
<1>8. CASE CoordRemoved
  <2>1. coord.item \in Ids
    BY <1>6, <1>8 DEF CoordRemoved, Polled, Holding, CoordPcs
  <2> QED BY <1>3, <1>8, <2>1 DEF CoordRemoved
<1>9. CASE CoordReport
  <2>1. coord.item \in Ids /\ coord.pc = "reporting"
    BY <1>6, <1>9 DEF CoordReport, Polled, Holding, CoordPcs
  <2>2. coord.seen # NoRow => KnownNext(coord.item, coord.seen.operation)
    BY <2>1, KnownStays DEF Tracked, CoordKnown
  <2> QED BY <1>3, <1>9, <2>1, <2>2 DEF CoordReport
<1>10. CASE LaneReport
  <2>1. lane.item \in Ids /\ lane.pc = "reporting"
    BY <1>10 DEF LaneReport, ExecInv, Held
  <2>2. lane.seen # NoRow => KnownNext(lane.item, lane.seen.operation)
    BY <2>1, KnownStays DEF Tracked, LaneKnown
  <2> QED BY <1>3, <1>4, <1>10, <2>1, <2>2 DEF LaneReport
<1>11. CASE Launch
  <2>1. ASSUME NEW i \in Ids, view'[i] # NoRow
        PROVE  Known(i, view[i].operation)'
    <3>1. view'[i] = Shown(outbox'[i])
      BY <1>11 DEF Launch
    <3>2. outbox'[i] # NoRow
      BY <2>1, <3>1 DEF Shown
    <3>3. i < nextId'
      BY <3>2 DEF StoreInv, IdentitiesFresh, Live
    <3> QED BY <3>1, <3>2, <3>3 DEF Known, Shown
  <2> QED BY <2>1 DEF ViewKnown
<1>12. UNCHANGED execVars => UNCHANGED view
  BY DEF execVars
<1> QED BY <1>4, <1>5, <1>7, <1>8, <1>9, <1>10, <1>11, <1>12
        DEF ExecNext, CoordStep, CoordClaim, CoordWakes, CoordComplete, CoordInspect, CoordDecide,
            CoordRefused, CoordReload, CoordRaises, LaneStep, LaneAdmit, LaneLook, LaneAct,
            LaneRefused, LaneReload, LanePanics, LaneFails, SessionStep, CloseSession, Reopen, Exit,
            Served,
            SendPart, Acknowledge, ReadAgain, PopSubmission,
            CommitSubmission, Lands, Failure, Refuse, Lose, Withhold, Misread, NotRead, SubmissionFails,
            Disconnect, Crash,
            UserRequest, AskAction, AskSend, Tick, sessionVars

LEMMA CoordKnownStep ==
    ASSUME ExecInv, ExecInv', StoreInv', [ExecNext]_execVars, Tracked
    PROVE  CoordKnown'
<1> DEFINE Seeing == {"inspected", "stored", "reporting"}
<1>1. coord.pc \in Holding =>
          coord.item \in Ids /\ KnownNext(coord.item, coord.operation)
  BY KnownStays DEF Tracked, CoordKnown, ExecInv, Held
<1>2. coord.pc \in Seeing /\ coord.seen # NoRow => KnownNext(coord.item, coord.seen.operation)
  <2>1. coord.pc \in Seeing => coord.pc \in Holding
    BY DEF Holding, CoordPcs
  <2> QED BY <1>1, <2>1, KnownStays DEF Tracked, CoordKnown
<1> coord \in CoordType
  BY DEF ExecInv, ExecTypeOK
\* The coordinator lets go of the item.
<1>3. CASE coord'.pc \notin Holding
  BY <1>3 DEF CoordKnown, Holding, CoordPcs
\* It goes on with the item, and with what it saw of it.
<1>4. ASSUME coord.pc \in Holding, coord'.item = coord.item, coord'.operation = coord.operation,
             coord'.pc \in Seeing => coord.pc \in Seeing /\ coord'.seen = coord.seen
      PROVE  CoordKnown'
  BY <1>1, <1>2, <1>4 DEF CoordKnown, Known, KnownNext
\* It reads the row.
<1>5. CASE CoordInspect \/ CoordReload
  <2>1. /\ coord.pc \in Holding /\ coord'.item = coord.item
        /\ coord'.operation = coord.operation /\ coord'.seen = Shown(outbox[coord.item])
        /\ outbox' = outbox
    <3>1. /\ coord.pc \in {"answered", "stored"} /\ outbox' = outbox
          /\ \E pc \in {"inspected", "reporting"} :
                coord' = [coord EXCEPT !.pc = pc, !.seen = Shown(outbox[coord.item])]
      BY <1>5 DEF CoordInspect, CoordReload, Polled, storeVars
    <3> QED BY <3>1 DEF Holding, CoordPcs
  <2>2. coord'.seen # NoRow => outbox[coord.item] # NoRow
                               /\ coord'.seen.operation = outbox[coord.item].operation
    BY <2>1 DEF Shown
  <2> QED BY <1>1, <2>1, <2>2 DEF CoordKnown, Known, KnownNext
\* It claims the item.
<1>6. CASE CoordClaim
  <2>1. CASE coord'.pc \in {"idle", "sleeping"}
    BY <1>3, <2>1 DEF Holding, CoordPcs
  <2>2. ASSUME NEW i \in Ids, ClaimHead(i, now),
               coord' = [Idle EXCEPT !.pc = "claimed", !.item = i,
                                     !.operation = outbox[i].operation]
        PROVE  CoordKnown'
    <3>1. StoreTypeOK /\ now \in Times
      BY ExecutionAssumption DEF ExecInv, ExecTypeOK
    <3>2. coord'.pc = "claimed" /\ coord'.item = i /\ coord'.operation = outbox[i].operation
      BY <2>2 DEF Idle
    <3>3. Active' = {i}
      BY <2>2, <3>1, ClaimActive
    <3>4. i < nextId'
      BY <3>3 DEF StoreInv, IdentitiesFresh, Active, InState
    <3>5. outbox'[i].operation = outbox[i].operation
      <4>1. Swept(now)[i] # NoRow /\ Swept(now) \in [Ids -> Row \cup {NoRow}]
        BY <2>2, <3>1, SweptRows DEF ClaimHead, IsHead, Runnable, InState, Live
      <4>2. Swept(now)[i].operation = outbox[i].operation
        BY <3>1, SweptRows
      <4>3. outbox'[i] = Moved(Swept(now)[i], "in_flight", NoTime)
        BY <2>2, <4>1 DEF ClaimHead
      <4> QED BY <4>1, <4>2, <4>3 DEF Moved, Row
    <3> QED BY <3>2, <3>4, <3>5 DEF CoordKnown, Known
  <2>3. \A t : [Idle EXCEPT !.pc = "sleeping", !.since = t].pc = "sleeping" /\ Idle.pc = "idle"
    BY DEF Idle
  <2> QED BY <1>6, <2>1, <2>2, <2>3 DEF CoordClaim
<1>7. CASE CoordStart \/ CoordComplete \/ CoordDecide
  <2>1. /\ coord.pc \in {"claimed", "answered", "inspected"}
        /\ coord'.item = coord.item /\ coord'.operation = coord.operation
        /\ coord'.pc \in Seeing => coord.pc \in Seeing /\ coord'.seen = coord.seen
    <3>1. CASE CoordStart
      BY <3>1 DEF CoordStart, Polled
    <3>2. CASE CoordComplete
      BY <3>2 DEF CoordComplete, Polled
    <3>3. CASE CoordDecide
      BY <3>3 DEF CoordDecide, Polled
    <3> QED BY <1>7, <3>1, <3>2, <3>3
  <2> QED BY <1>4, <2>1 DEF Holding, CoordPcs
<1>8. CASE \/ SendPart \/ Acknowledge \/ ReadAgain \/ PopSubmission \/ CommitSubmission
           \/ Refuse \/ Lose \/ Withhold \/ Misread \/ NotRead
  <2>1. /\ coord.pc \in {"calling", "sent", "reading", "submitting", "popped"}
        /\ coord'.pc \notin Seeing
        /\ coord'.item = coord.item /\ coord'.operation = coord.operation
    <3>1. CASE SendPart
      BY <3>1 DEF SendPart, Calling
    <3>2. CASE Acknowledge
      <4>1. \/ coord' = [coord EXCEPT !.pc = "calling", !.part = coord.part + 1]
            \/ \E kind, d : Answer(kind, d)
            \/ \E next \in {"reading", "submitting"} : coord' = [coord EXCEPT !.pc = next]
        BY <3>2 DEF Acknowledge
      <4>2. coord.pc = "sent"
        BY <3>2 DEF Acknowledge, Calling
      <4>3. CASE coord' = [coord EXCEPT !.pc = "calling", !.part = coord.part + 1]
        BY <4>2, <4>3
      <4>4. CASE \E kind, d : Answer(kind, d)
        BY <4>2, <4>4 DEF Answer
      <4>5. CASE \E next \in {"reading", "submitting"} : coord' = [coord EXCEPT !.pc = next]
        BY <4>2, <4>5
      <4> QED BY <4>1, <4>3, <4>4, <4>5
    <3>3. CASE ReadAgain \/ CommitSubmission \/ Refuse \/ Lose \/ Withhold \/ Misread \/ NotRead
      <4>1. coord.pc \in {"calling", "sent", "reading", "popped"} /\ \E kind, d : Answer(kind, d)
        BY <3>3 DEF ReadAgain, CommitSubmission, Refuse, Lose, Withhold, Misread, NotRead, Calling
      <4> QED BY <4>1 DEF Answer
    <3>4. CASE PopSubmission
      BY <3>4 DEF PopSubmission
    <3> QED BY <1>8, <3>1, <3>2, <3>3, <3>4
  <2> QED BY <1>4, <2>1 DEF Holding, CoordPcs
<1>9. CASE \/ CoordWakes \/ CoordRemoved \/ CoordRefused \/ CoordReport \/ LanePanics
           \/ CloseSession \/ Exit \/ SubmissionFails \/ Crash
  <2>1. coord'.pc \in {"idle", "raising"}
    BY <1>9 DEF CoordWakes, CoordRemoved, CoordRefused, CoordReport, LanePanics, CloseSession,
       Exit, SubmissionFails, Crash, Idle
  <2> QED BY <1>3, <2>1 DEF Holding, CoordPcs
<1>10. CASE UNCHANGED coord
  BY <1>1, <1>2, <1>10 DEF CoordKnown, Known, KnownNext
<1>11. UNCHANGED execVars => UNCHANGED coord
  BY DEF execVars
<1> QED BY <1>5, <1>6, <1>7, <1>8, <1>9, <1>10, <1>11
        DEF ExecNext, CoordStep, CoordRaises, LaneStep, LaneAdmit, LaneLook, LaneAct,
            LaneRefused, LaneReload, LaneReport, LaneFails, SessionStep, Reopen, Launch, Served,
            Lands, Failure, Disconnect, UserRequest, AskAction, AskSend, Tick, sessionVars

LEMMA LaneKnownStep ==
    ASSUME ExecInv, ExecInv', StoreInv', [ExecNext]_execVars, Tracked
    PROVE  LaneKnown'
<1> lane \in LaneType
  BY DEF ExecInv, ExecTypeOK
<1>1. /\ lane.pc # "free" /\ lane.action \notin Operations
             => lane.item \in Ids /\ KnownNext(lane.item, "send")
      /\ lane.pc \notin {"free", "asked"} => lane.item \in Ids /\ lane.item < nextId'
      /\ lane.pc \in {"reporting", "failing"} /\ lane.seen # NoRow
             => KnownNext(lane.item, lane.seen.operation)
      /\ lane.pc \notin {"reporting", "failing"} => lane.seen = NoRow
      /\ lane.pc = "looked" => lane.action \notin Operations
  <2>1. /\ lane.pc # "free" => lane.item \in Ids \/ lane.action \in Operations
        /\ lane.pc \notin {"free", "asked"} => lane.item \in Ids
    BY DEF ExecInv, Held
  <2> QED BY <2>1, KnownStays, EarlierStays DEF Tracked, LaneKnown
<1>2. CASE lane' = Free
  BY <1>2 DEF LaneKnown, Free
<1>3. CASE UNCHANGED lane
  BY <1>1, <1>3 DEF LaneKnown, Known, KnownNext
<1>4. CASE LaneAdmit
  <2>1. /\ lane'.pc = "admitted" /\ lane'.action \in Operations
        /\ lane'.item = nextId /\ nextId' = nextId + 1 /\ lane'.seen = NoRow
    BY <1>1, <1>4 DEF LaneAdmit, Admit
  <2>2. nextId \in Nat
    BY DEF ExecInv, ExecTypeOK, StoreTypeOK
  <2> QED BY <2>1, <2>2 DEF LaneKnown
<1>5. ASSUME NEW pc \in {"looked", "acted", "refused", "reporting"},
             lane' = [lane EXCEPT !.pc = pc],
             lane.pc \in {"asked", "looked"}, lane.action \notin Operations
      PROVE  LaneKnown'
  <2>1. /\ lane'.item = lane.item /\ lane'.action = lane.action /\ lane'.pc = pc
        /\ lane'.seen = lane.seen /\ lane.seen = NoRow
    BY <1>5 DEF Tracked, LaneKnown
  <2> QED BY <1>1, <1>5, <2>1 DEF LaneKnown, Known, KnownNext
<1>6. CASE LaneLook \/ LaneRefused \/ LaneAct
  <2>1. lane.pc = "looked" => lane.action \notin Operations
    BY DEF Tracked, LaneKnown
  <2> QED BY <1>2, <1>5, <1>6, <2>1, FreshTyped DEF LaneLook, LaneRefused, LaneAct
<1>7. CASE LaneReload
  <2>1. PICK pc \in {"failing", "reporting"} :
            lane' = [lane EXCEPT !.pc = pc, !.seen = Shown(outbox[lane.item])]
    BY <1>7 DEF LaneReload
  <2>2. /\ lane'.pc = pc /\ lane'.item = lane.item /\ lane'.action = lane.action
        /\ lane'.seen = Shown(outbox[lane.item])
    BY <2>1
  <2>3. outbox' = outbox /\ lane.pc \in {"admitted", "acted", "refused"}
    BY <1>7 DEF LaneReload, storeVars
  <2>4. lane'.seen # NoRow => outbox[lane.item] # NoRow
                              /\ lane'.seen.operation = outbox[lane.item].operation
    BY <2>2 DEF Shown
  <2> QED BY <1>1, <2>2, <2>3, <2>4 DEF LaneKnown, Known, KnownNext
<1>8. ASSUME NEW i \in Ids, AskAction(i)
      PROVE  LaneKnown'
  <2>1. PICK action \in Offered(view[i]) :
            lane' = [Free EXCEPT !.pc = "asked", !.item = i, !.action = action]
    BY <1>8 DEF AskAction
  <2>2. view[i] # NoRow /\ view[i].operation = "send"
    BY <2>1 DEF Offered
  <2>3. KnownNext(i, "send")
    BY <2>2, KnownStays DEF Tracked, ViewKnown
  <2>4. lane'.pc = "asked" /\ lane'.item = i /\ lane'.seen = NoRow
    BY <2>1 DEF Free
  <2> QED BY <2>3, <2>4 DEF LaneKnown, Known, KnownNext
<1>9. ASSUME NEW operation \in Admitted, AskSend(operation)
      PROVE  LaneKnown'
  <2>1. /\ lane'.pc = "asked" /\ lane'.action \in Operations /\ lane'.seen = NoRow
    BY <1>9, ExecutionAssumption DEF AskSend, Free
  <2> QED BY <2>1 DEF LaneKnown
<1>10. CASE LaneReport \/ LaneFails \/ LanePanics \/ CoordRefused \/ SubmissionFails \/ Crash
  BY <1>2, <1>3, <1>10 DEF LaneReport, LaneFails, LanePanics, CoordRefused, SubmissionFails, Crash
<1>11. UNCHANGED execVars => UNCHANGED lane
  BY DEF execVars
<1> QED BY <1>3, <1>4, <1>6, <1>7, <1>8, <1>9, <1>10, <1>11
        DEF ExecNext, CoordStep, CoordClaim, CoordWakes, CoordStart, CoordComplete, CoordRemoved,
            CoordInspect, CoordDecide, CoordReload, CoordReport, CoordRaises, LaneStep, SessionStep,
            CloseSession, Reopen, Launch, Exit, Served, SendPart, Acknowledge, ReadAgain, PopSubmission,
            CommitSubmission, Lands, Failure,
            Refuse, Lose, Withhold, Misread, NotRead, SubmissionFails,
            Disconnect, UserRequest, Tick, sessionVars

LEMMA RemoteKnownStep ==
    ASSUME ExecInv, ExecInv', [ExecNext]_execVars, Tracked
    PROVE  RemoteKnown'
<1>1. /\ \A request \in wire : request.item \in Ids /\ request.item < nextId'
      /\ \A i \in Ids : applied[i][1] # 0 => i < nextId'
  BY EarlierStays DEF Tracked, RemoteKnown, ExecInv, ExecTypeOK
<1>2. CASE wire' \subseteq wire /\ applied' = applied
  BY <1>1, <1>2 DEF RemoteKnown
<1>3. CASE SendPart
  <2>1. coord.item \in Ids /\ coord.item < nextId
    BY <1>3 DEF SendPart, Calling, Tracked, CoordKnown, Known, ExecInv, Held, Holding, CoordPcs
  <2>2. wire' = wire \cup {Request} /\ applied' = applied /\ Request.item = coord.item
    BY <1>3 DEF SendPart, Request
  <2> QED BY <1>1, <2>1, <2>2, EarlierStays DEF RemoteKnown
<1>4. ASSUME NEW request \in wire, Lands(request)
      PROVE  RemoteKnown'
  <2>1. applied \in [Ids -> [Parts -> Nat]]
    BY DEF ExecInv, ExecTypeOK
  <2>2. wire' \subseteq wire /\ \A i \in Ids : i # request.item => applied'[i] = applied[i]
    BY <1>4, <2>1 DEF Lands
  <2> QED BY <1>1, <2>2 DEF RemoteKnown
<1>5. UNCHANGED execVars => UNCHANGED <<wire, applied>>
  BY DEF execVars
<1> QED BY <1>2, <1>3, <1>4, <1>5
        DEF ExecNext, CoordStep, CoordClaim, CoordWakes, CoordStart, CoordComplete, CoordRemoved,
            CoordInspect, CoordDecide, CoordRefused, CoordReload, CoordReport, CoordRaises,
            LaneStep, LaneAdmit, LaneLook, LaneAct, LaneRefused, LaneReload, LanePanics, LaneReport,
            LaneFails,
            SessionStep, CloseSession, Reopen, Launch, Exit, Served, Acknowledge, ReadAgain, PopSubmission,
            CommitSubmission, Failure,
            Refuse, Lose, Withhold, Misread, NotRead, SubmissionFails,
            Disconnect, Crash, UserRequest, AskAction, AskSend, Tick,
            remoteVars

LEMMA TrackedStep ==
    ASSUME ExecInv, ExecInv', StoreInv', [ExecNext]_execVars, Tracked
    PROVE  Tracked'
BY ViewKnownStep, CoordKnownStep, LaneKnownStep, RemoteKnownStep DEF Tracked

-------------------------------------------------------------------------------
(* A mutation that may be sent again has not been applied.                 *)

MutationNext(i) ==
    outbox'[i] # NoRow /\ outbox'[i].operation = "mutation" /\ i \notin unread'

\* What could not be read is never forgotten.
LEMMA UnreadGrows ==
    ASSUME [ExecNext]_execVars
    PROVE  unread \subseteq unread'
<1>1. CASE UNCHANGED unread
  BY <1>1
<1>2. UNCHANGED execVars => UNCHANGED unread
  BY DEF execVars
<1> QED BY <1>1, <1>2
        DEF ExecNext, CoordStep, CoordClaim, CoordWakes, CoordStart, CoordComplete, CoordRemoved,
            CoordInspect, CoordDecide, CoordRefused, CoordReload, CoordReport, CoordRaises,
            LaneStep, LaneAdmit, LaneLook, LaneAct, LaneRefused, LaneReload, LanePanics,
            LaneReport, LaneFails, SessionStep, CloseSession, Reopen, Launch, Exit, Served,
            SendPart, Acknowledge, ReadAgain, PopSubmission, CommitSubmission, Lands, Failure,
            Refuse, Lose, Withhold, Misread, NotRead, SubmissionFails, Disconnect, Crash,
            UserRequest, AskAction, AskSend, Tick, remoteVars

UnsentNext(i) == applied'[i][1] = 0 /\ \A request \in wire' : request.item # i

LEMMA MutationStays ==
    ASSUME ExecInv, [ExecNext]_execVars, NEW i \in Ids, i < nextId, MutationNext(i)
    PROVE  Mutation(i)
BY ExecStays, UnreadGrows DEF RowsStay, Mutation, MutationNext

LEMMA AnswerTyped ==
    ASSUME ExecInv
    PROVE  coord.answer.kind \in AnswerKinds
<1>1. coord \in CoordType
  BY DEF ExecInv, ExecTypeOK
<1> QED BY <1>1 DEF CoordType

\* The coordinator decides about a mutation as a mutation.
LEMMA DecidedUnsent ==
    ASSUME ExecInv, Tracked, Faithful, CoordDecide, Mutation(coord.item),
           outbox'[coord.item].state \in Resendable
    PROVE  coord.answer.kind \in NotApplied
<1>1. coord.pc = "inspected" /\ StoreOutcome(coord.item, Decision) /\ coord.item \in Ids
  BY DEF CoordDecide, Polled, ExecInv, Held, Holding, CoordPcs
<1>2. coord.seen # NoRow /\ coord.seen.operation = "mutation"
  BY <1>1 DEF Faithful, Tracked, CoordKnown, Known, Mutation
<1>3. coord.answer.kind \in AnswerKinds \ {"none", "success"}
  <2>1. coord.answer.kind \in AnswerKinds
    BY AnswerTyped
  <2> QED BY <1>1, <2>1 DEF ExecInv, Held
<1>4. ASSUME NEW allowed, NEW state, NEW available, Transition(coord.item, allowed, state, available)
      PROVE  state \in Resendable
  <2>1. outbox[coord.item] \in Row
    BY <1>1 DEF Mutation, ExecInv, ExecTypeOK, StoreTypeOK
  <2>2. outbox'[coord.item] = Moved(outbox[coord.item], state, available)
    BY <1>1, <1>4 DEF Transition, ExecInv, ExecTypeOK, StoreTypeOK
  <2> QED BY <2>1, <2>2 DEF Moved, Row
<1>5. ~Conflict(coord.item) /\ ~MarkOutcomeUnknown(coord.item) /\ ~ConfirmUnsent(coord.item)
  BY <1>4 DEF Conflict, MarkOutcomeUnknown, ConfirmUnsent, Resendable
<1>6. Decision \in {"deferred", "failed"}
  BY <1>1, <1>5 DEF StoreOutcome
<1> QED BY <1>2, <1>3, <1>6 DEF Decision, Decide, NotApplied, AnswerKinds

\* Only the coordinator, after such an answer, makes a mutation one that may be
\* sent again.
LEMMA MutationRow ==
    ASSUME ExecInv, Tracked, Faithful, [ExecNext]_execVars,
           NEW i \in Ids, i < nextId, MutationNext(i), outbox'[i].state \in Resendable
    PROVE  \/ outbox[i].state \in Resendable
           \/ CoordDecide /\ i = coord.item /\ coord.answer.kind \in NotApplied
<1>1. /\ StoreTypeOK /\ now \in Times /\ outbox \in [Ids -> Row \cup {NoRow}]
      /\ Mutation(i) /\ outbox[i] \in Row
  <2>1. Mutation(i)
    BY MutationStays
  <2> QED BY <2>1, ExecutionAssumption DEF ExecInv, ExecTypeOK, StoreTypeOK, Mutation
<1>2. CASE outbox'[i] = outbox[i]
  BY <1>2
<1>3. CASE CoordClaim
  <2>1. Swept(now)[i].state = "expired" \/ Swept(now)[i] = outbox[i]
    BY <1>1, SweptRows
  <2>2. \/ outbox'[i] = Swept(now)[i]
        \/ outbox'[i] = Moved(Swept(now)[i], "in_flight", NoTime)
    <3>1. Swept(now) \in [Ids -> Row \cup {NoRow}]
      BY <1>1, SweptRows
    <3> QED BY <1>3, <3>1 DEF CoordClaim, ClaimIdle, ClaimWaiting, ClaimHead
  <2>3. CASE outbox'[i] = Moved(Swept(now)[i], "in_flight", NoTime)
    <3>1. Swept(now)[i] \in Row
      BY <1>1, SweptRows DEF Live, Mutation
    <3>2. outbox'[i].state = "in_flight"
      BY <2>3, <3>1 DEF Moved, Row
    <3> QED BY <3>2 DEF Resendable
  <2> QED BY <2>1, <2>2, <2>3 DEF Resendable
<1>4. CASE CoordComplete
  BY <1>1, <1>2, <1>4 DEF CoordComplete, Complete, Remove, MutationNext
<1>5. CASE CoordDecide
  <2>1. CASE i = coord.item
    BY <1>1, <1>5, <2>1, DecidedUnsent
  <2>2. CASE i # coord.item
    <3>1. PICK allowed, state, available : Transition(coord.item, allowed, state, available)
      BY <1>5, OutcomeStored
    <3> QED BY <1>1, <1>2, <2>2, <3>1 DEF Transition
  <2> QED BY <2>1, <2>2
<1>6. CASE LaneAdmit
  <2>1. i # nextId
    BY IdsAssumption DEF ExecInv, ExecTypeOK, StoreTypeOK
  <2> QED BY <1>1, <1>2, <1>6, <2>1 DEF LaneAdmit, Admit
<1>7. CASE LaneAct
  <2>1. lane.item # i
    BY <1>1, <1>7 DEF LaneAct, Tracked, LaneKnown, Known, Mutation
  <2>2. Act(lane.item, lane.action) => outbox'[i] = outbox[i]
    BY <1>1, <2>1 DEF Act, Cancel, Retry, ResolveConflict, ResolveOutcomeUnknown, Dismiss,
       Transition, Remove
  <2> QED BY <1>2, <1>7, <2>2 DEF LaneAct
<1>8. CASE Reopen \/ Launch
  <2>1. outbox'[i] = Recovered(outbox[i])
    BY <1>8 DEF Reopen, Launch, Recover
  <2>2. Recovered(outbox[i]) = outbox[i] \/ Recovered(outbox[i]).state = "outcome_unknown"
    BY <1>1, RecoveredRow DEF Mutation
  <2> QED BY <2>1, <2>2 DEF Resendable
<1>9. CASE UNCHANGED storeVars
  BY <1>2, <1>9 DEF storeVars
<1>10. UNCHANGED execVars => UNCHANGED storeVars
  BY DEF execVars, storeVars
<1> QED BY <1>3, <1>4, <1>5, <1>6, <1>7, <1>8, <1>9, <1>10
        DEF ExecNext, CoordStep, CoordWakes, CoordStart, CoordRemoved, CoordInspect,
            CoordRefused, CoordReload, CoordReport, CoordRaises, LaneStep, LaneLook, LaneRefused,
            LaneReload, LanePanics, LaneReport,
            LaneFails, SessionStep, CloseSession, Exit, Served, SendPart,
            Acknowledge, ReadAgain, PopSubmission,
            CommitSubmission, Lands, Failure, Refuse, Lose, Withhold, Misread, NotRead, SubmissionFails,
            Disconnect, Crash, UserRequest,
            AskAction, AskSend, Tick

\* What follows of the rows once the requests on the wire are settled.
RowsFaithful == \A i \in Ids : Mutation(i) =>
                   OnceAtMost(i) /\ (outbox[i].state \in Resendable => Unsent(i))

CoordFaithful ==
    /\ coord.pc \in {"claimed", "calling"} /\ Mutation(coord.item) => Unsent(coord.item)
    /\ coord.pc \in {"answered", "inspected"} /\ Mutation(coord.item)
          /\ coord.answer.kind \in NotApplied => Unsent(coord.item)
    /\ coord.pc = "inspected" => coord.seen # NoRow

LEMMA FaithfulParts == Faithful <=> RowsFaithful /\ CoordFaithful
BY DEF Faithful, RowsFaithful, CoordFaithful

LEMMA UnsentOnce ==
    ASSUME NEW i \in Ids, Unsent(i)
    PROVE  OnceAtMost(i)
BY DEF Unsent, OnceAtMost

\* An identity not given out yet has nothing on the wire and nothing applied.
LEMMA NewUnsent ==
    ASSUME ExecInv, Tracked, NEW i \in Ids, ~(i < nextId)
    PROVE  Unsent(i)
BY DEF Tracked, RemoteKnown, Unsent

\* A step that leaves the wire alone.
LEMMA QuietRows ==
    ASSUME ExecInv, ExecInv', StoreInv, Tracked, Faithful, [ExecNext]_execVars,
           UNCHANGED <<wire, applied>>
    PROVE  RowsFaithful'
<1>1. ASSUME NEW i \in Ids, MutationNext(i)
      PROVE  OnceAtMost(i) /\ (outbox'[i].state \in Resendable => Unsent(i))
  <2>1. CASE ~(i < nextId)
    BY <2>1, NewUnsent, UnsentOnce
  <2>2. CASE i < nextId
    <3>1. Mutation(i)
      BY <1>1, <2>2, MutationStays
    <3>2. OnceAtMost(i)
      BY <3>1 DEF Faithful
    <3>3. ASSUME outbox'[i].state \in Resendable
          PROVE  Unsent(i)
      <4>1. CASE outbox[i].state \in Resendable
        BY <3>1, <4>1 DEF Faithful
      <4>2. CASE CoordDecide /\ i = coord.item /\ coord.answer.kind \in NotApplied
        BY <3>1, <4>2 DEF CoordDecide, Polled, Faithful
      <4> QED BY <1>1, <2>2, <3>3, <4>1, <4>2, MutationRow
    <3> QED BY <3>2, <3>3
  <2> QED BY <2>1, <2>2
<1> QED BY <1>1 DEF RowsFaithful, OnceAtMost, Unsent, Mutation, MutationNext

\* A mutation of the coordinator's item after the step was one before it.
LEMMA HeldMutation ==
    ASSUME ExecInv, Tracked, [ExecNext]_execVars, coord.pc \in Holding, MutationNext(coord.item)
    PROVE  Mutation(coord.item) /\ coord.operation = "mutation"
<1>1. coord.item \in Ids /\ coord.item < nextId
  BY DEF ExecInv, Held, Tracked, CoordKnown, Known
<1>2. Mutation(coord.item)
  BY <1>1, MutationStays
<1> QED BY <1>2 DEF Tracked, CoordKnown, Known, Mutation

\* Nothing becomes known of an unsent item but by its own request.
LEMMA UnsentKept ==
    ASSUME NEW i \in Ids, Unsent(i), wire' \subseteq wire, applied'[i] = applied[i]
    PROVE  UnsentNext(i)
BY DEF Unsent, UnsentNext

LEMMA LandsElsewhere ==
    ASSUME ExecInv, NEW request \in wire, Lands(request)
    PROVE  /\ wire' = wire \ {request} /\ UNCHANGED <<outbox, coord, unread>>
           /\ \A i \in Ids : i # request.item => applied'[i] = applied[i]
<1>1. applied \in [Ids -> [Parts -> Nat]] /\ request.item \in Ids
  BY DEF ExecInv, ExecTypeOK
<1> QED BY <1>1 DEF Lands, storeVars, sessionVars

\* The only request of a mutation lands: it took effect once.
LEMMA LandsOnce ==
    ASSUME ExecInv, Faithful, NEW request \in wire, Lands(request), Mutation(request.item)
    PROVE  /\ applied'[request.item][1] <= 1
           /\ \A other \in wire' : other.item # request.item
           /\ outbox[request.item].state \notin Resendable
<1>1. /\ request.item \in Ids /\ request.part \in Parts
      /\ applied \in [Ids -> [Parts -> Nat]]
  BY DEF ExecInv, ExecTypeOK
<1>2. /\ applied[request.item][1] = 0
      /\ \A other \in wire : other.item = request.item => other = request
      /\ outbox[request.item].state \notin Resendable
  BY <1>1 DEF Faithful, OnceAtMost, Unsent
<1>3. \A other \in wire' : other.item # request.item
  BY <1>2, LandsElsewhere
<1>4. 1 \in Parts
  BY ExecutionAssumption DEF Parts
<1> DEFINE count == IF request.once THEN 1 ELSE applied[request.item][request.part] + 1
<1>5. applied'[request.item] = [applied[request.item] EXCEPT ![request.part] = count]
  BY <1>1 DEF Lands
<1>6. applied[request.item] \in [Parts -> Nat]
  BY <1>1
<1>7. applied'[request.item][1] = IF request.part = 1 THEN count ELSE 0
  <2> HIDE DEF count
  <2> QED BY <1>2, <1>4, <1>5, <1>6
<1>8. request.part = 1 => count = 1
  BY <1>2
<1>9. applied'[request.item][1] <= 1
  <2> HIDE DEF count
  <2> QED BY <1>7, <1>8
<1> QED BY <1>2, <1>3, <1>9

LEMMA LandsRows ==
    ASSUME ExecInv, Faithful, NEW request \in wire, Lands(request)
    PROVE  RowsFaithful'
<1>1. /\ wire' = wire \ {request} /\ outbox' = outbox /\ unread' = unread
      /\ \A i \in Ids : i # request.item => applied'[i] = applied[i]
  BY LandsElsewhere
<1>2. ASSUME NEW i \in Ids, Mutation(i), i # request.item
      PROVE  OnceAtMost(i)' /\ (outbox'[i].state \in Resendable => Unsent(i)')
  <2>1. OnceAtMost(i) /\ (outbox[i].state \in Resendable => Unsent(i))
    BY <1>2 DEF Faithful
  <2> QED BY <1>1, <1>2, <2>1 DEF OnceAtMost, Unsent
<1>3. ASSUME NEW i \in Ids, Mutation(i), i = request.item
      PROVE  OnceAtMost(i)' /\ (outbox'[i].state \in Resendable => Unsent(i)')
  BY <1>1, <1>3, LandsOnce DEF OnceAtMost
<1> QED BY <1>1, <1>2, <1>3 DEF RowsFaithful, Mutation

LEMMA OwnedRow ==
    ASSUME ExecInv, Owned, link = "up", coord.pc \in Executing
    PROVE  /\ coord.item \in Ids
           /\ outbox[coord.item] \in Row /\ outbox[coord.item] # NoRow
           /\ outbox[coord.item].state \in ActiveStates
<1>1. Active = {coord.item}
  BY DEF Owned, CoordinatorOwnsActive
<1> QED BY <1>1 DEF Active, InState, Live, ExecInv, ExecTypeOK, StoreTypeOK

LEMMA SendRows ==
    ASSUME ExecInv, Owned, Faithful, SendPart
    PROVE  RowsFaithful'
<1>1. /\ coord.pc = "calling" /\ link = "up" /\ outbox' = outbox /\ applied' = applied
      /\ unread' = unread /\ wire' = wire \cup {Request} /\ Request.item = coord.item
  BY DEF SendPart, Calling, Request, storeVars
<1>2. coord.item \in Ids /\ outbox[coord.item].state \in ActiveStates
  BY <1>1, OwnedRow DEF Executing
<1>3. ASSUME NEW i \in Ids, Mutation(i), i # coord.item
      PROVE  OnceAtMost(i)' /\ (outbox'[i].state \in Resendable => Unsent(i)')
  <2>1. OnceAtMost(i) /\ (outbox[i].state \in Resendable => Unsent(i))
    BY <1>3 DEF Faithful
  <2> QED BY <1>1, <1>3, <2>1 DEF OnceAtMost, Unsent
<1>4. ASSUME Mutation(coord.item)
      PROVE  OnceAtMost(coord.item)' /\ outbox'[coord.item].state \notin Resendable
  <2>1. Unsent(coord.item)
    BY <1>1, <1>4 DEF Faithful
  <2>2. coord'.item = coord.item
    BY DEF SendPart, ExecInv, ExecTypeOK
  <2>3. /\ applied'[coord.item][1] = 0
        /\ \A r \in wire' : r.item = coord.item => r = Request
    BY <1>1, <2>1 DEF Unsent
  <2>4. outbox'[coord.item].state \notin Resendable
    BY <1>1, <1>2 DEF ActiveStates, Resendable
  <2> QED BY <2>2, <2>3, <2>4 DEF OnceAtMost
<1>5. coord'.item = coord.item
  BY DEF SendPart, ExecInv, ExecTypeOK
<1> QED BY <1>1, <1>3, <1>4, <1>5 DEF RowsFaithful, Mutation

LEMMA RefuseRows ==
    ASSUME Faithful, Refuse
    PROVE  RowsFaithful'
<1>1. wire' \subseteq wire /\ applied' = applied /\ outbox' = outbox /\ unread' = unread
  BY DEF Refuse, storeVars
<1>2. RowsFaithful
  BY FaithfulParts
<1> QED BY <1>1, <1>2 DEF RowsFaithful, OnceAtMost, Unsent, Mutation

LEMMA RowsStep ==
    ASSUME ExecInv, ExecInv', StoreInv, Owned, Tracked, Faithful, [ExecNext]_execVars
    PROVE  RowsFaithful'
<1>1. CASE SendPart
  BY <1>1, SendRows
<1>2. CASE \E request \in wire : Lands(request)
  BY <1>2, LandsRows
<1>3. CASE Refuse
  BY <1>3, RefuseRows
<1>4. CASE UNCHANGED <<wire, applied>>
  BY <1>4, QuietRows
<1>5. UNCHANGED execVars => UNCHANGED <<wire, applied>>
  BY DEF execVars
<1> QED BY <1>1, <1>2, <1>3, <1>4, <1>5
        DEF ExecNext, CoordStep, CoordClaim, CoordWakes, CoordStart, CoordComplete, CoordRemoved,
            CoordInspect, CoordDecide, CoordRefused, CoordReload, CoordReport, CoordRaises,
            LaneStep, LaneAdmit, LaneLook, LaneAct, LaneRefused, LaneReload, LanePanics, LaneReport,
            LaneFails,
            SessionStep, CloseSession, Reopen, Launch, Exit, Served, Acknowledge, ReadAgain, PopSubmission,
            CommitSubmission, Failure,
            Lose, Withhold, Misread, NotRead, SubmissionFails,
            Disconnect, Crash, UserRequest, AskAction, AskSend, Tick,
            remoteVars

\* The coordinator's item through its attempt.
LEMMA CoordHeldStep ==
    ASSUME ExecInv, StoreInv, Owned, Tracked, Faithful, [ExecNext]_execVars,
           coord'.pc = coord.pc, coord'.item = coord.item, coord'.answer = coord.answer,
           coord'.seen = coord.seen,
           \/ UNCHANGED <<wire, applied>>
           \/ \E request \in wire : Lands(request)
    PROVE  CoordFaithful'
<1> DEFINE Clear == \/ coord.pc \in {"claimed", "calling"}
                    \/ coord.pc \in {"answered", "inspected"} /\ coord.answer.kind \in NotApplied
<1>1. coord.pc \in Holding => coord.item \in Ids
  BY DEF ExecInv, Held
<1>2. ASSUME Clear, MutationNext(coord.item)
      PROVE  UnsentNext(coord.item)
  <2>1. coord.pc \in Holding /\ coord.item \in Ids
    BY <1>1, <1>2 DEF Holding, CoordPcs
  <2>2. Mutation(coord.item)
    BY <1>2, <2>1, HeldMutation
  <2>3. Unsent(coord.item)
    BY <1>2, <2>2 DEF Faithful
  <2>4. CASE UNCHANGED <<wire, applied>>
    BY <2>1, <2>3, <2>4, UnsentKept
  <2>5. ASSUME NEW request \in wire, Lands(request)
        PROVE  UnsentNext(coord.item)
    <3>1. request.item # coord.item
      BY <2>3 DEF Unsent
    <3>2. wire' \subseteq wire /\ applied'[coord.item] = applied[coord.item]
      BY <2>1, <2>5, <3>1, LandsElsewhere
    <3> QED BY <2>1, <2>3, <3>2, UnsentKept
  <2> QED BY <2>4, <2>5
<1>3. coord'.pc = "inspected" => coord'.seen # NoRow
  BY DEF Faithful
<1> QED BY <1>2, <1>3 DEF CoordFaithful, Mutation, MutationNext, Unsent, UnsentNext

LEMMA ClaimFaithful ==
    ASSUME ExecInv, Faithful, CoordClaim
    PROVE  CoordFaithful'
<1>1. StoreTypeOK /\ now \in Times
  BY ExecutionAssumption DEF ExecInv, ExecTypeOK
<1>2. UNCHANGED <<wire, applied, unread>>
  BY DEF CoordClaim, remoteVars
<1>3. CASE coord'.pc \in {"idle", "sleeping"}
  BY <1>3 DEF CoordFaithful
<1>4. ASSUME NEW i \in Ids, ClaimHead(i, now), coord'.pc = "claimed", coord'.item = i
      PROVE  CoordFaithful'
  <2>1. i \in Runnable(Swept(now))
    BY <1>4 DEF ClaimHead, IsHead
  <2>2. Swept(now)[i].state \in RunnableStates
    BY <2>1 DEF Runnable, InState
  <2>3. Swept(now)[i] = outbox[i]
    BY <1>1, <2>2, SweptRows DEF RunnableStates
  <2>4. outbox[i].state \in Resendable /\ outbox[i] # NoRow
    BY <2>1, <2>2, <2>3 DEF RunnableStates, Resendable, Runnable, InState, Live
  <2>5. Swept(now) \in [Ids -> Row \cup {NoRow}] /\ Swept(now)[i] \in Row
    BY <1>1, <2>3, <2>4, SweptRows DEF StoreTypeOK
  <2>6. outbox'[i] = Moved(outbox[i], "in_flight", NoTime)
    BY <1>4, <2>3, <2>5 DEF ClaimHead
  <2>7. outbox'[i].operation = outbox[i].operation
    BY <2>3, <2>5, <2>6 DEF Moved, Row
  <2>8. MutationNext(i) => Unsent(i)
    BY <1>2, <2>4, <2>7 DEF Faithful, Mutation, MutationNext
  <2> QED BY <1>2, <1>4, <2>8 DEF CoordFaithful, Mutation, MutationNext, Unsent
<1>5. \A i \in Ids : coord' = [Idle EXCEPT !.pc = "claimed", !.item = i,
                                           !.operation = outbox[i].operation]
                        => coord'.pc = "claimed" /\ coord'.item = i
  BY DEF Idle
<1>6. coord' = Idle => coord'.pc = "idle"
  BY FreshTyped
<1>7. \A t : coord' = [Idle EXCEPT !.pc = "sleeping", !.since = t] => coord'.pc = "sleeping"
  BY DEF Idle
<1> QED BY <1>3, <1>4, <1>5, <1>6, <1>7 DEF CoordClaim

LEMMA AnswerFaithful ==
    ASSUME ExecInv, Owned, Tracked, Faithful, [ExecNext]_execVars,
           \/ Acknowledge \/ ReadAgain \/ CommitSubmission
           \/ Refuse \/ Lose \/ Withhold \/ Misread \/ NotRead
    PROVE  CoordFaithful'
<1> coord \in CoordType
  BY DEF ExecInv, ExecTypeOK
<1>1. /\ coord.pc \in {"calling", "sent", "reading", "popped"} /\ coord.pc \in Holding
      /\ coord.item \in Ids /\ outbox' = outbox
      /\ coord.pc # "popped" => coord.part \in Parts
  BY DEF Acknowledge, ReadAgain, CommitSubmission, Refuse, Lose, Withhold, Misread, NotRead,
     Calling, Holding, CoordPcs, ExecInv, Held, storeVars
<1>2. MutationNext(coord.item) => Mutation(coord.item) /\ coord.operation = "mutation"
  BY <1>1, HeldMutation
<1>3. ASSUME NEW kind, NEW delay, Answer(kind, delay), kind \notin NotApplied
      PROVE  CoordFaithful'
  BY <1>3 DEF Answer, CoordFaithful
<1>4. ASSUME NEW kind, NEW delay, Answer(kind, delay),
             Mutation(coord.item) => UnsentNext(coord.item)
      PROVE  CoordFaithful'
  <2>1. coord'.pc = "answered" /\ coord'.item = coord.item
    BY <1>4 DEF Answer
  <2> QED BY <1>1, <1>2, <1>4, <2>1
          DEF CoordFaithful, Mutation, MutationNext, Unsent, UnsentNext
<1>5. CASE Acknowledge
  <2>1. ASSUME coord.part < PartsOf(coord.operation),
               coord' = [coord EXCEPT !.pc = "calling", !.part = @ + 1]
        PROVE  CoordFaithful'
    <3>1. ~MutationNext(coord.item)
      BY <1>1, <1>2, <1>5, <2>1, ExecutionAssumption DEF Acknowledge, Calling, PartsOf, Parts
    <3>2. coord'.pc = "calling" /\ coord'.item = coord.item
      BY <2>1 DEF CoordType
    <3> QED BY <3>1, <3>2 DEF CoordFaithful, Mutation, MutationNext
  <2>2. CASE Answer("success", 0)
    BY <1>3, <2>2 DEF NotApplied
  <2>3. ASSUME NEW next \in {"reading", "submitting"}, coord' = [coord EXCEPT !.pc = next]
        PROVE  CoordFaithful'
    <3>1. coord'.pc = next
      BY <2>3 DEF CoordType
    <3> QED BY <3>1 DEF CoordFaithful
  <2> QED BY <1>5, <2>1, <2>2, <2>3 DEF Acknowledge
<1>6. CASE Refuse
  <2>1. Request \in wire /\ wire' = wire \ {Request} /\ applied' = applied
        /\ Request.item = coord.item /\ \E kind, delay : Answer(kind, delay)
    BY <1>6 DEF Refuse, Request
  <2>2. ASSUME Mutation(coord.item)
        PROVE  UnsentNext(coord.item)
    <3>1. OnceAtMost(coord.item)
      BY <1>1, <2>2 DEF Faithful
    <3> QED BY <2>1, <3>1 DEF OnceAtMost, UnsentNext
  <2> QED BY <1>4, <2>1, <2>2
<1>7. CASE Lose \/ Misread \/ ReadAgain \/ CommitSubmission
  <2>1. \E kind \in {"lost", "refused", "success"} : Answer(kind, 0)
    BY <1>7 DEF Lose, Misread, ReadAgain, CommitSubmission
  <2> QED BY <1>3, <2>1 DEF NotApplied
\* The exception: from here on the item is one of those left unread.
<1>9. CASE NotRead
  <2>1. coord'.item = coord.item /\ coord'.pc = "answered" /\ coord.item \in unread'
    BY <1>9 DEF NotRead, Answer
  <2> QED BY <2>1 DEF CoordFaithful, Mutation
<1>8. CASE Withhold
  <2>1. coord.pc = "calling" /\ UNCHANGED <<wire, applied>> /\ \E kind, delay : Answer(kind, delay)
    BY <1>8 DEF Withhold, Calling, remoteVars
  <2>2. Mutation(coord.item) => UnsentNext(coord.item)
    BY <1>1, <2>1, UnsentKept DEF Faithful
  <2> QED BY <1>4, <2>1, <2>2
<1> QED BY <1>5, <1>6, <1>7, <1>8, <1>9

LEMMA InspectFaithful ==
    ASSUME ExecInv, Owned, Tracked, Faithful, CoordInspect
    PROVE  CoordFaithful'
<1> coord \in CoordType
  BY DEF ExecInv, ExecTypeOK
<1>1. /\ coord.pc = "answered" /\ link = "up" /\ outbox' = outbox
      /\ UNCHANGED <<wire, applied, unread>>
      /\ coord' = [coord EXCEPT !.pc = "inspected", !.seen = Shown(outbox[coord.item])]
  BY DEF CoordInspect, Polled, storeVars, remoteVars
<1>2. outbox[coord.item] \in Row /\ outbox[coord.item] # NoRow
  BY <1>1, OwnedRow DEF Executing
<1>3. Shown(outbox[coord.item]) # NoRow
  BY <1>2, ViewAssumption DEF Shown, ViewRow, Row
<1>4. /\ coord'.pc = "inspected" /\ coord'.item = coord.item /\ coord'.answer = coord.answer
      /\ coord'.seen # NoRow
  BY <1>1, <1>3
<1> QED BY <1>1, <1>4 DEF CoordFaithful, Faithful, Mutation, Unsent

LEMMA CoordFaithfulStep ==
    ASSUME ExecInv, ExecInv', StoreInv, Owned, Tracked, Faithful, [ExecNext]_execVars
    PROVE  CoordFaithful'
<1> coord \in CoordType
  BY DEF ExecInv, ExecTypeOK
<1>1. CASE CoordStart
  <2>1. /\ coord.pc = "claimed" /\ coord'.pc = "calling" /\ coord'.item = coord.item
        /\ UNCHANGED <<wire, applied>>
    BY <1>1 DEF CoordStart, Polled
  <2>2. coord.pc \in Holding /\ coord.item \in Ids
    BY <2>1 DEF Holding, CoordPcs, ExecInv, Held
  <2>3. MutationNext(coord.item) => Unsent(coord.item)
    BY <2>1, <2>2, HeldMutation DEF Faithful
  <2> QED BY <2>1, <2>3 DEF CoordFaithful, Mutation, MutationNext, Unsent
<1>2. CASE coord'.pc \in CoordPcs \ {"claimed", "calling", "answered", "inspected"}
  BY <1>2 DEF CoordFaithful
<1>3. CASE \/ CoordWakes \/ CoordComplete \/ CoordRemoved \/ CoordDecide \/ CoordRefused
           \/ CoordReload \/ CoordReport \/ SendPart \/ PopSubmission \/ LanePanics
           \/ CloseSession \/ Exit \/ SubmissionFails \/ Crash
  <2>1. CASE \/ CoordWakes \/ CoordRemoved \/ CoordRefused \/ CoordReport
             \/ LanePanics \/ CloseSession \/ Exit \/ SubmissionFails \/ Crash
    <3>1. coord'.pc \in {"idle", "raising"}
      BY <2>1 DEF CoordWakes, CoordRemoved, CoordRefused, CoordReport, LanePanics, CloseSession,
         Exit, SubmissionFails, Crash, Idle
    <3> QED BY <1>2, <3>1 DEF CoordPcs
  <2>2. CASE CoordComplete \/ CoordDecide \/ CoordReload \/ SendPart \/ PopSubmission
    <3>1. coord'.pc \in {"completing", "stored", "reporting", "sent", "popped"}
      BY <2>2 DEF CoordComplete, CoordDecide, CoordReload, SendPart, PopSubmission, CoordType
    <3> QED BY <1>2, <3>1 DEF CoordPcs
  <2> QED BY <1>3, <2>1, <2>2
<1>4. CASE coord' = coord /\ UNCHANGED <<wire, applied>>
  BY <1>4, CoordHeldStep
<1>5. CASE \E request \in wire : Lands(request)
  BY <1>5, CoordHeldStep DEF Lands, sessionVars
<1>6. UNCHANGED execVars => coord' = coord /\ UNCHANGED <<wire, applied>>
  BY DEF execVars
<1> QED BY <1>1, <1>3, <1>4, <1>5, <1>6, ClaimFaithful, AnswerFaithful, InspectFaithful
        DEF ExecNext, CoordStep, CoordRaises, LaneStep, LaneAdmit, LaneLook, LaneAct,
            LaneRefused, LaneReload, LaneReport, LaneFails, SessionStep, Reopen, Launch, Served,
            Failure, Disconnect, UserRequest, AskAction, AskSend, Tick, sessionVars, remoteVars

LEMMA FaithfulStep ==
    ASSUME ExecInv, ExecInv', StoreInv, Owned, Tracked, Faithful, [ExecNext]_execVars
    PROVE  Faithful'
BY RowsStep, CoordFaithfulStep DEF Faithful, RowsFaithful, CoordFaithful

LEMMA FaithfulInit ==
    ASSUME ExecInit
    PROVE  Owned /\ Tracked /\ Faithful
<1>1. coord = Idle /\ coord.pc = "idle" /\ lane = Free /\ lane.pc = "free" /\ lane.seen = NoRow
  BY FreshTyped DEF ExecInit, Free
<1>2. outbox = [i \in Ids |-> NoRow] /\ wire = {} /\ view = [i \in Ids |-> NoRow]
  BY DEF ExecInit, StoreInit
<1>3. 1 \in Parts
  BY ExecutionAssumption DEF Parts
<1>4. \A i \in Ids : applied[i][1] = 0
  BY <1>3 DEF ExecInit
<1>5. Owned
  BY <1>1, <1>2 DEF Owned, CoordinatorOwnsActive, Active, InState, Live, Executing
<1>6. Tracked
  BY <1>1, <1>2, <1>4 DEF Tracked, ViewKnown, CoordKnown, LaneKnown, RemoteKnown, Holding, CoordPcs
<1>7. Faithful
  BY <1>1, <1>2 DEF Faithful, Mutation
<1> QED BY <1>5, <1>6, <1>7

\* The three together are inductive: a mutation stays unsent while the coordinator
\* owns its row, and what the user decides about is known to be a send.
LEMMA FaithfulInvariant == ExecSpec => [](Owned /\ Tracked /\ Faithful)
<1>1. ExecInit => Owned /\ Tracked /\ Faithful
  BY FaithfulInit
<1>2. /\ ExecInv /\ StoreInv /\ ExecInv' /\ StoreInv'
      /\ Owned /\ Tracked /\ Faithful /\ [ExecNext]_execVars
      => Owned' /\ Tracked' /\ Faithful'
  BY OwnedStep, TrackedStep, FaithfulStep
<1> QED BY <1>1, <1>2, ExecInvariant, PTL DEF ExecSpec

\* A mutation takes effect at most once, however its attempts end, whatever the
\* user decides and wherever the process stops, but for the same one.
THEOREM MutationAppliedOnceAlways == ExecSpec => []MutationAppliedOnce
<1>1. Faithful => MutationAppliedOnce
  BY DEF Faithful, MutationAppliedOnce, Mutation, OnceAtMost, Live
<1> QED BY <1>1, FaithfulInvariant, PTL

\* A mutation that is still to be sent, or that is stated to have failed, has not
\* taken effect and will not, but for one whose message could not be read again.
THEOREM UnsentMutationsUnsentAlways == ExecSpec => []UnsentMutationsUnsent
<1>1. Faithful => UnsentMutationsUnsent
  BY DEF Faithful, UnsentMutationsUnsent, Mutation, Unsent, Resendable, Live
<1> QED BY <1>1, FaithfulInvariant, PTL

--------------------------------------------------------------------------------
(* The end of an item.                                                     *)

PartApplied(i, p) == applied[i][p] >= 1

PartAppliedNext(i, p) == applied'[i][p] >= 1

\* The parts before the one in hand have landed; the one in hand is on the wire or
\* has landed; success means all of them.
Landed ==
    /\ coord.pc \in {"calling", "sent"} =>
          \A p \in Parts : p < coord.part => PartApplied(coord.item, p)
    /\ coord.pc = "sent" => Request \in wire \/ PartApplied(coord.item, coord.part)
    /\ \/ coord.pc \in {"reading", "submitting", "popped"}
       \/ coord.pc = "answered" /\ coord.answer.kind = "success"
       => \A p \in Parts : p <= PartsOf(coord.operation) => PartApplied(coord.item, p)

\* Nothing that landed is taken back.
AppliedStays == \A i \in Ids, p \in Parts : PartApplied(i, p) => PartAppliedNext(i, p)

LEMMA LandsKeeps ==
    ASSUME ExecInv, NEW request \in wire, Lands(request)
    PROVE  AppliedStays /\ PartAppliedNext(request.item, request.part)
<1>1. /\ applied \in [Ids -> [Parts -> Nat]]
      /\ request.item \in Ids /\ request.part \in Parts
  BY DEF ExecInv, ExecTypeOK
<1> DEFINE count == IF request.once THEN 1 ELSE applied[request.item][request.part] + 1
<1>2. applied' = [applied EXCEPT ![request.item][request.part] = count]
  BY DEF Lands
<1>3. count >= 1
  <2>1. applied[request.item][request.part] \in Nat
    BY <1>1
  <2> QED BY <2>1
<1> HIDE DEF count
<1>4. applied'[request.item] = [applied[request.item] EXCEPT ![request.part] = count]
  BY <1>1, <1>2
<1>5. applied'[request.item][request.part] = count
  BY <1>1, <1>4
<1>6. ASSUME NEW i \in Ids, NEW p \in Parts, applied[i][p] >= 1
      PROVE  applied'[i][p] >= 1
  <2>1. CASE i = request.item /\ p = request.part
    BY <1>3, <1>5, <2>1
  <2>2. CASE i = request.item /\ p # request.part
    <3>1. applied'[i][p] = applied[i][p]
      BY <1>1, <1>4, <2>2
    <3> QED BY <1>6, <3>1
  <2>3. CASE i # request.item
    <3>1. applied'[i] = applied[i]
      BY <1>1, <1>2, <2>3
    <3> QED BY <1>6, <3>1
  <2> QED BY <2>1, <2>2, <2>3
<1> QED BY <1>1, <1>3, <1>5, <1>6 DEF AppliedStays, PartApplied, PartAppliedNext

LEMMA StepKeepsApplied ==
    ASSUME ExecInv, [ExecNext]_execVars
    PROVE  AppliedStays
<1>1. CASE UNCHANGED applied
  BY <1>1 DEF AppliedStays, PartApplied, PartAppliedNext
<1>2. UNCHANGED execVars => UNCHANGED applied
  BY DEF execVars
<1> QED BY <1>1, <1>2, LandsKeeps
        DEF ExecNext, CoordStep, CoordClaim, CoordWakes, CoordStart, CoordComplete, CoordRemoved,
            CoordInspect, CoordDecide, CoordRefused, CoordReload, CoordReport, CoordRaises,
            LaneStep, LaneAdmit, LaneLook, LaneAct, LaneRefused, LaneReload, LanePanics, LaneReport,
            LaneFails,
            SessionStep, CloseSession, Reopen, Launch, Exit, Served, SendPart, Acknowledge, ReadAgain, PopSubmission,
            CommitSubmission,             Failure, Refuse, Lose, Withhold, Misread, NotRead, SubmissionFails,
            Disconnect, Crash, UserRequest, AskAction, AskSend,
            Tick, remoteVars

LEMMA LandedStep ==
    ASSUME ExecInv, Landed, [ExecNext]_execVars
    PROVE  Landed'
<1> USE DEF CoordType
<1> coord \in CoordType
  BY DEF ExecInv, ExecTypeOK
<1>1. AppliedStays
  BY StepKeepsApplied
<1> DEFINE InHand == {"calling", "sent", "reading", "submitting", "popped", "answered"}
<1>2. coord.pc \in InHand => coord.item \in Ids
  BY DEF ExecInv, Held, Holding, CoordPcs
<1>3. coord.pc \in {"calling", "sent"} => coord.part \in Parts
  BY DEF ExecInv, Held
<1>4. \A p \in Parts : p \in Nat /\ p >= 1 /\ p <= SendParts
  BY ExecutionAssumption DEF Parts
\* The coordinator has no part in hand.
<1>5. CASE coord'.pc \notin InHand
  BY <1>5 DEF Landed
<1>6. ASSUME NEW kind, NEW delay, Answer(kind, delay), kind # "success"
      PROVE  Landed'
  <2>1. coord'.pc = "answered" /\ coord'.answer.kind = kind
    BY <1>6 DEF Answer
  <2> QED BY <1>6, <2>1 DEF Landed
<1>7. CASE CoordStart
  <2>1. coord'.pc = "calling" /\ coord'.part = 1
    BY <1>7 DEF CoordStart
  <2> QED BY <1>4, <2>1 DEF Landed
<1>8. CASE SendPart
  <2>1. /\ coord.pc = "calling" /\ wire' = wire \cup {Request}
        /\ coord' = [coord EXCEPT !.pc = "sent"] /\ tries' = tries
    BY <1>8 DEF SendPart, Calling
  <2>2. /\ coord'.pc = "sent" /\ coord'.item = coord.item /\ coord'.part = coord.part
        /\ coord'.operation = coord.operation
    BY <2>1
  <2>3. Request' = Request
    BY <2>1, <2>2 DEF Request
  <2>4. Request' \in wire'
    BY <2>1, <2>3
  <2> QED BY <1>1, <1>2, <2>1, <2>2, <2>4 DEF Landed, AppliedStays, PartApplied, PartAppliedNext
<1>9. CASE Acknowledge
  <2>1. /\ coord.pc = "sent" /\ Request \notin wire
    BY <1>9 DEF Acknowledge, Calling
  <2>2. \A p \in Parts : p <= coord.part => PartAppliedNext(coord.item, p)
    <3>1. ASSUME NEW p \in Parts, p <= coord.part
          PROVE  PartApplied(coord.item, p)
      <4>1. p = coord.part \/ p < coord.part
        BY <1>3, <1>4, <2>1, <3>1
      <4> QED BY <2>1, <3>1, <4>1 DEF Landed
    <3> QED BY <1>1, <1>2, <2>1, <3>1 DEF AppliedStays
  <2>3. ASSUME coord.part < PartsOf(coord.operation),
               coord' = [coord EXCEPT !.pc = "calling", !.part = @ + 1]
        PROVE  Landed'
    <3>1. coord'.pc = "calling" /\ coord'.part = coord.part + 1 /\ coord'.item = coord.item
      BY <2>3
    <3>2. \A p \in Parts : p < coord.part + 1 => p <= coord.part
      BY <1>3, <1>4, <2>1
    <3> QED BY <2>2, <3>1, <3>2 DEF Landed, PartApplied, PartAppliedNext
  <2>4. ASSUME coord.part >= PartsOf(coord.operation) \/ coord.operation = "mutation",
               coord'.pc \in InHand \ {"calling", "sent"}, coord'.item = coord.item,
               coord'.operation = coord.operation
        PROVE  Landed'
    <3>2. \A p \in Parts : p <= PartsOf(coord.operation) => p <= coord.part
      BY <1>3, <1>4, <2>1, <2>4, ExecutionAssumption DEF PartsOf
    <3>3. PartsOf(coord'.operation) = PartsOf(coord.operation)
      BY <2>4
    <3> QED BY <2>2, <2>4, <3>2, <3>3 DEF Landed, PartApplied, PartAppliedNext, PartsOf
  <2>5. CASE coord.part >= PartsOf(coord.operation) /\ Answer("success", 0)
    <3>1. /\ coord'.pc = "answered" /\ coord'.item = coord.item
          /\ coord'.operation = coord.operation
      BY <2>5 DEF Answer
    <3> QED BY <2>4, <2>5, <3>1
  <2>6. ASSUME coord.operation = "mutation", NEW next \in {"reading", "submitting"},
               coord' = [coord EXCEPT !.pc = next]
        PROVE  Landed'
    <3>1. coord'.pc = next /\ coord'.item = coord.item /\ coord'.operation = coord.operation
      BY <2>6
    <3> QED BY <2>4, <2>6, <3>1
  <2> QED BY <1>9, <2>3, <2>5, <2>6 DEF Acknowledge
<1>10. CASE Refuse
  <2>1. \E kind \in {"refused", "flood"}, delay \in Delays \cup {0} : Answer(kind, delay)
    BY <1>10 DEF Refuse
  <2> QED BY <1>6, <2>1
<1>11. CASE Lose \/ Withhold \/ Misread \/ NotRead
  <2>1. \E kind \in {"lost", "capacity", "corrupt", "refused"} : Answer(kind, 0)
    BY <1>11 DEF Lose, Withhold, Misread, NotRead
  <2> QED BY <1>6, <2>1
\* The item is applied: its message is read again, or its update delivered.
<1>19. CASE ReadAgain \/ PopSubmission \/ CommitSubmission
  <2>1. /\ coord.pc \in {"reading", "submitting", "popped"}
        /\ coord'.pc \in {"popped", "answered"}
        /\ coord'.item = coord.item /\ coord'.operation = coord.operation
    BY <1>19 DEF ReadAgain, PopSubmission, CommitSubmission, Calling, Answer
  <2>2. PartsOf(coord'.operation) = PartsOf(coord.operation)
    BY <2>1
  <2> QED BY <1>1, <1>2, <2>1, <2>2 DEF Landed, AppliedStays, PartApplied, PartAppliedNext, PartsOf
\* The coordinator goes on waiting.
<1>12. ASSUME UNCHANGED <<coord, tries>>,
              wire' = wire \/ \E request \in wire : Lands(request)
       PROVE  Landed'
  <2>1. Request' = Request
    BY <1>12 DEF Request
  <2>2. coord.pc = "sent" => Request \in wire' \/ PartAppliedNext(coord.item, coord.part)
    <3>1. ASSUME coord.pc = "sent", Request \in wire, Request \notin wire'
          PROVE  PartAppliedNext(coord.item, coord.part)
      <4>1. PICK request \in wire : Lands(request)
        BY <1>12, <3>1
      <4>2. request = Request
        BY <3>1, <4>1 DEF Lands
      <4> QED BY <4>1, <4>2, LandsKeeps DEF Request
    <3>2. ASSUME coord.pc = "sent", PartApplied(coord.item, coord.part)
          PROVE  PartAppliedNext(coord.item, coord.part)
      BY <1>1, <1>2, <1>3, <3>2 DEF AppliedStays
    <3> QED BY <3>1, <3>2 DEF Landed
  <2>3. coord' = coord
    BY <1>12
  <2>4. \A p \in Parts : coord.pc \in InHand
            /\ PartApplied(coord.item, p) => PartAppliedNext(coord.item, p)
    BY <1>1, <1>2 DEF AppliedStays
  <2> QED BY <2>1, <2>2, <2>3, <2>4 DEF Landed, PartApplied, PartAppliedNext, PartsOf
<1>13. CASE \E request \in wire : Lands(request)
  BY <1>12, <1>13 DEF Lands, sessionVars
<1>14. CASE UNCHANGED <<coord, tries, wire>>
  BY <1>12, <1>14
<1>15. CASE \/ CoordWakes \/ CoordRemoved \/ CoordRefused \/ CoordReport \/ LanePanics
            \/ CloseSession \/ Exit \/ SubmissionFails \/ Crash
  <2>1. coord'.pc \in {"idle", "raising"}
    BY <1>15 DEF CoordWakes, CoordRemoved, CoordRefused, CoordReport, LanePanics, CloseSession,
       Exit, SubmissionFails, Crash, Idle
  <2> QED BY <1>5, <2>1
<1>16. CASE CoordComplete \/ CoordInspect \/ CoordDecide \/ CoordReload
  <2>1. coord'.pc \in {"completing", "inspected", "stored", "reporting"}
    BY <1>16 DEF CoordComplete, CoordInspect, CoordDecide, CoordReload
  <2> QED BY <1>5, <2>1
<1>17. CASE CoordClaim
  <2>1. coord' = Idle => coord'.pc = "idle"
    BY FreshTyped
  <2>2. \A t : coord' = [Idle EXCEPT !.pc = "sleeping", !.since = t] => coord'.pc = "sleeping"
    BY DEF Idle
  <2>3. \A i \in Ids : coord' = [Idle EXCEPT !.pc = "claimed", !.item = i,
                                             !.operation = outbox[i].operation]
                          => coord'.pc = "claimed"
    BY DEF Idle
  <2>4. coord'.pc \in {"idle", "sleeping", "claimed"}
    BY <1>17, <2>1, <2>2, <2>3 DEF CoordClaim
  <2> QED BY <1>5, <2>4
<1>18. UNCHANGED execVars => UNCHANGED <<coord, tries, wire>>
  BY DEF execVars
<1> QED BY <1>7, <1>8, <1>9, <1>10, <1>11, <1>13, <1>14, <1>15, <1>16, <1>17, <1>18, <1>19
        DEF ExecNext, CoordStep, CoordRaises, LaneStep, LaneAdmit, LaneLook, LaneAct,
            LaneRefused, LaneReload, LaneReport, LaneFails, SessionStep, Reopen, Launch, Served,
            Failure, Disconnect, UserRequest, AskAction, AskSend, Tick, sessionVars, remoteVars

LEMMA TransitionKeeps ==
    ASSUME StoreTypeOK, NEW j \in Ids, NEW allowed, NEW state \in States,
           NEW available \in Times \cup {NoTime}, Transition(j, allowed, state, available),
           NEW i \in Ids, outbox[i] # NoRow
    PROVE  outbox'[i] # NoRow
<1>1. /\ outbox[j] \in Row /\ outbox \in [Ids -> Row \cup {NoRow}]
      /\ outbox' = [outbox EXCEPT ![j] = Moved(@, state, available)]
  BY DEF Transition, InState, Live, StoreTypeOK
<1>2. Moved(outbox[j], state, available) \in Row
  BY <1>1 DEF Moved, Row
<1> QED BY <1>1, <1>2, NoRowAssumption

LEMMA ActKeeps ==
    ASSUME StoreTypeOK, NEW j \in Ids, NEW action, Act(j, action),
           NEW i \in Ids, outbox[i] # NoRow, outbox'[i] = NoRow
    PROVE  Dismiss(j)
<1>1. NoTime \in Times \cup {NoTime} /\ {"cancelled", "cancel_requested", "ready"} \subseteq States
  BY DEF States
<1>2. ~Cancel(j) /\ ~Retry(j) /\ ~ResolveConflict(j) /\ ~ResolveOutcomeUnknown(j)
  BY <1>1, TransitionKeeps DEF Cancel, Retry, ResolveConflict, ResolveOutcomeUnknown
<1> QED BY <1>2 DEF Act

\* A row leaves with the acknowledgement of its operation, or the user dismisses it.
LEMMA RemovedBy ==
    ASSUME ExecInv, [ExecNext]_execVars, NEW i \in Ids, outbox[i] # NoRow, outbox'[i] = NoRow
    PROVE  \/ LaneAct /\ i = lane.item /\ outbox[i].state \in HeldStates
           \/ CoordComplete /\ i = coord.item
<1>1. StoreTypeOK /\ now \in Times /\ outbox \in [Ids -> Row \cup {NoRow}] /\ outbox[i] \in Row
  BY ExecutionAssumption DEF ExecInv, ExecTypeOK, StoreTypeOK
<1>3. CASE CoordClaim
  <2>1. i \in Live(Swept(now)) /\ Swept(now) \in [Ids -> Row \cup {NoRow}]
    BY <1>1, SweptRows DEF Live
  <2>2. CASE outbox' = Swept(now)
    BY <2>1, <2>2 DEF Live
  <2>3. ASSUME NEW j \in Ids, outbox' = [Swept(now) EXCEPT ![j] = Moved(@, "in_flight", NoTime)]
        PROVE  FALSE
    <3>1. i = j
      BY <2>1, <2>3 DEF Live
    <3>2. outbox'[i] = Moved(Swept(now)[i], "in_flight", NoTime) /\ Swept(now)[i] \in Row
      BY <2>1, <2>3, <3>1 DEF Live
    <3>3. Moved(Swept(now)[i], "in_flight", NoTime) \in Row
      BY <3>2 DEF Moved, Row, States
    <3> QED BY <3>2, <3>3, NoRowAssumption
  <2> QED BY <1>3, <2>2, <2>3 DEF CoordClaim, ClaimIdle, ClaimWaiting, ClaimHead
<1>4. CASE CoordComplete
  BY <1>1, <1>4 DEF CoordComplete, Complete, Remove
<1>5. CASE CoordDecide
  <2>1. coord.item \in Ids
    BY <1>5 DEF CoordDecide, Polled, ExecInv, Held, Holding, CoordPcs
  <2>2. PICK allowed \in SUBSET States, state \in States, available \in Times \cup {NoTime} :
            Transition(coord.item, allowed, state, available)
    <3>1. \E allowed \in SUBSET States, state \in States \ ActiveStates,
              available \in Times \cup {NoTime} :
              Transition(coord.item, allowed, state, available)
      BY <1>5, OutcomeStored
    <3> QED BY <3>1
  <2> QED BY <1>1, <2>1, <2>2, TransitionKeeps
<1>6. CASE LaneAdmit
  <2>1. i = nextId
    BY <1>1, <1>6 DEF LaneAdmit, Admit
  <2>2. outbox'[i] \in Row
    BY <1>1, <1>6, <2>1, ExecutionAssumption DEF LaneAdmit, Admit, Row, States
  <2> QED BY <2>2, NoRowAssumption
<1>7. CASE LaneAct
  <2>1. lane.item \in Ids /\ Act(lane.item, lane.action)
    BY <1>7 DEF LaneAct, ExecInv, Held
  <2>2. Dismiss(lane.item)
    BY <1>1, <2>1, ActKeeps
  <2> QED BY <1>1, <1>7, <2>1, <2>2 DEF Dismiss, Remove, InState
<1>8. CASE Reopen \/ Launch
  <2>1. outbox'[i] = Recovered(outbox[i])
    BY <1>8 DEF Reopen, Launch, Recover
  <2> QED BY <1>1, <2>1, RecoveredRow, NoRowAssumption
<1>9. CASE UNCHANGED storeVars
  BY <1>9 DEF storeVars
<1>10. UNCHANGED execVars => UNCHANGED storeVars
  BY DEF execVars, storeVars
<1> QED BY <1>3, <1>4, <1>5, <1>6, <1>7, <1>8, <1>9, <1>10
        DEF ExecNext, CoordStep, CoordWakes, CoordStart, CoordRemoved, CoordInspect,
            CoordRefused, CoordReload, CoordReport, CoordRaises, LaneStep, LaneLook, LaneRefused,
            LaneReload, LanePanics, LaneReport,
            LaneFails, SessionStep, CloseSession, Exit, Served, SendPart,
            Acknowledge, ReadAgain, PopSubmission,
            CommitSubmission, Lands, Failure, Refuse, Lose, Withhold, Misread, NotRead, SubmissionFails,
            Disconnect, Crash, UserRequest,
            AskAction, AskSend, Tick

LEMMA LandedInvariant == ExecSpec => []Landed
<1>1. ExecInit => Landed
  BY FreshTyped DEF ExecInit, Landed
<1>2. ExecInv /\ Landed /\ [ExecNext]_execVars => Landed'
  BY LandedStep
<1> QED BY <1>1, <1>2, ExecInvariant, PTL DEF ExecSpec

\* An item leaves the Outbox only when Telegram has applied every part of it, or
\* because the user dismissed one that was set aside.
THEOREM RemovedOnlyWhenAppliedAlways == ExecSpec => RemovedOnlyWhenApplied
<1>1. ExecInv /\ StoreInv /\ Tracked /\ Landed /\ [ExecNext]_execVars
        => [\A i \in Live(outbox) :
               outbox'[i] = NoRow => \/ outbox[i].state \in HeldStates
                                     \/ \A p \in 1..PartsOf(outbox[i].operation) :
                                            applied[i][p] >= 1]_execVars
  <2> SUFFICES ASSUME ExecInv, Tracked, Landed, [ExecNext]_execVars, NEW i \in Live(outbox),
                      outbox'[i] = NoRow, outbox[i].state \notin HeldStates,
                      NEW p \in 1..PartsOf(outbox[i].operation)
               PROVE  applied[i][p] >= 1
    OBVIOUS
  <2>1. i \in Ids /\ outbox[i] # NoRow
    BY DEF Live
  <2>2. CoordComplete /\ i = coord.item
    BY <2>1, RemovedBy
  <2>3. coord.pc = "answered" /\ coord.answer.kind = "success"
    BY <2>2 DEF CoordComplete, Polled
  <2>4. outbox[i].operation = coord.operation
    BY <2>1, <2>2, <2>3 DEF Tracked, CoordKnown, Known, Holding, CoordPcs
  <2>5. p \in Parts /\ p <= PartsOf(coord.operation)
    BY <2>4, ExecutionAssumption DEF Parts, PartsOf
  <2> QED BY <2>2, <2>3, <2>5 DEF Landed, PartApplied, PartAppliedNext
<1> QED BY <1>1, ExecInvariant, FaithfulInvariant, LandedInvariant, PTL DEF ExecSpec, RemovedOnlyWhenApplied

\* A recorded cancellation is never undone by the outcome of the attempt or by
\* recovery: the item is acknowledged, cancelled or left to the user.
THEOREM CancellationNotReplayedAlways == ExecSpec => CancellationNotReplayed
<1>1. ExecInv /\ StoreInv /\ [ExecNext]_execVars
        => [\A i \in Ids : InState(outbox, i, {"cancel_requested"}) =>
               \/ outbox'[i] = NoRow
               \/ InState(outbox, i, {"cancel_requested", "cancelled",
                                      "outcome_unknown"})']_execVars
  <2> SUFFICES ASSUME ExecInv, StoreInv, [ExecNext]_execVars, NEW i \in Ids,
                      InState(outbox, i, {"cancel_requested"}), outbox'[i] # NoRow
               PROVE  InState(outbox, i, {"cancel_requested", "cancelled", "outcome_unknown"})'
    OBVIOUS
  <2>1. [StoreNext]_storeVars
    BY ExecStepStores
  <2>2. i \in Live(outbox) /\ outbox[i].state = "cancel_requested"
    BY DEF InState
  <2>3. outbox'[i].state \in {"cancel_requested", "cancelled", "outcome_unknown"}
    BY <2>1, <2>2, EdgeStep DEF Edge, RunnableStates
  <2> QED BY <2>3 DEF InState, Live
<1> QED BY <1>1, ExecInvariant, PTL DEF ExecSpec, CancellationNotReplayed
================================================================================
