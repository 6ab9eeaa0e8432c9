----------------------------- MODULE UpdateDelivery -----------------------------
(***************************************************************************)
(* How Telegram updates become durable and reach the application           *)
(* (crates/intuigram-app/src/runtime/adapters.rs, update_ordering.rs,      *)
(* sync/, types/submission.rs, actor_session/driver.rs, authorization.rs). *)
(*                                                                         *)
(* Telegram issues envelopes.  Each carries cursor components of update    *)
(* scopes (the account, and each channel).  The network delivers them to   *)
(* the MTProto buffer in any order, again, or never.  The event driver     *)
(* commits one envelope at a time: records and cursors in one transaction  *)
(* of the database worker, and only then sends the events through a        *)
(* bounded channel to the application.  An envelope ahead of its scope's   *)
(* cursor is deferred for a while.  The answer of an own request is an     *)
(* envelope as well: the handler submits it, and waits until the driver    *)
(* has drained the envelopes before it, committed it and delivered it.     *)
(*                                                                         *)
(* One iteration of poll_worker_event is one action; their guards give the *)
(* order in which the iteration tries its sources.                         *)
(***************************************************************************)
EXTENDS Naturals, Sequences, FiniteSets

CONSTANTS Scopes,      \* update scopes
          Account,     \* the scope of the account itself
          Envelopes,
          NoEnvelope,
          Content,     \* the cursor components and the events of each envelope
          Own,         \* those that answer a request of this client
          Worlds,      \* what Telegram may issue, in order, and the durable cursors at first
          MaxArrivals, \* bound on deliveries of one envelope
          MaxFaults,   \* bound on crashes, lost connections and failed commits
          Capacity     \* of the channel to the application

\* gap: TooLong and PtsChanged, which carry nothing else.
ContentType == [pts : [Scopes -> Nat], count : [Scopes -> Nat], date : Nat,
                start : Nat, seq : Nat, gap : BOOLEAN, events : Nat]

ASSUME DeliveryAssumption ==
    /\ Account \in Scopes
    /\ NoEnvelope \notin Envelopes
    /\ Content \in [Envelopes -> ContentType]
    /\ Own \subseteq Envelopes
    /\ Worlds \subseteq [history : Seq(Envelopes), base : [Scopes -> Nat]]
    /\ MaxArrivals \in Nat /\ MaxFaults \in Nat /\ Capacity \in Nat \ {0}

\* Telegram issues an envelope once, and numbers the counted changes of a scope:
\* each lies above what was issued before by at least its count.  External: what
\* apply_cursor_delta expects of the next update (sync/cursor.rs:42-47).
ASSUME NumberingAssumption ==
    \A w \in Worlds : \A j \in DOMAIN w.history :
        /\ \A i \in 1..(j - 1) : w.history[i] # w.history[j]
        /\ \A s \in Scopes : LET new == Content[w.history[j]]
                            IN new.count[s] > 0 =>
                                  /\ w.base[s] + new.count[s] <= new.pts[s]
                                  /\ \A i \in 1..(j - 1) :
                                        Content[w.history[i]].pts[s] + new.count[s] <= new.pts[s]

VARIABLES world,     \* the one of Worlds this behaviour is in
          issued,    \* how much of its history Telegram has issued
          arrived,   \* deliveries of each envelope so far
          link,      \* the MTProto connection driver
          buffer,    \* raw updates buffered by MTProto
          phase,     \* off, asking (account cursor read), live or leaving
          stop,      \* DriverStop
          driver,    \* polling, sending, parked (BackendEvents::stopped) or closed
          out,       \* what the driver is sending
          cursor,    \* UpdateCommitter::cursors
          deferred,  \* deferred_updates
          commit,    \* the commit the driver awaits and what the worker made of it
          ready,     \* pending_events
          rpc,       \* the request of the actor's handler and where its completion is
          channel,   \* from the driver to the application
          seen,      \* events the application received
          disk,      \* the durable cursors
          stored,    \* envelopes whose records are durable
          snapshot,  \* per scope, how much of History its last bootstrap includes
          baseline,  \* per scope, the pts before which nothing is known
          faults

wireVars   == <<world, issued, arrived>>
driverVars == <<driver, out, cursor, deferred, commit, ready, rpc, channel>>
diskVars   == <<disk, stored, snapshot, baseline>>
deliveryVars == <<world, issued, arrived, link, buffer, phase, stop, driver, out, cursor, deferred,
                  commit, ready, rpc, channel, seen, disk, stored, snapshot, baseline, faults>>

History == world.history

\* The durable cursor of each scope at first, 0 when it is unknown.
Base == world.base

Elements(s) == {s[i] : i \in DOMAIN s}

Larger(a, b) == IF a > b THEN a ELSE b

Failure == [kind |-> "failed", env |-> NoEnvelope, nth |-> 0]
Nothing == [kind |-> "none", env |-> NoEnvelope, nth |-> 0]
Event(e, n) == [kind |-> "event", env |-> e, nth |-> n]

NoRpc == [at |-> "none", env |-> NoEnvelope, ahead |-> 0, prefix |-> {}]

NoCommit == [state |-> "none", env |-> NoEnvelope, shows |-> FALSE]

NoCursor == [pts |-> [s \in Scopes |-> 0], date |-> 0, seq |-> 0]

DeliveryInit ==
    /\ world \in Worlds
    /\ issued = 0
    /\ arrived = [e \in Envelopes |-> 0]
    /\ link = "down" /\ buffer = <<>>
    /\ phase = "off" /\ stop = FALSE
    /\ driver = "closed" /\ out = Nothing
    /\ disk = [NoCursor EXCEPT !.pts = Base]
    /\ cursor = disk
    /\ deferred = <<>> /\ commit = NoCommit /\ ready = <<>> /\ rpc = NoRpc
    /\ channel = <<>> /\ seen = <<>>
    /\ stored = {}
    /\ snapshot = [s \in Scopes |-> 0]
    /\ baseline = Base
    /\ faults = 0

-------------------------------------------------------------------------------
(* Cursor arithmetic (sync/cursor.rs).                                     *)

\* A mutated form of the next definition, for checking the properties.
AheadUnchecked(e, s) == FALSE

AheadInPts(e, s) == /\ cursor.pts[s] # 0
                    /\ Content[e].pts[s] > cursor.pts[s]
                    /\ Content[e].pts[s] # cursor.pts[s] + Content[e].count[s]

AheadInSeq(e) == /\ Content[e].seq # 0
                 /\ cursor.seq # 0
                 /\ Content[e].start > cursor.seq + 1

Verdict(e) == IF Content[e].gap THEN "gap"
              ELSE IF AheadInSeq(e) \/ \E s \in Scopes : AheadInPts(e, s) THEN "defer"
              ELSE "apply"

HasCursor(e) == \/ \E s \in Scopes : Content[e].pts[s] # 0
                \/ Content[e].date # 0 \/ Content[e].seq # 0

\* A mutated form of the next definition, for checking the properties.
NewOrRepeated(e, s) == Content[e].pts[s] # 0 /\ Content[e].pts[s] >= cursor.pts[s]

NewInScope(e, s) == \/ Content[e].pts[s] > cursor.pts[s]
                    \/ /\ cursor.pts[s] # 0
                       /\ Content[e].pts[s] = cursor.pts[s]
                       /\ Content[e].count[s] = 0

\* Whether the events of an applicable envelope are kept.
Exposes(e) == \/ ~HasCursor(e)
              \/ \E s \in Scopes : NewInScope(e, s)
              \/ Content[e].date > cursor.date
              \/ Content[e].seq > cursor.seq

Advanced(e) == [pts  |-> [s \in Scopes |-> Larger(cursor.pts[s], Content[e].pts[s])],
                date |-> Larger(cursor.date, Content[e].date),
                seq  |-> Larger(cursor.seq, Content[e].seq)]

Unblocked == deferred # <<>> /\ Verdict(Head(deferred)) = "apply"

-------------------------------------------------------------------------------
(* Telegram and the network.                                               *)

Issued == {History[i] : i \in 1..issued}

\* What Telegram's own counters say after the first n envelopes.
Highest(values) == CHOOSE v \in values : \A w \in values : w <= v

ServerPts(s) == Highest({Base[s]} \union {Content[e].pts[s] : e \in Issued})
ServerDate == Highest({0} \union {Content[e].date : e \in Issued})
ServerSeq == Highest({0} \union {Content[e].seq : e \in Issued})

Settled == /\ driver = "polling" /\ ~stop
           /\ commit = NoCommit /\ ready = <<>>
           /\ ~Unblocked

BarrierReached == rpc.at = "queued" /\ rpc.ahead = 0 /\ deferred = <<>>

ReadsLive == Settled /\ rpc.at # "submitted" /\ ~BarrierReached

\* The connection makes progress when it is polled: by the requests of the
\* bootstrap, later by the driver when nothing else is to be done.
Receiving == link = "up" /\ (phase = "asking" \/ ReadsLive)

Issue == /\ issued < Len(History)
         /\ History[issued + 1] \notin Own
         /\ issued' = issued + 1
         /\ UNCHANGED <<world, arrived, link, buffer, phase, stop, driverVars, seen, diskVars,
                        faults>>

Arrive(e) == /\ Receiving
             /\ e \in Issued
             /\ arrived[e] < MaxArrivals
             /\ arrived' = [arrived EXCEPT ![e] = @ + 1]
             /\ buffer' = Append(buffer, e)
             /\ UNCHANGED <<world, issued, link, phase, stop, driverVars, seen, diskVars, faults>>

\* The MTProto driver publishes an own update before it completes the request.
Answer == /\ phase = "live" /\ Receiving /\ rpc.at = "none"
          /\ issued < Len(History)
          /\ History[issued + 1] \in Own
          /\ issued' = issued + 1
          /\ arrived' = [arrived EXCEPT ![History[issued + 1]] = @ + 1]
          /\ buffer' = Append(buffer, History[issued + 1])
          /\ rpc' = [NoRpc EXCEPT !.at = "answered", !.env = History[issued + 1]]
          /\ UNCHANGED <<world, link, phase, stop, driver, out, cursor, deferred, commit, ready,
                         channel, seen, diskVars, faults>>

\* The request is lost with the connection although Telegram carried it out.
AnswerLost == /\ link = "down" /\ rpc.at = "none"
              /\ issued < Len(History)
              /\ History[issued + 1] \in Own
              /\ issued' = issued + 1
              /\ UNCHANGED <<world, arrived, link, buffer, phase, stop, driverVars, seen, diskVars,
                             faults>>

LinkDown == /\ link = "up" /\ faults < MaxFaults
            /\ link' = "down"
            /\ faults' = faults + 1
            /\ UNCHANGED <<wireVars, buffer, phase, stop, driverVars, seen, diskVars>>

-------------------------------------------------------------------------------
(* The event driver: iterations of poll_worker_event in their order.       *)

Polls == driver = "polling" /\ ~stop

\* What became of the submission whose completion the driver holds when it
\* returns: a queued one is answered with an error, a popped one is dropped.
AfterClose(r) == CASE r.at = "submitted" -> [r EXCEPT !.at = "failed"]
                   [] r.at \in {"queued", "owed", "carried"} -> [r EXCEPT !.at = "lost"]
                   [] OTHER -> r

\* A committed live update counts off one of those before the submission.
Observed(r) == IF r.at = "queued" /\ r.ahead > 0 THEN [r EXCEPT !.ahead = @ - 1] ELSE r

\* A mutated form of the next definition, for checking the properties.
WithNextBatch(left) == IF left = <<>> /\ rpc.at \in {"queued", "owed"}
                       THEN [rpc EXCEPT !.at = "carried"] ELSE rpc

\* The completion travels with the last event of the submission.
WithLast(left) == IF left = <<>> /\ rpc.at = "owed" THEN [rpc EXCEPT !.at = "carried"] ELSE rpc

EventsOf(c) == IF c.shows THEN [n \in 1..Content[c.env].events |-> Event(c.env, n)] ELSE <<>>

Sends(batch) == driver' = "sending" /\ out' = batch

StartCommit(e) == /\ commit' = [state |-> "asked", env |-> e, shows |-> Exposes(e)]
                  /\ cursor' = Advanced(e)

\* A mutated form of the next definition, for checking the properties.
DurableWhenAsked(c) == c.state \in {"asked", "done"}

Durable(c) == c.state = "done"

ExposeNext == /\ Polls
              /\ commit = NoCommit
              /\ ready # <<>>
              /\ Sends(Head(ready))
              /\ ready' = Tail(ready)
              /\ rpc' = WithLast(Tail(ready))
              /\ UNCHANGED <<wireVars, link, buffer, phase, stop, cursor, deferred, commit,
                             channel, seen, diskVars, faults>>

Committed == /\ Polls
             /\ commit # NoCommit
             /\ Durable(commit)
             /\ LET all == ready \o EventsOf(commit)
                    left == IF all = <<>> THEN <<>> ELSE Tail(all)
                IN /\ Sends(IF all = <<>> THEN Nothing ELSE Head(all))
                   /\ ready' = left
                   /\ rpc' = WithLast(left)
             /\ commit' = NoCommit
             /\ UNCHANGED <<wireVars, link, buffer, phase, stop, cursor, deferred, channel,
                            seen, diskVars, faults>>

CommitRefused == /\ Polls
                 /\ commit.state = "failed"
                 /\ commit' = NoCommit
                 /\ IF rpc.at = "owed"
                    THEN /\ rpc' = [rpc EXCEPT !.at = "failed"]
                         /\ driver' = "parked"
                         /\ UNCHANGED out
                    ELSE Sends(Failure) /\ UNCHANGED rpc
                 /\ UNCHANGED <<wireVars, link, buffer, phase, stop, cursor, deferred, ready,
                                channel, seen, diskVars, faults>>

RetryDeferred == /\ Polls
                 /\ commit = NoCommit /\ ready = <<>>
                 /\ Unblocked
                 /\ StartCommit(Head(deferred))
                 /\ deferred' = Tail(deferred)
                 /\ rpc' = Observed(rpc)
                 /\ UNCHANGED <<wireVars, link, buffer, phase, stop, driver, out, ready,
                                channel, seen, diskVars, faults>>

\* A mutated form of the next definition, for checking the properties.
PrecedingDeferred == Len(deferred)

Preceding == Len(buffer) + Len(deferred)

PopSubmission == /\ Settled
                 /\ rpc.at = "submitted"
                 /\ rpc' = [rpc EXCEPT !.at = "queued", !.ahead = Preceding,
                                       !.prefix = Elements(buffer) \union Elements(deferred)]
                 /\ UNCHANGED <<wireVars, link, buffer, phase, stop, driver, out, cursor,
                                deferred, commit, ready, channel, seen, diskVars, faults>>

CommitSubmission ==
    /\ Settled
    /\ BarrierReached
    /\ IF Verdict(rpc.env) = "apply"
       THEN /\ StartCommit(rpc.env)
            /\ rpc' = [rpc EXCEPT !.at = "owed"]
            /\ UNCHANGED driver
       ELSE /\ rpc' = [rpc EXCEPT !.at = "failed"]
            /\ driver' = "parked"
            /\ UNCHANGED <<cursor, commit>>
    /\ UNCHANGED <<wireVars, link, buffer, phase, stop, out, deferred, ready, channel, seen,
                   diskVars, faults>>

TakeLive == /\ ReadsLive
            /\ link = "up"
            /\ buffer # <<>>
            /\ buffer' = Tail(buffer)
            /\ LET e == Head(buffer)
               IN CASE Verdict(e) = "gap" ->
                         Sends(Failure) /\ UNCHANGED <<cursor, deferred, commit, rpc>>
                    [] Verdict(e) = "defer" ->
                         /\ deferred' = Append(deferred, e)
                         /\ UNCHANGED <<driver, out, cursor, commit, rpc>>
                    [] OTHER ->
                         /\ StartCommit(e)
                         /\ rpc' = Observed(rpc)
                         /\ UNCHANGED <<driver, out, deferred>>
            /\ UNCHANGED <<wireVars, link, phase, stop, ready, channel, seen, diskVars, faults>>

\* LiveUpdates polls the connection driver before the buffer it fills.
StreamEnds == /\ ReadsLive
              /\ link = "down"
              /\ Sends(Failure)
              /\ UNCHANGED <<wireVars, link, buffer, phase, stop, cursor, deferred, commit, ready,
                             rpc, channel, seen, diskVars, faults>>

\* A mutated form of the next definition, for checking the properties.
TimerForgotten == FALSE

TimerSet == deferred # <<>>

GapTimeout == /\ ReadsLive
              /\ link = "up" /\ buffer = <<>>
              /\ TimerSet
              /\ deferred' = Tail(deferred)
              /\ Sends(Failure)
              /\ UNCHANGED <<wireVars, link, buffer, phase, stop, cursor, commit, ready, rpc,
                             channel, seen, diskVars, faults>>

RoomInChannel == Len(channel) < Capacity

\* run_driver hands one batch over; a failure is the last one.
Deliver == /\ driver = "sending" /\ ~stop
           /\ RoomInChannel
           /\ channel' = Append(channel, out)
           /\ LET told == IF rpc.at = "carried" THEN [rpc EXCEPT !.at = "ok"] ELSE rpc
              IN IF out = Failure
                 THEN driver' = "closed" /\ rpc' = AfterClose(told)
                 ELSE driver' = "polling" /\ rpc' = told
           /\ out' = Nothing
           /\ UNCHANGED <<wireVars, link, buffer, phase, stop, cursor, deferred, commit, ready,
                          seen, diskVars, faults>>

DriverStops == /\ driver \in {"polling", "sending", "parked"}
               /\ stop
               /\ driver' = "closed"
               /\ out' = Nothing
               /\ rpc' = AfterClose(rpc)
               /\ UNCHANGED <<wireVars, link, buffer, phase, stop, cursor, deferred, commit,
                              ready, channel, seen, diskVars, faults>>

-------------------------------------------------------------------------------
(* The database worker (intuigram-store account/sync_write.rs).            *)

Touches(c, s) == \/ c.pts[s] # 0
                 \/ s = Account /\ (c.date # 0 \/ c.seq # 0)

\* The batch replaces the whole durable cursor of each scope it touches.
CommitSync == /\ commit.state = "asked"
              /\ LET c == Content[commit.env]
                 IN /\ disk' = [pts  |-> [s \in Scopes |-> IF Touches(c, s) THEN cursor.pts[s]
                                                           ELSE disk.pts[s]],
                                date |-> IF Touches(c, Account) THEN cursor.date ELSE disk.date,
                                seq  |-> IF Touches(c, Account) THEN cursor.seq ELSE disk.seq]
                    /\ baseline' = [s \in Scopes |->
                                      IF disk.pts[s] = 0 /\ disk'.pts[s] # 0
                                      THEN disk'.pts[s] ELSE baseline[s]]
              /\ stored' = IF commit.shows THEN stored \union {commit.env} ELSE stored
              /\ commit' = [commit EXCEPT !.state = "done"]
              /\ UNCHANGED <<wireVars, link, buffer, phase, stop, driver, out, cursor, deferred,
                             ready, rpc, channel, seen, snapshot, faults>>

CommitFails == /\ commit.state = "asked" /\ faults < MaxFaults
               /\ commit' = [commit EXCEPT !.state = "failed"]
               /\ faults' = faults + 1
               /\ UNCHANGED <<wireVars, link, buffer, phase, stop, driver, out, cursor, deferred,
                              ready, rpc, channel, seen, diskVars>>

-------------------------------------------------------------------------------
(* The actor's handler of the coordinator's request, and the application.  *)

Submit == /\ rpc.at = "answered"
          /\ rpc' = [rpc EXCEPT !.at = IF driver = "closed" THEN "failed" ELSE "submitted"]
          /\ UNCHANGED <<wireVars, link, buffer, phase, stop, driver, out, cursor, deferred,
                         commit, ready, channel, seen, diskVars, faults>>

\* A failed submission reaches the application as an error of the coordinator
\* and ends the session.
HandlerReturns == /\ rpc.at \in {"ok", "failed"}
                  /\ rpc' = NoRpc
                  /\ phase' = IF rpc.at = "failed" THEN "leaving" ELSE phase
                  /\ UNCHANGED <<wireVars, link, buffer, stop, driver, out, cursor, deferred,
                                 commit, ready, channel, seen, diskVars, faults>>

Receive == /\ phase = "live"
           /\ channel # <<>>
           /\ channel' = Tail(channel)
           /\ seen' = IF Head(channel).kind = "event"
                      THEN Append(seen, <<Head(channel).env, Head(channel).nth>>) ELSE seen
           /\ phase' = IF Head(channel) = Failure THEN "leaving" ELSE phase
           /\ UNCHANGED <<wireVars, link, buffer, stop, driver, out, cursor, deferred, commit,
                          ready, rpc, diskVars, faults>>

\* The user quits, or another source of errors ends the session.  The loop
\* reads on until its lanes are empty; the coordinator's request is on none of
\* them, and from here on nobody reads the channel and the actor is to stop.
Leave == /\ phase = "live"
         /\ phase' = "leaving"
         /\ UNCHANGED <<wireVars, link, buffer, stop, driverVars, seen, diskVars, faults>>

\* pre_stop runs when no handler does.
PreStop == /\ phase = "leaving"
           /\ rpc = NoRpc
           /\ ~stop
           /\ stop' = TRUE
           /\ UNCHANGED <<wireVars, link, buffer, phase, driverVars, seen, diskVars, faults>>

\* The state of a session goes with its worker thread.
SessionGone == /\ phase' = "off"
               /\ link' = "down" /\ buffer' = <<>> /\ stop' = FALSE
               /\ driver' = "closed" /\ out' = Nothing
               /\ cursor' = disk
               /\ deferred' = <<>> /\ commit' = NoCommit /\ ready' = <<>>
               /\ rpc' = NoRpc /\ channel' = <<>>
               /\ UNCHANGED <<wireVars, seen, diskVars>>

\* The cluster is joined, and the database worker with it.
Joined == /\ phase = "leaving" /\ stop /\ driver = "closed"
          /\ commit.state # "asked"
          /\ SessionGone
          /\ UNCHANGED faults

Crash == /\ phase # "off" /\ faults < MaxFaults
         /\ SessionGone
         /\ faults' = faults + 1

-------------------------------------------------------------------------------
(* Opening a session: resume_account reads the account cursor, then the    *)
(* dialogs and the channel cursors in them, and commits both at once.      *)
(* Updates of the meantime stay buffered.                                  *)

AccountNow == [pts |-> [cursor.pts EXCEPT ![Account] = ServerPts(Account)],
               date |-> ServerDate, seq |-> ServerSeq]

Checkpoint == /\ phase = "off"
              /\ phase' = "asking"
              /\ link' = "up"
              /\ cursor' = AccountNow
              /\ UNCHANGED <<wireVars, buffer, stop, driver, out, deferred, commit, ready, rpc,
                             channel, seen, diskVars, faults>>

\* Channels that are no longer among the dialogs keep their cached cursor.
Bootstrapped(dialogs) ==
    [cursor EXCEPT !.pts = [s \in Scopes |-> IF s \in dialogs THEN ServerPts(s) ELSE @[s]]]

Bootstrap == \E dialogs \in SUBSET (Scopes \ {Account}) :
    /\ phase = "asking" /\ link = "up"
    /\ phase' = "live"
    /\ cursor' = Bootstrapped(dialogs)
    /\ disk' = cursor'
    /\ snapshot' = [s \in Scopes |-> IF s \in dialogs \union {Account} THEN issued
                                     ELSE snapshot[s]]
    /\ driver' = "polling"
    /\ UNCHANGED <<wireVars, link, buffer, stop, out, deferred, commit, ready, rpc, channel,
                   seen, stored, baseline, faults>>

BootstrapFails == /\ phase = "asking" /\ link = "down"
                  /\ SessionGone
                  /\ UNCHANGED faults

-------------------------------------------------------------------------------

DriverNext == \/ ExposeNext \/ Committed \/ CommitRefused \/ RetryDeferred
              \/ PopSubmission \/ CommitSubmission \/ TakeLive \/ StreamEnds
              \/ GapTimeout \/ Deliver \/ DriverStops

ActorNext == Submit \/ HandlerReturns \/ PreStop \/ Joined

OpenNext == Checkpoint \/ Bootstrap \/ BootstrapFails

DeliveryNext == \/ Issue \/ Answer \/ AnswerLost
                \/ \E e \in Envelopes : Arrive(e)
                \/ LinkDown \/ Crash \/ Leave
                \/ DriverNext
                \/ CommitSync \/ CommitFails
                \/ ActorNext \/ Receive \/ OpenNext

DeliverySpec == DeliveryInit /\ [][DeliveryNext]_deliveryVars

\* The worker's executor runs every ready task, and the database worker and
\* the application's loop take what is queued for them.
DeliveryFairness == /\ WF_deliveryVars(DriverNext)
                    /\ WF_deliveryVars(CommitSync)
                    /\ WF_deliveryVars(ActorNext)
                    /\ WF_deliveryVars(Receive)
                    /\ WF_deliveryVars(OpenNext)

FairDeliverySpec == DeliverySpec /\ DeliveryFairness

-------------------------------------------------------------------------------
(* Properties.                                                             *)

CursorType == [pts : [Scopes -> Nat], date : Nat, seq : Nat]

EventType == [kind : {"event"}, env : Envelopes, nth : Nat]

\* What the driver hands over.
Batches == {Nothing, Failure} \union EventType

CommitType == {NoCommit} \union
              [state : {"asked", "done", "failed"}, env : Envelopes, shows : BOOLEAN]

RpcType == {NoRpc} \union
           [at : {"answered", "submitted", "queued", "owed", "carried", "ok", "failed", "lost"},
            env : Envelopes, ahead : Nat, prefix : SUBSET Envelopes]

\* Type correctness, and when the driver holds a batch.
DeliveryTypeOK ==
    /\ world \in Worlds /\ issued \in 0..Len(History)
    /\ arrived \in [Envelopes -> 0..(MaxArrivals + 1)]
    /\ link \in {"up", "down"}
    /\ buffer \in Seq(Envelopes) /\ deferred \in Seq(Envelopes)
    /\ phase \in {"off", "asking", "live", "leaving"} /\ stop \in BOOLEAN
    /\ driver \in {"polling", "sending", "parked", "closed"}
    /\ (driver = "sending") => (commit = NoCommit)
    /\ out \in Batches
    /\ (out # Nothing) => (driver = "sending")
    /\ ready \in Seq(EventType)
    /\ channel \in Seq(Batches) /\ Len(channel) <= Capacity
    /\ cursor \in CursorType /\ disk \in CursorType
    /\ commit \in CommitType /\ rpc \in RpcType
    /\ seen \in Seq(Envelopes \X Nat)
    /\ stored \subseteq Envelopes
    /\ snapshot \in [Scopes -> Nat] /\ baseline \in [Scopes -> Nat]
    /\ faults \in 0..MaxFaults

HandedOver(e, n) == Event(e, n) \in Elements(channel) \/ <<e, n>> \in Elements(seen)

Exposed(e, n) == \/ out = Event(e, n)
                 \/ Event(e, n) \in Elements(ready)
                 \/ HandedOver(e, n)

\* No event leaves the committer before the records and cursors it comes with
\* are durable (UpdateCommit resolves to the events, sync/mod.rs:171-187).
DurableBeforeExposed ==
    \A e \in Envelopes : (\E n \in 1..Content[e].events : Exposed(e, n)) => e \in stored

\* The durable cursor of a scope never passes an envelope whose records are not
\* durable and which no bootstrap of the scope includes
\* (apply_cursor_delta, sync/cursor.rs:40-49; resume_account).
CursorBackedByRecords ==
    \A i \in 1..issued, s \in Scopes :
        /\ Content[History[i]].pts[s] > baseline[s]
        /\ Content[History[i]].pts[s] <= disk.pts[s]
        /\ Content[History[i]].count[s] > 0
        => History[i] \in stored \/ i <= snapshot[s]

Counted(e, s) == Content[e].count[s] > 0

\* An envelope that changes one scope.
Alone(e, s) == \A t \in Scopes \ {s} : Content[e].pts[t] = 0

\* The earlier of two changes has no later date or sequence number.
KeepsPace(e, f, s) == Content[e].pts[s] < Content[f].pts[s] =>
                        Content[e].date <= Content[f].date /\ Content[e].seq <= Content[f].seq

\* However updates are reordered and repeated, and however often the session is
\* reopened, the application sees the counted changes of a scope in the order
\* Telegram numbered them, and each of their events once
\* (Exposes; retry_deferred_update keeps the queue's order).  The account's own
\* cursor is read with its date and sequence number, so this holds of all its
\* changes; in a channel, of those whose dates and sequence numbers rise with
\* them.  An envelope of several scopes is shown again with the newest of them.
ChangesInOrderOnce ==
    \A i, j \in DOMAIN seen : \A s \in Scopes :
        LET f == seen[i][1]
            e == seen[j][1]
        IN /\ i < j /\ Counted(f, s) /\ Counted(e, s) /\ Alone(e, s)
           /\ (s = Account /\ Base[Account] # 0) \/ KeepsPace(e, f, s)
           => \/ Content[f].pts[s] < Content[e].pts[s]
              \/ f = e /\ seen[i][2] < seen[j][2]

\* A submission is acknowledged only when it is durable and the application's
\* channel holds every event of it (SubmissionCompletion travels with the last
\* batch, runtime/adapters.rs:158-179, driver.rs:107-110).
AcknowledgedWhenDelivered ==
    rpc.at = "ok" =>
        /\ \A s \in Scopes : disk.pts[s] >= Content[rpc.env].pts[s]
        /\ rpc.env \in stored =>
              \A n \in 1..Content[rpc.env].events : HandedOver(rpc.env, n)

\* Whatever was buffered or deferred when the submission was popped is durable
\* before the submission is committed (QueuedSubmission, adapters.rs:199-238).
BarrierKeepsPrefix ==
    rpc.at \in {"owed", "carried", "ok"} =>
        \A e \in rpc.prefix, s \in Scopes : disk.pts[s] >= Content[e].pts[s]

\* While the session lives, everything buffered or deferred is dealt with: it
\* becomes durable, or the gap ends the session (poll_gap_timeout).
LiveWorkDone ==
    (phase = "live" /\ (buffer # <<>> \/ deferred # <<>>))
        ~> (phase # "live" \/ (buffer = <<>> /\ deferred = <<>>))

\* Claimed by the test closing_the_driver_wakes_pending_commit_waiters
\* (types/submission.rs:160): when the driver closes, a waiter is woken.
WaitersWoken == driver = "closed" => rpc.at # "lost"

PrefixDurable == \A e \in rpc.prefix, s \in Scopes : disk.pts[s] >= Content[e].pts[s]

\* Claimed by docs/adr/0005: once the updates before a submission are durable,
\* no later update is taken before the submission is committed.
BarrierNotExtended ==
    [][TakeLive => \/ rpc.at # "queued"
                   \/ ~PrefixDurable
                   \/ Head(buffer) \in rpc.prefix]_deliveryVars

\* Claimed by docs/adr/0001: updates are applied continuously, so the events of
\* an envelope are dropped only when they are durable already or a bootstrap
\* includes them.
FirstDeliveryApplied ==
    commit.state = "asked" /\ ~commit.shows =>
        \/ commit.env \in stored
        \/ \E i \in 1..issued : History[i] = commit.env /\ i <= snapshot[Account]

\* Claimed by docs/adr/0004: shutdown drains the update commit of an answered
\* request, then stops and joins the driver and the actor.
ShutdownCompletes == phase = "leaving" ~> phase = "off"

===============================================================================
