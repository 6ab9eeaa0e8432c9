---------------------------- MODULE OutboxExecution ----------------------------
(***************************************************************************)
(* How the application executes the durable Outbox                         *)
(* (crates/intuigram-app/src/actor_session/outbox, outbox/resolution.rs,   *)
(* actor_session/mod.rs, runtime/mod.rs).                                  *)
(*                                                                         *)
(* Four parties share the table of OutboxStore.  The coordinator claims    *)
(* the head, has the Telegram actor execute it and stores the outcome.     *)
(* The ordered local lane of the runtime admits items and carries out the  *)
(* user's decisions, one effect at a time.  The account session goes down  *)
(* and is reopened.  The user sees "view" and may act on what it shows.    *)
(* The coordinator and the lane are futures polled by one task: each await *)
(* is a point where the other one may run.  The lane's future shares the   *)
(* backend's FuturesUnordered with every other effect and one completion   *)
(* is taken per poll, so the coordinator may run several steps while the   *)
(* reply the lane awaits is ready.                                         *)
(*                                                                         *)
(* The database worker executes commands in the order they are issued, so  *)
(* a command takes effect here when it is issued and its reply is observed *)
(* by a later step of the same party.  A crash between the two is a crash  *)
(* after the command; one before the worker reaches it is a crash before.  *)
(*                                                                         *)
(* Telegram is external.  A request on the wire lands once, later or       *)
(* never; a landed part of a send is recognised by its random identity.    *)
(***************************************************************************)
EXTENDS OutboxStore

CONSTANTS Admitted,    \* the operations the user admits
          SendParts,   \* messages one send consists of (one per attachment)
          Delays,      \* delays Telegram may ask for, in seconds
          MaxTime,     \* bound on the clock
          MaxFaults,   \* bound on failures of Telegram, the link and the process
          MaxActs      \* bound on the user's decisions about items

ASSUME ExecutionAssumption ==
    /\ Admitted \subseteq Operations
    /\ SendParts \in Nat \ {0}
    /\ Delays \subseteq Nat
    /\ MaxTime \in Nat /\ MaxFaults \in Nat /\ MaxActs \in Nat
    /\ Times = 0..MaxTime

VARIABLES now,         \* the wall clock in whole seconds
          link,        \* the account session, as the runtime sees it
          coord,       \* the coordinator's pending future
          requested,   \* Coordinator::poll_requested
          lane,        \* the effect of the ordered local lane
          view,        \* the Outbox the user is shown
          wire,        \* requests Telegram has neither applied nor refused
          applied,     \* how often each part of each item took effect
          unread,      \* applied mutations whose message could not be read for want of room
          tries,       \* how often each item was claimed
          notBefore,   \* the earliest retry Telegram allowed for each item
          faults,
          acts

sessionVars == <<link, coord, requested, lane, view>>
remoteVars  == <<wire, applied, unread, tries, notBefore>>
boundVars   == <<faults, acts>>
execVars    == <<outbox, nextId, now, link, coord, requested, lane, view,
                 wire, applied, unread, tries, notBefore, faults, acts>>

Parts == 1..SendParts

PartsOf(operation) == IF operation = "send" THEN SendParts ELSE 1

\* What outbox_view shows of a row.
ViewRow == [state : States, operation : Operations]

ASSUME ViewAssumption == NoRow \notin ViewRow

Shown(row) == IF row = NoRow THEN NoRow
              ELSE [state |-> row.state, operation |-> row.operation]

AnswerKinds == {"none", "success", "flood", "capacity", "lost", "refused", "corrupt"}

NoAnswer == [kind |-> "none", delay |-> 0]

Idle == [pc |-> "idle", item |-> 0, operation |-> "send", since |-> 0, part |-> 0,
         answer |-> NoAnswer, seen |-> NoRow]

Free == [pc |-> "free", item |-> 0, action |-> "none", seen |-> NoRow]

LaneAtRest == lane.pc \in {"free", "asked"}

ExecInit == /\ StoreInit
            /\ now = 0
            /\ link = "up"
            /\ coord = Idle
            /\ requested = TRUE
            /\ lane = Free
            /\ view = [i \in Ids |-> NoRow]
            /\ wire = {}
            /\ applied = [i \in Ids |-> [p \in Parts |-> 0]]
            /\ unread = {}
            /\ tries = [i \in Ids |-> 0]
            /\ notBefore = [i \in Ids |-> 0]
            /\ faults = 0
            /\ acts = 0

-------------------------------------------------------------------------------
(* The coordinator, polled while the session is up.                        *)

Polled(pc) == link = "up" /\ coord.pc = pc

\* step::claim.  The application admits with OutboxExpiry::Never only, so the
\* sweep before the claim finds nothing.
CoordClaim ==
    /\ Polled("idle") /\ requested
    /\ \/ ClaimIdle(now) /\ coord' = Idle
       \/ \E i \in Ids : /\ ClaimWaiting(i, now)
                         /\ coord' = [Idle EXCEPT !.pc = "sleeping",
                                                  !.since = outbox[i].available]
       \/ \E i \in Ids : /\ ClaimHead(i, now)
                         /\ coord' = [Idle EXCEPT !.pc = "claimed", !.item = i,
                                                  !.operation = outbox[i].operation]
    /\ requested' = FALSE
    /\ UNCHANGED <<now, link, lane, view, boundVars, remoteVars>>

\* A wake-up while the coordinator sleeps sets poll_requested and no more.
CoordWakes == /\ Polled("sleeping") /\ now >= coord.since
              /\ coord' = Idle
              /\ requested' = TRUE
              /\ UNCHANGED <<storeVars, now, link, lane, view, boundVars, remoteVars>>

\* start_execution reads the clock once, for the whole attempt.
CoordStart ==
    /\ Polled("claimed")
    /\ coord' = [coord EXCEPT !.pc = "calling", !.since = now, !.part = 1]
    /\ view' = [view EXCEPT ![coord.item] = [state |-> "in_flight", operation |-> coord.operation]]
    /\ tries' = [tries EXCEPT ![coord.item] = @ + 1]
    /\ UNCHANGED <<storeVars, now, link, requested, lane, boundVars, wire, applied, unread, notBefore>>

\* step::complete issues complete_outbox.
CoordComplete == /\ Polled("answered") /\ coord.answer.kind = "success"
                 /\ Complete(coord.item)
                 /\ coord' = [coord EXCEPT !.pc = "completing"]
                 /\ UNCHANGED <<now, link, requested, lane, view, boundVars, remoteVars>>

CoordRemoved == /\ Polled("completing")
                /\ view' = [view EXCEPT ![coord.item] = NoRow]
                /\ coord' = Idle
                /\ requested' = TRUE
                /\ UNCHANGED <<storeVars, now, link, lane, boundVars, remoteVars>>

\* step::failed first reads the row back.
CoordInspect ==
    /\ Polled("answered") /\ coord.answer.kind # "success"
    /\ coord' = [coord EXCEPT !.pc = "inspected", !.seen = Shown(outbox[coord.item])]
    /\ UNCHANGED <<storeVars, now, link, requested, lane, view, boundVars, remoteVars>>

\* policy::decide
DecideAlike(operation, state, answer) ==
    IF state = "cancel_requested"
    THEN IF answer = "lost" THEN "outcome_unknown" ELSE "cancelled"
    ELSE IF answer \in {"flood", "capacity", "lost"} THEN "deferred" ELSE "failed"

Decide(operation, state, answer) ==
    IF state = "cancel_requested"
    THEN IF answer = "lost" THEN "outcome_unknown" ELSE "cancelled"
    ELSE CASE answer = "corrupt" -> "failed"
           [] answer \in {"flood", "capacity"} -> "deferred"
           [] answer = "lost" ->
                  IF operation = "mutation" THEN "outcome_unknown" ELSE "deferred"
           [] answer = "refused" -> IF operation = "mutation" THEN "conflict" ELSE "failed"

\* retry_at: at least one second after the clock reading of the attempt.
RetryAt(since, answer) ==
    IF answer.kind = "flood" /\ answer.delay > 1 THEN since + answer.delay ELSE since + 1

Decision == Decide(coord.seen.operation, coord.seen.state, coord.answer.kind)

StoreOutcomeBlindly(i, target) ==
    /\ target \in HeldStates \cup {"deferred"}
    /\ outbox' = [outbox EXCEPT ![i] = Moved(@, target,
                      IF target = "deferred" THEN RetryAt(coord.since, coord.answer) ELSE NoTime)]
    /\ UNCHANGED nextId

StoreOutcome(i, target) ==
    \/ target = "deferred" /\ Defer(i, RetryAt(coord.since, coord.answer))
    \/ target = "failed" /\ Fail(i)
    \/ target = "conflict" /\ Conflict(i)
    \/ target = "outcome_unknown" /\ MarkOutcomeUnknown(i)
    \/ target = "cancelled" /\ ConfirmUnsent(i)

CoordDecide == /\ Polled("inspected")
               /\ StoreOutcome(coord.item, Decision)
               /\ coord' = [coord EXCEPT !.pc = "stored"]
               /\ UNCHANGED <<now, link, requested, lane, view, boundVars, remoteVars>>

\* A row the user changed since it was read back refuses the decision with
\* InvalidTransition: not a connection failure, so the application quits.
CoordRefused == /\ Polled("inspected")
                /\ Decision \in {"deferred", "failed", "conflict"}
                /\ ~InState(outbox, coord.item, {"in_flight"})
                /\ link' = "stopped"
                /\ lane' = IF lane.pc = "asked" THEN Free ELSE lane
                /\ coord' = Idle
                /\ UNCHANGED <<storeVars, now, requested, view, boundVars, remoteVars>>

CoordReload ==
    /\ Polled("stored")
    /\ coord' = [coord EXCEPT !.pc = "reporting", !.seen = Shown(outbox[coord.item])]
    /\ UNCHANGED <<storeVars, now, link, requested, lane, view, boundVars, remoteVars>>

\* A lost connection is raised by the poll after the one that reports the item.
CoordReport ==
    /\ Polled("reporting")
    /\ view' = [view EXCEPT ![coord.item] = coord.seen]
    /\ coord' = IF coord.answer.kind = "lost" THEN [Idle EXCEPT !.pc = "raising"] ELSE Idle
    /\ requested' = TRUE
    /\ UNCHANGED <<storeVars, now, link, lane, boundVars, remoteVars>>

CoordRaises == /\ Polled("raising")
               /\ link' = "closing"
               /\ UNCHANGED <<storeVars, now, coord, requested, lane, view,
                              boundVars, remoteVars>>

-------------------------------------------------------------------------------
(* The Telegram actor executes the claimed item part by part, and Telegram *)
(* answers.  Nothing interrupts an execution but the end of the session.   *)

Fault == faults < MaxFaults /\ faults' = faults + 1 /\ UNCHANGED acts

\* The bound on the clock also bounds the retry times that are stored.
Room(delay) == coord.since + delay <= MaxTime /\ now + delay <= MaxTime

Request == [item |-> coord.item, part |-> coord.part, attempt |-> tries[coord.item],
            once |-> coord.operation # "mutation"]

Calling(pc) == link = "up" /\ coord.pc = pc

Answer(kind, delay) ==
    coord' = [coord EXCEPT !.pc = "answered", !.answer = [kind |-> kind, delay |-> delay]]

SendPart == /\ Calling("calling")
            /\ wire' = wire \cup {Request}
            /\ coord' = [coord EXCEPT !.pc = "sent"]
            /\ UNCHANGED <<storeVars, now, link, requested, lane, view, applied, unread, tries,
                           notBefore, boundVars>>

\* A create or send repeated with the identity of one that landed has no effect.
Lands(request) ==
    /\ request \in wire
    /\ wire' = wire \ {request}
    /\ applied' = [applied EXCEPT ![request.item][request.part] =
                       IF request.once THEN 1 ELSE @ + 1]
    /\ UNCHANGED <<storeVars, now, sessionVars, unread, tries, notBefore, boundVars>>

AcknowledgeFirst ==
    /\ Calling("sent") /\ Request \notin wire
    /\ Answer("success", 0)
    /\ UNCHANGED <<storeVars, now, link, requested, lane, view, boundVars, remoteVars>>

\* Telegram acknowledges a part that landed: the next part, or success.  After a
\* mutation the actor may read its message again (a vote, a to-do item) or hand
\* Telegram's answer to the event driver (a pin); which one is left open.
Acknowledge ==
    /\ Calling("sent") /\ Request \notin wire
    /\ \/ /\ coord.part < PartsOf(coord.operation)
          /\ coord' = [coord EXCEPT !.pc = "calling", !.part = @ + 1]
       \/ /\ coord.part >= PartsOf(coord.operation)
          /\ Answer("success", 0)
       \/ /\ coord.operation = "mutation"
          /\ \E next \in {"reading", "submitting"} : coord' = [coord EXCEPT !.pc = next]
    /\ UNCHANGED <<storeVars, now, link, requested, lane, view, boundVars, remoteVars>>

ReadAgain == /\ Calling("reading")
             /\ Answer("success", 0)
             /\ UNCHANGED <<storeVars, now, link, requested, lane, view, boundVars, remoteVars>>

\* The driver takes the submission, then commits and acknowledges it; it may do
\* so still while the session ends.
PopSubmission ==
    /\ coord.pc = "submitting"
    /\ coord' = [coord EXCEPT !.pc = "popped"]
    /\ UNCHANGED <<storeVars, now, link, requested, lane, view, boundVars, remoteVars>>

CommitSubmission ==
    /\ coord.pc = "popped"
    /\ Answer("success", 0)
    /\ UNCHANGED <<storeVars, now, link, requested, lane, view, boundVars, remoteVars>>

\* An RPC error is a definite refusal of the part, with or without a delay.
Refuse == /\ Calling("sent") /\ Request \in wire /\ Fault
          /\ wire' = wire \ {Request}
          /\ \/ Answer("refused", 0) /\ UNCHANGED notBefore
             \/ \E d \in Delays : /\ Room(d) /\ Room(1)
                                  /\ Answer("flood", d)
                                  /\ notBefore' = [notBefore EXCEPT ![coord.item] = now + d]
          /\ UNCHANGED <<storeVars, now, link, requested, lane, view, applied, unread, tries>>

\* The connection fails while the actor calls Telegram: what is on the wire may
\* yet land.
Lose == /\ link = "up" /\ coord.pc \in {"calling", "sent", "reading"}
        /\ Room(1) /\ Fault
        /\ Answer("lost", 0)
        /\ UNCHANGED <<storeVars, now, link, requested, lane, view, remoteVars>>

\* The part never leaves: the invocation queue is full, what it needs of Telegram
\* is refused, or the stored command is corrupt.
Withhold == /\ Calling("calling") /\ Fault
            /\ \/ Room(1) /\ Answer("capacity", 0)
               \/ Answer("refused", 0)
               \/ Answer("corrupt", 0)
            /\ UNCHANGED <<storeVars, now, link, requested, lane, view, remoteVars>>

\* The part landed, but its answer cannot be decoded, or the message read again
\* afterwards is refused or is not what it was: an error like a refusal.
Misread == /\ link = "up" /\ coord.pc \in {"sent", "reading"}
           /\ Request \notin wire /\ Fault
           /\ Answer("refused", 0)
           /\ UNCHANGED <<storeVars, now, link, requested, lane, view, remoteVars>>

\* The mutation landed, and the invocation queue has no room for the request that
\* would read its message again: an error like that of a mutation never sent.
NotRead == /\ Calling("reading") /\ Room(1) /\ Fault
           /\ Answer("capacity", 0)
           /\ unread' = unread \cup {coord.item}
           /\ UNCHANGED <<storeVars, now, link, requested, lane, view, wire, applied, tries,
                          notBefore>>

\* The driver ends before it takes the submission: TelegramActorCancelled, which
\* is not a connection failure, so the application quits if the coordinator is
\* polled before the driver's own failure is.
SubmissionFails ==
    /\ Calling("submitting") /\ Fault
    /\ link' = "stopped"
    /\ lane' = IF lane.pc = "asked" THEN Free ELSE lane
    /\ coord' = Idle
    /\ UNCHANGED <<storeVars, now, requested, view, remoteVars>>

-------------------------------------------------------------------------------
(* The user and the ordered local lane.                                    *)

\* App::outbox_message_actions offers actions on the Message an item sends;
\* only a send has one (local_message_id).
Offered(item) ==
    IF item = NoRow \/ item.operation # "send" THEN {}
    ELSE CASE item.state \in {"ready", "in_flight", "deferred"} -> {"cancel"}
           [] item.state = "cancel_requested" -> {}
           [] item.state = "failed" -> {"retry", "dismiss"}
           [] item.state \in {"expired", "cancelled"} -> {"dismiss"}
           [] item.state = "conflict" -> {"resolve_conflict", "dismiss"}
           [] item.state = "outcome_unknown" -> {"resolve_unknown", "dismiss"}

Interactive == link \in {"up", "closing", "down"} /\ lane.pc = "free"

\* An effect is queued while the link is down and started when it is up.
AskAction(i) == /\ Interactive
                /\ acts < MaxActs /\ acts' = acts + 1
                /\ \E action \in Offered(view[i]) :
                       lane' = [Free EXCEPT !.pc = "asked", !.item = i, !.action = action]
                /\ UNCHANGED <<storeVars, now, link, coord, requested, view, faults,
                               remoteVars>>

AskSend(operation) == /\ Interactive /\ nextId \in Ids
                      /\ lane' = [Free EXCEPT !.pc = "asked", !.action = operation]
                      /\ UNCHANGED <<storeVars, now, link, coord, requested, view,
                                     boundVars, remoteVars>>

\* ActorSession::admit_outbox
LaneAdmit == /\ link = "up" /\ lane.pc = "asked" /\ lane.action \in Operations
             /\ Admit(lane.action, now, NoTime)
             /\ lane' = [lane EXCEPT !.pc = "admitted", !.item = nextId]
             /\ UNCHANGED <<now, link, coord, requested, view, boundVars, remoteVars>>

\* resolution::execute looks the item up, acts on it and reads it back.
LaneLook == /\ link = "up" /\ lane.pc = "asked" /\ lane.action \notin Operations
            /\ IF outbox[lane.item] = NoRow
               THEN lane' = Free /\ requested' = TRUE
               ELSE lane' = [lane EXCEPT !.pc = "looked"] /\ UNCHANGED requested
            /\ UNCHANGED <<storeVars, now, link, coord, view, boundVars, remoteVars>>

Act(i, action) == \/ action = "cancel" /\ Cancel(i)
                  \/ action = "retry" /\ Retry(i)
                  \/ action = "resolve_conflict" /\ ResolveConflict(i)
                  \/ action = "resolve_unknown" /\ ResolveOutcomeUnknown(i)
                  \/ action = "dismiss" /\ Dismiss(i)

LaneAct == /\ lane.pc = "looked"
           /\ Act(lane.item, lane.action)
           /\ lane' = [lane EXCEPT !.pc = IF lane.action = "dismiss" THEN "reporting" ELSE "acted"]
           /\ UNCHANGED <<now, link, coord, requested, view, boundVars, remoteVars>>

\* The row as each action requires it: any other answers with an error.
Actionable(i, action) ==
    InState(outbox, i, CASE action = "cancel" -> {"ready", "deferred", "in_flight"}
                         [] action = "retry" -> {"failed"}
                         [] action = "resolve_conflict" -> {"conflict"}
                         [] action = "resolve_unknown" -> {"outcome_unknown"}
                         [] action = "dismiss" -> HeldStates)

LaneRefused == /\ lane.pc = "looked" /\ ~Actionable(lane.item, lane.action)
               /\ lane' = [lane EXCEPT !.pc = "refused"]
               /\ UNCHANGED <<storeVars, now, link, coord, requested, view, boundVars, remoteVars>>

\* A refused action on an item that still exists is an error of the database.
LaneReload ==
    /\ lane.pc \in {"admitted", "acted", "refused"}
    /\ lane.pc = "admitted" => outbox[lane.item] # NoRow
    /\ lane' = [lane EXCEPT !.pc = IF lane.pc = "refused" /\ outbox[lane.item] # NoRow
                                   THEN "failing" ELSE "reporting",
                            !.seen = Shown(outbox[lane.item])]
    /\ UNCHANGED <<storeVars, now, link, coord, requested, view, boundVars, remoteVars>>

\* admit_outbox expects the row it admitted to be among those it loads: if the
\* coordinator has executed and removed it by then, the process panics.
LanePanics == /\ lane.pc = "admitted" /\ outbox[lane.item] = NoRow
              /\ link' = "off" /\ coord' = Idle /\ lane' = Free
              /\ view' = [i \in Ids |-> NoRow]
              /\ UNCHANGED <<storeVars, now, requested, boundVars, remoteVars>>

LaneReportAsleep ==
    /\ lane.pc = "reporting"
    /\ view' = IF link = "stopped" THEN view ELSE [view EXCEPT ![lane.item] = lane.seen]
    /\ lane' = Free
    /\ UNCHANGED <<storeVars, now, link, coord, requested, boundVars, remoteVars>>

\* The completed effect wakes the coordinator and reports the item.
LaneReport ==
    /\ lane.pc = "reporting"
    /\ view' = IF link = "stopped" THEN view ELSE [view EXCEPT ![lane.item] = lane.seen]
    /\ lane' = Free
    /\ requested' = TRUE
    /\ UNCHANGED <<storeVars, now, link, coord, boundVars, remoteVars>>

\* Not a connection failure: the application quits.
LaneFails == /\ lane.pc = "failing"
             /\ lane' = Free
             /\ link' = "stopped"
             /\ UNCHANGED <<storeVars, now, coord, requested, view, boundVars, remoteVars>>

-------------------------------------------------------------------------------
(* The session and the process.                                            *)

\* The adapter reports that the connection failed: what is active is drained.
Disconnect == /\ link = "up" /\ Fault
              /\ link' = "closing"
              /\ UNCHANGED <<storeVars, now, coord, requested, lane, view, remoteVars>>

\* What ends the session asks the actor for it: behind the handler that waits,
\* whatever is cancelled, for the driver to acknowledge the submission it took.
ActorAnswers == coord.pc # "popped"

\* run_application_state returns once no effect is active: the coordinator and
\* whatever the actor was executing are dropped with the session.
CloseSession == /\ link = "closing" /\ LaneAtRest /\ ActorAnswers
                /\ link' = "down"
                /\ coord' = Idle
                /\ UNCHANGED <<storeVars, now, requested, lane, view, boundVars, remoteVars>>

ReopenAsLeft == /\ link = "down"
                /\ UNCHANGED storeVars
                /\ link' = "up" /\ requested' = TRUE
                /\ view' = [i \in Ids |-> NoRow]
                /\ UNCHANGED <<now, coord, lane, boundVars, remoteVars>>

\* resume_account opens the database again, which recovers it.  The bootstrap
\* that replaces what is shown comes from Telegram and carries no Outbox.
Reopen == /\ link = "down"
          /\ Recover
          /\ link' = "up" /\ requested' = TRUE
          /\ view' = [i \in Ids |-> NoRow]
          /\ UNCHANGED <<now, coord, lane, boundVars, remoteVars>>

\* A process that starts shows the cached account, the Outbox included.
Launch == /\ link = "off"
          /\ Recover
          /\ link' = "down"
          /\ view' = [i \in Ids |-> Shown(outbox'[i])]
          /\ UNCHANGED <<now, coord, requested, lane, boundVars, remoteVars>>

\* An application that stopped drains its active effect before it exits.
Exit == /\ link = "stopped" /\ LaneAtRest /\ ActorAnswers
        /\ link' = "off"
        /\ coord' = Idle
        /\ view' = [i \in Ids |-> NoRow]
        /\ UNCHANGED <<storeVars, now, requested, lane, boundVars, remoteVars>>

Crash == /\ Fault
         /\ link' = "off" /\ coord' = Idle /\ lane' = Free
         /\ view' = [i \in Ids |-> NoRow]
         /\ UNCHANGED <<storeVars, now, requested, remoteVars>>

Tick == /\ now < MaxTime
        /\ now' = now + 1
        /\ UNCHANGED <<storeVars, sessionVars, boundVars, remoteVars>>

CoordStep == \/ CoordClaim \/ CoordWakes \/ CoordStart \/ CoordComplete \/ CoordRemoved
             \/ CoordInspect \/ CoordDecide \/ CoordRefused \/ CoordReload \/ CoordReport
             \/ CoordRaises

Served == \/ SendPart \/ Acknowledge \/ ReadAgain \/ PopSubmission \/ CommitSubmission
          \/ \E request \in wire : Lands(request)

Failure == \/ Refuse \/ Lose \/ Withhold \/ Misread \/ NotRead \/ SubmissionFails
           \/ Disconnect \/ Crash

UserRequest == (\E i \in Ids : AskAction(i)) \/ (\E operation \in Admitted : AskSend(operation))

LaneStep == \/ LaneAdmit \/ LaneLook \/ LaneAct \/ LaneRefused \/ LaneReload
            \/ LanePanics \/ LaneReport \/ LaneFails

SessionStep == CloseSession \/ Reopen \/ Launch \/ Exit

ExecNext == CoordStep \/ Served \/ Failure \/ UserRequest \/ LaneStep \/ SessionStep \/ Tick

ExecSpec == ExecInit /\ [][ExecNext]_execVars

\* A handler that waits for the event driver: unless the session is up, nothing
\* makes the driver acknowledge it, and nothing else ends the wait.
HandlerWaits == coord.pc \in {"submitting", "popped"}

Delivered == link = "up" /\ (PopSubmission \/ CommitSubmission)

\* The runtime polls its futures, a request on a working connection is applied
\* and answered, the driver of a live session commits what it is handed, a session
\* whose actor answers is ended and reopened, and time passes.
ExecFairness == /\ WF_execVars(CoordStep) /\ WF_execVars(LaneStep)
                /\ WF_execVars(SendPart) /\ WF_execVars(Acknowledge)
                /\ WF_execVars(ReadAgain) /\ WF_execVars(Delivered)
                /\ \A i \in Ids, p \in Parts : WF_execVars(\E r \in wire :
                        r.item = i /\ r.part = p /\ Lands(r))
                /\ WF_execVars(~HandlerWaits /\ SessionStep) /\ WF_execVars(Tick)

FairExecSpec == ExecSpec /\ ExecFairness

-------------------------------------------------------------------------------
CoordPcs == {"idle", "sleeping", "claimed", "calling", "sent", "reading", "submitting",
             "popped", "answered", "completing", "inspected", "stored", "reporting", "raising"}

LanePcs == {"free", "asked", "admitted", "looked", "acted", "refused", "reporting", "failing"}

Executing == {"claimed", "calling", "sent", "reading", "submitting", "popped", "answered",
              "inspected"}

CoordType == [pc : CoordPcs, item : Ids \cup {0}, operation : Operations, since : Nat,
              part : 0..SendParts, answer : [kind : AnswerKinds, delay : Nat],
              seen : ViewRow \cup {NoRow}]

LaneType == [pc : LanePcs, item : Ids \cup {0}, seen : ViewRow \cup {NoRow},
             action : Operations \cup {"none", "cancel", "retry", "resolve_conflict",
                                       "resolve_unknown", "dismiss"}]

ExecTypeOK ==
    /\ StoreTypeOK
    /\ now \in 0..MaxTime
    /\ link \in {"up", "closing", "down", "stopped", "off"}
    /\ coord \in CoordType
    /\ requested \in BOOLEAN
    /\ lane \in LaneType
    /\ view \in [Ids -> ViewRow \cup {NoRow}]
    /\ wire \subseteq [item : Ids, part : Parts, attempt : Nat, once : BOOLEAN]
    /\ applied \in [Ids -> [Parts -> Nat]]
    /\ unread \subseteq Ids
    /\ tries \in [Ids -> Nat]
    /\ notBefore \in [Ids -> Nat]
    /\ faults \in 0..MaxFaults /\ acts \in 0..MaxActs

\* While the session is up the coordinator owns the active row and no row is
\* active without it: a claim never answers Busy and no item is left in flight
\* behind an idle coordinator, across outcomes, cancellations and reopenings.
CoordinatorOwnsActive ==
    link = "up" => IF coord.pc \in Executing THEN Active = {coord.item} ELSE Active = {}

\* A mutation takes effect at most once, however its attempts end: neither a retry
\* nor a reconnection nor a restart sends again what Telegram may have applied.  One
\* case is excepted and named: the request that reads the message of an applied
\* mutation again found no room (policy.rs:52 defers it like one that never left).
MutationAppliedOnce ==
    \A i \in Live(outbox) \ unread : outbox[i].operation = "mutation" => applied[i][1] <= 1

\* A mutation that will be sent, or that is stated to have failed, has not taken
\* effect and will not, but for the same exception.  A conflict states neither.
UnsentMutationsUnsent ==
    \A i \in Live(outbox) \ unread :
        /\ outbox[i].operation = "mutation"
        /\ outbox[i].state \in {"ready", "deferred", "failed"}
        => applied[i][1] = 0 /\ \A request \in wire : request.item # i

\* An item leaves the Outbox only when Telegram has applied every part of it, or
\* because the user dismissed an item that was set aside.
RemovedOnlyWhenApplied ==
    [][\A i \in Live(outbox) :
           outbox'[i] = NoRow => \/ outbox[i].state \in HeldStates
                                 \/ \A p \in 1..PartsOf(outbox[i].operation) :
                                        applied[i][p] >= 1]_execVars

\* A recorded cancellation is never undone by the outcome of the attempt or by
\* recovery: the item is acknowledged, cancelled or left to the user, not replayed.
CancellationNotReplayed ==
    [][\A i \in Ids : InState(outbox, i, {"cancel_requested"}) =>
           \/ outbox'[i] = NoRow
           \/ InState(outbox, i, {"cancel_requested", "cancelled", "outcome_unknown"})']_execVars

\* The expectation of admit_outbox ("a committed Outbox admission is returned by
\* the same database worker", actor_session/mod.rs:248): the coordinator has not
\* executed and removed the row in between.
AdmittedRowFound == lane.pc = "admitted" => lane.item \in Live(outbox)

\* Every row that waits or runs is eventually acknowledged, withdrawn or set aside
\* for the user, if failures and the user's decisions end; unless the session ends
\* while the handler waits for the driver, which neither may ever leave.
PendingSettles ==
    \A i \in Ids : InState(outbox, i, RunnableStates \cup ActiveStates)
                       ~> \/ ~InState(outbox, i, RunnableStates \cup ActiveStates)
                          \/ link # "up" /\ HandlerWaits

\* ADR 0009: a cancelled item is one that was not sent, and an ambiguous failure is
\* never stated to be unsent.
CancelledMeansUnsent ==
    \A i \in Live(outbox) : outbox[i].state = "cancelled" =>
        /\ \A p \in Parts : applied[i][p] = 0
        /\ \A request \in wire : request.item # i

\* RetryAfter: a refused request is not sent again before the delay Telegram asked
\* for has passed.
FloodWaitRespected ==
    [][\A request \in wire' \ wire : now >= notBefore[request.item]]_execVars

\* ADR 0009: cancelling an item that is active records a request; neither the item's
\* outcome nor the cancellation is an error that ends the application.
DecisionsNeverStopTheApp == link # "stopped"

AtRest == link = "up" /\ lane.pc = "free" /\ coord.pc \in {"idle", "sleeping"}

\* What is shown for an item is its current durable lifecycle whenever nothing is
\* under way: no item is shown after it left, none in a state it has left.
ShownIsCurrent == AtRest => \A i \in Ids : view[i] # NoRow => view[i] = Shown(outbox[i])

\* An item set aside for the user is shown whenever nothing is under way, whether
\* or not the connection was restored in between.
HeldWorkShown == AtRest => \A i \in Ids : InState(outbox, i, HeldStates) => view[i] # NoRow

\* Only a deferred head delays newer work: while the coordinator sleeps, the head
\* of the queue is an item deferred to a later time.
OnlyTheHeadDelays ==
    AtRest /\ coord.pc = "sleeping" /\ now < coord.since
        => \E i \in Ids : IsHead(outbox, i) /\ outbox[i].state = "deferred"

\* An item shown in a state that needs the user's resolution offers one.
HeldWorkResolvable ==
    \A i \in Ids : view[i] # NoRow /\ view[i].state \in {"conflict", "outcome_unknown"}
                       => Offered(view[i]) # {}
================================================================================
