----------------------------- MODULE SessionRuntime -----------------------------
(***************************************************************************)
(* The single-writer loop of an account session and what runs its effects  *)
(* (crates/intuigram-app/src/runtime/, cached_session.rs, actor_session/). *)
(*                                                                         *)
(* The reducer asks for effects.  The loop queues them, starts each when   *)
(* its lane is free, and takes completions.  Remote effects travel through *)
(* the mailbox of the Telegram actor, which handles one at a time and      *)
(* hands media to tasks.  The coordinator of the Outbox calls it through    *)
(* the same mailbox, and then the handler may wait for the event driver to *)
(* commit an update.  Navigation cancels the work it supersedes.  When     *)
(* the connection is lost the loop drains what is active and returns what  *)
(* is unfinished; the session is cleaned up and opened again with it.      *)
(*                                                                         *)
(* turn is the loop's position: it admits the effect of the last           *)
(* transition, starts what it can, and waits for a wake.                   *)
(***************************************************************************)
EXTENDS Naturals, Sequences, FiniteSets, Functions, SequencesExt

CONSTANTS Effects, NoEffect, Quit,
          Outbox,    \* the coordinator's call, ExecuteOutbox
          Kind,      \* navigation, viewport, lifecycle, reconnect, notice or plain
          Lane,      \* effect_route with effect_data_center
          Limit,     \* of each lane
          Remote,    \* the lanes the Telegram actor serves
          Transfers, \* the remote lanes it hands to the media dispatcher
          Serial,    \* the lanes whose effects keep their order
          Priority,
          Group,     \* effects that replace each other while they wait
          NoGroup,
          FollowUp,  \* what the reducer asks for when an effect is accepted
          Capacity,  \* EFFECT_CAPACITY, of what waits and runs
          MailboxCapacity,
          MaxAsked,  \* bound on the effects asked for
          MaxCalls,  \* bound on the coordinator's calls
          MaxFaults  \* bound on lost connections and errors

Lanes == DOMAIN Limit

ASSUME RuntimeAssumption ==
    /\ NoEffect \notin Effects /\ Quit \notin Effects /\ Outbox \notin Effects \cup {NoEffect}
    /\ Kind \in [Effects -> {"navigation", "viewport", "lifecycle", "reconnect", "notice", "plain"}]
    /\ Limit \in [Lanes -> Nat \ {0}]
    /\ Lane \in [Effects -> Lanes]
    /\ Transfers \subseteq Remote /\ Remote \subseteq Lanes
    /\ Serial \subseteq Lanes /\ \A l \in Serial : Limit[l] = 1
    /\ Priority \in [Effects -> Nat]
    /\ DOMAIN Group = Effects
    /\ FollowUp \in [Effects -> Effects \cup {NoEffect}]
    /\ Capacity \in Nat \ {0} /\ MailboxCapacity \in Nat
    /\ MaxAsked \in Nat /\ MaxCalls \in Nat /\ MaxFaults \in Nat

\* Navigations replace each other while they wait (runtime/types.rs:212-232); an
\* accepted effect asks for media only, which replace nothing (app/input.rs:370-374);
\* the effects of a serial lane are equally urgent (runtime/effect_route.rs:74-81).
ASSUME CoalescingAssumption ==
    /\ \A a, b \in Effects : Kind[a] = "navigation" /\ Kind[b] = "navigation"
                               => Group[a] # NoGroup /\ Group[a] = Group[b]
    /\ \A e \in Effects : FollowUp[e] \in Effects =>
           Kind[FollowUp[e]] \notin {"navigation", "reconnect"} /\ Group[FollowUp[e]] = NoGroup
    /\ \A a, b \in Effects : Lane[a] = Lane[b] /\ Lane[a] \in Serial => Priority[a] = Priority[b]

VARIABLES mode,       \* connecting, offline, running, cleanup, quit, lifecycle or failed
          turn,       \* admit, start or wait
          wish,       \* update.effect
          pending,    \* pending_effects
          active,     \* active_effects
          flagged,    \* effects whose EffectCancellation is set
          busy,       \* active effects per lane, as the loop counts them
          exit,       \* requested_exit
          error,      \* stopping_error is set
          down,       \* disconnected
          cancelling, \* the ActorCancellation of this session is set
          mail,       \* the mailbox of the Telegram actor
          handling,   \* the request its handler awaits
          delivering, \* the handler awaits the receipt of the update it submitted
          tasks,      \* the transfers of the media dispatcher
          answer,     \* what the backend future of an effect returned
          asked,      \* effects asked for so far
          calls,      \* of the coordinator so far
          faults

loopVars    == <<mode, turn, wish, pending, active, flagged, busy>>
stopVars    == <<exit, error, down, cancelling>>
actorVars   == <<mail, handling, delivering, tasks, answer>>
boundVars   == <<asked, calls, faults>>
runtimeVars == <<loopVars, stopVars, actorVars, boundVars>>

Ended == {"quit", "lifecycle", "failed"}

Held == active \cup Range(pending)

Outcomes == {"none", "ok", "ready", "cancelled", "lost", "error"}

\* The actor of a new session.
FreshActor == mail = <<>> /\ handling = NoEffect /\ tasks = {} /\ delivering = FALSE

RuntimeInit ==
    /\ mode = "connecting" /\ turn = "admit" /\ wish = NoEffect
    /\ pending = <<>> /\ active = {} /\ flagged = {}
    /\ busy = [l \in Lanes |-> 0]
    /\ exit = "none" /\ error = FALSE /\ down = FALSE /\ cancelling = FALSE
    /\ FreshActor
    /\ answer = [e \in Effects |-> "none"]
    /\ asked = {} /\ calls = 0 /\ faults = 0

Fault == faults < MaxFaults /\ faults' = faults + 1

-------------------------------------------------------------------------------
(* Admission (enqueue_effect).                                             *)

SameGroup(a, b) == Group[a] # NoGroup /\ Group[a] = Group[b]

\* What stays in the queue when e enters it.
Kept(queue, e) ==
    LET first[n \in 0..Len(queue)] ==
            IF n = 0 THEN <<>>
            ELSE IF SameGroup(queue[n], e) THEN first[n - 1]
            ELSE Append(first[n - 1], queue[n])
    IN  first[Len(queue)]

\* A notification that is already being shown.
Shown(running, e) == Kind[e] = "notice" /\ \E a \in running : SameGroup(a, e)

\* A mutated form of the next definition, for checking the properties.
FullByQueue(queue, running, e) == ~Shown(running, e) /\ Len(Kept(queue, e)) >= Capacity

Full(queue, running, e) == /\ ~Shown(running, e)
                           /\ Len(Kept(queue, e)) + Cardinality(running) >= Capacity

Queued(queue, running, e) == IF Shown(running, e) THEN queue ELSE Append(Kept(queue, e), e)

\* cancel_superseded_work.
Superseded(e) == IF e \in Effects /\ Kind[e] = "navigation"
                 THEN {a \in active : Kind[a] \in {"navigation", "viewport"}}
                 ELSE {}

\* The loop returns an error, or its caller does, and drops everything.
Abort == /\ mode' = "failed"
         /\ pending' = <<>> /\ active' = {} /\ wish' = NoEffect
         /\ UNCHANGED <<turn, flagged>>

\* prepare_effect_admission.
Admit ==
    /\ mode = "running" /\ turn = "admit"
    /\ \/ /\ wish \in Effects /\ exit = "none" /\ Full(pending, active, wish)
          /\ Abort
          /\ UNCHANGED <<busy, stopVars>>
       \/ /\ wish \in Effects /\ exit = "none" /\ ~Full(pending, active, wish)
          /\ pending' = Queued(pending, active, wish)
          /\ flagged' = flagged \cup Superseded(wish)
          /\ turn' = "start" /\ wish' = NoEffect
          /\ UNCHANGED <<mode, active, busy, stopVars>>
       \/ /\ wish = Quit /\ exit = "none"
          /\ exit' = "quit" /\ pending' = <<>> /\ cancelling' = TRUE
          /\ turn' = "start" /\ wish' = NoEffect
          /\ UNCHANGED <<mode, active, flagged, busy, error, down>>
       \/ /\ wish = NoEffect \/ exit # "none"
          /\ flagged' = flagged \cup Superseded(wish)
          /\ turn' = "start" /\ wish' = NoEffect
          /\ UNCHANGED <<mode, pending, active, busy, stopVars>>
    /\ UNCHANGED <<actorVars, boundVars>>

-------------------------------------------------------------------------------
(* Starting effects.                                                       *)

Startable(i) == busy[Lane[pending[i]]] < Limit[Lane[pending[i]]]

\* The first of the most urgent effects whose lane is free.
Chosen(i) == /\ i \in DOMAIN pending /\ Startable(i)
             /\ \A k \in DOMAIN pending : Startable(k) =>
                   \/ Priority[pending[i]] < Priority[pending[k]]
                   \/ Priority[pending[i]] = Priority[pending[k]] /\ i <= k

\* A mutated form of the next definition, for checking the properties.
StartsWhileDown == exit = "none" /\ Cardinality(active) < Capacity

Starts == exit = "none" /\ ~down /\ Cardinality(active) < Capacity

MayLeave == active = {} /\ (down \/ (pending = <<>> /\ exit # "none"))

\* A local future, a cached medium, or a message to the actor.  A full mailbox
\* refuses the message.
Execute(e) ==
    \/ /\ Lane[e] \notin Remote
       /\ answer' = [answer EXCEPT ![e] = "none"]
       /\ UNCHANGED mail
    \/ /\ Lane[e] \in Transfers
       /\ answer' = [answer EXCEPT ![e] = "ok"]
       /\ UNCHANGED mail
    \/ /\ Lane[e] \in Remote /\ Len(mail) < MailboxCapacity
       /\ mail' = Append(mail, e)
       /\ answer' = [answer EXCEPT ![e] = "none"]
    \/ /\ Lane[e] \in Remote /\ Len(mail) >= MailboxCapacity
       /\ answer' = [answer EXCEPT ![e] = "error"]
       /\ UNCHANGED mail

\* EffectAccepted: what the reducer asks for next is queued at once.
Accepted(e, rest) ==
    IF FollowUp[e] \in Effects \ asked
    THEN IF Full(rest, active \cup {e}, FollowUp[e])
         THEN Abort
         ELSE /\ pending' = Queued(rest, active \cup {e}, FollowUp[e])
              /\ UNCHANGED <<mode, turn, wish, flagged>>
    ELSE pending' = rest /\ UNCHANGED <<mode, turn, wish, flagged>>

StartNext ==
    /\ mode = "running" /\ turn = "start" /\ ~MayLeave /\ Starts
    /\ \E i \in DOMAIN pending :
          LET e == pending[i] IN
          /\ Chosen(i)
          /\ Execute(e)
          /\ Accepted(e, RemoveAt(pending, i))
          /\ asked' = asked \cup ({FollowUp[e]} \cap Effects)
          /\ \/ mode' = "failed" /\ UNCHANGED busy
             \/ /\ mode' = "running"
                /\ active' = active \cup {e}
                /\ busy' = [busy EXCEPT ![Lane[e]] = @ + 1]
    /\ UNCHANGED <<stopVars, handling, delivering, tasks, calls, faults>>

\* Nothing more can start: the loop waits for a wake.
Wait ==
    /\ mode = "running" /\ turn = "start" /\ ~MayLeave
    /\ ~(Starts /\ \E i \in DOMAIN pending : Chosen(i))
    /\ turn' = "wait"
    /\ UNCHANGED <<mode, wish, pending, active, flagged, busy, stopVars, actorVars, boundVars>>


-------------------------------------------------------------------------------
(* Wakes of the running loop.                                              *)

Waiting == mode = "running" /\ turn = "wait"

\* Reconnect is offered after a failed connection only.
Askable == {e \in Effects :
              IF Kind[e] = "reconnect"
              THEN e \notin Held /\ (mode = "offline" \/ (mode = "running" /\ down))
              ELSE e \notin asked /\ Cardinality(asked) < MaxAsked}

Asks(w) == /\ wish' = w /\ turn' = "admit"
           /\ asked' = asked \cup {e \in Effects : e = w /\ Kind[e] # "reconnect"}

\* The user, or an event of Telegram or of the coordinator, makes the reducer ask.
Interact ==
    /\ Waiting
    /\ \/ exit = "none" /\ \E w \in Askable \cup {Quit} : Asks(w)
       \/ ~down /\ \E w \in Askable : Kind[w] \in {"notice", "viewport"} /\ Asks(w)
    /\ UNCHANGED <<mode, pending, active, flagged, busy, stopVars, actorVars, calls, faults>>

\* A failed connection: what is active drains, the reducer is told.
LoseConnection == down' = TRUE /\ cancelling' = TRUE /\ UNCHANGED <<exit, error>>

\* Any other error: the application stops.
StopWithError == /\ exit' = "quit" /\ error' = TRUE /\ cancelling' = TRUE
                 /\ UNCHANGED down

\* The event driver or the coordinator reports an error.
SourceFails ==
    /\ Waiting /\ ~down /\ Fault
    /\ \/ LoseConnection /\ UNCHANGED pending
       \/ StopWithError /\ pending' = <<>>
    /\ turn' = "admit"
    /\ UNCHANGED <<mode, wish, active, flagged, busy, actorVars, asked, calls>>

\* The coordinator, polled by the loop, has claimed an item and calls the actor; a
\* mailbox without room for the call is an error of the coordinator.
CoordinatorCalls ==
    /\ Waiting /\ ~down /\ exit = "none"
    /\ Outbox \notin Range(mail) \cup {handling}
    /\ calls < MaxCalls /\ calls' = calls + 1
    /\ \/ /\ Len(mail) < MailboxCapacity
          /\ mail' = Append(mail, Outbox)
          /\ UNCHANGED <<turn, pending, stopVars>>
       \/ /\ Len(mail) >= MailboxCapacity
          /\ StopWithError /\ pending' = <<>> /\ turn' = "admit"
          /\ UNCHANGED mail
    /\ UNCHANGED <<mode, wish, active, flagged, busy, handling, delivering, tasks, answer,
                   asked, faults>>

\* PendingEffect::poll: a result wins over the cancellation of its effect.
Outcome(e) == IF e \in flagged /\ answer[e] \in {"none", "cancelled"} THEN "superseded"
              ELSE answer[e]

\* A mutated form of the next definition, for checking the properties.
ReturnedLast(e) == Append(pending, e)

Returned(e) == <<e>> \o pending

\* A mutated form of the next definition, for checking the properties.
FreesOnResult(e) == IF Outcome(e) = "superseded" THEN busy
                    ELSE [busy EXCEPT ![Lane[e]] = @ - 1]

\* decrement_lane.
Freed(e) == [busy EXCEPT ![Lane[e]] = @ - 1]

\* Effects that the session ends before the backend has answered for them.
Unfinished(e) == \/ down /\ Outcome(e) = "cancelled"
                 \/ exit = "none" /\ Outcome(e) = "lost"

Complete ==
    /\ Waiting
    /\ \E e \in active :
          /\ answer[e] # "none" \/ e \in flagged
          /\ active' = active \ {e}
          /\ busy' = Freed(e)
          /\ flagged' = IF Unfinished(e) THEN flagged ELSE flagged \ {e}
          /\ answer' = [answer EXCEPT ![e] = "none"]
          /\ \/ /\ Outcome(e) = "ready"
                /\ exit' = "lifecycle" /\ pending' = <<>>
                /\ UNCHANGED <<error, down, cancelling>>
             \/ /\ Outcome(e) \in {"ok", "superseded"}
                /\ UNCHANGED <<pending, stopVars>>
             \/ /\ Unfinished(e)
                /\ pending' = Returned(e)
                /\ IF Outcome(e) = "lost" THEN LoseConnection ELSE UNCHANGED stopVars
             \/ /\ Outcome(e) \in {"cancelled", "lost", "error"} /\ ~Unfinished(e)
                /\ IF exit # "none"
                   THEN /\ error' = (error \/ Outcome(e) = "error")
                        /\ UNCHANGED <<pending, exit, down, cancelling>>
                   ELSE StopWithError /\ pending' = <<>>
    /\ turn' = "admit"
    /\ UNCHANGED <<mode, wish, mail, handling, delivering, tasks, boundVars>>

-------------------------------------------------------------------------------
(* The Telegram actor.                                                     *)

\* A reply reaches the effect's future if the loop still holds it.
Reply(e, o) == answer' = IF e \in active THEN [answer EXCEPT ![e] = o] ELSE answer

\* One message at a time: what follows waits until the handler returns.
Serving == mode \in {"running", "cleanup"} /\ handling = NoEffect /\ mail # <<>>

IsTransfer(request) == request \in Effects /\ Lane[request] \in Transfers

Handle ==
    /\ Serving /\ ~IsTransfer(Head(mail))
    /\ mail' = Tail(mail)
    /\ handling' = Head(mail)
    /\ UNCHANGED <<loopVars, stopVars, delivering, tasks, answer, boundVars>>

\* A medium becomes a task of its own and the handler returns.
Dispatch ==
    /\ Serving /\ IsTransfer(Head(mail))
    /\ mail' = Tail(mail)
    /\ tasks' = tasks \cup {Head(mail)}
    /\ UNCHANGED <<loopVars, stopVars, handling, delivering, answer, boundVars>>

\* What a request can come to; a cancellation does not take a result back.
Results(e) == {"ok"} \cup {o \in {"ready"} : Kind[e] = "lifecycle"}
                     \cup {o \in {"cancelled"} : cancelling \/ e \in flagged}

\* Telegram's refusal of a medium is a result, a medium that cannot be stored is not.
Returns(e) == \/ \E o \in Results(e) : Reply(e, o) /\ UNCHANGED faults
              \/ \E o \in {"lost", "error"} : Reply(e, o) /\ Fault

\* Of an effect, or of the coordinator's call without an update: cancelled or not.
Finish ==
    /\ handling # NoEffect /\ ~delivering
    /\ \/ handling \in Effects /\ Returns(handling)
       \/ handling = Outbox /\ UNCHANGED <<answer, faults>>
    /\ handling' = NoEffect
    /\ UNCHANGED <<loopVars, stopVars, mail, delivering, tasks, asked, calls>>

\* Telegram's answer to the coordinator's call is an update: the handler awaits its
\* commit, and no cancellation ends that wait.
Submit ==
    /\ handling = Outbox /\ ~delivering
    /\ delivering' = TRUE
    /\ UNCHANGED <<loopVars, stopVars, mail, handling, tasks, answer, boundVars>>

\* The driver commits the update and the loop takes its events, or the driver closes
\* the queue the update is still in.
Receipt ==
    /\ delivering
    /\ delivering' = FALSE /\ handling' = NoEffect
    /\ UNCHANGED <<loopVars, stopVars, mail, tasks, answer, boundVars>>

Transferred ==
    /\ \E e \in tasks : tasks' = tasks \ {e} /\ Returns(e)
    /\ UNCHANGED <<loopVars, stopVars, mail, handling, delivering, asked, calls>>

\* The database worker or the operating system answers.
LocalAnswer ==
    /\ mode = "running"
    /\ \E e \in active : /\ Lane[e] \notin Remote /\ answer[e] = "none"
                        /\ \/ Reply(e, "ok") /\ UNCHANGED faults
                           \/ Reply(e, "error") /\ Fault
    /\ UNCHANGED <<loopVars, stopVars, mail, handling, delivering, tasks, asked, calls>>

-------------------------------------------------------------------------------
(* The end of a session, and the account between sessions.                 *)

Stop(m) == /\ mode' = m
           /\ turn' = "admit" /\ wish' = NoEffect /\ active' = {} /\ busy' = [l \in Lanes |-> 0]

\* backend.shutdown() joins the actor, whose handler ends first.
Leave ==
    /\ mode = "running" /\ turn = "start"
    /\ active = {} /\ pending = <<>> /\ exit # "none"
    /\ ~delivering
    /\ Stop(IF error THEN "failed" ELSE exit)
    /\ mail' = <<>> /\ handling' = NoEffect /\ tasks' = {}
    /\ UNCHANGED <<pending, flagged, stopVars, delivering, answer, boundVars>>

\* A mutated form of the next definition, for checking the properties.
NothingCarried == <<>>

Carried == pending

Disconnect ==
    /\ mode = "running" /\ turn = "start"
    /\ active = {} /\ down /\ ~(pending = <<>> /\ exit # "none")
    /\ Stop("cleanup")
    /\ pending' = Carried
    /\ exit' = "none" /\ error' = FALSE
    /\ UNCHANGED <<flagged, down, cancelling, actorVars, boundVars>>

\* What is typed while no session runs is admitted before anything else happens.
Types == /\ exit = "none" /\ wish = NoEffect
         /\ \E w \in Askable \cup {Quit} : Asks(w)
         /\ UNCHANGED <<mode, pending, active, flagged, busy, stopVars, actorVars, calls, faults>>

AdmitsLater(w) ==
    IF Full(pending, {}, w)
    THEN mode' = "failed" /\ pending' = <<>>
    ELSE pending' = Queued(pending, {}, w) /\ UNCHANGED mode

EndsAccount(w) == w = Quit \/ (w \in Effects /\ Kind[w] = "lifecycle")

EndFor(w) == IF w = Quit THEN "quit" ELSE "lifecycle"

Reconnects(w) == w \in Effects /\ Kind[w] = "reconnect"

TypeOffline == mode \in {"connecting", "offline"} /\ Types

\* run_cached_account: the attempt is cancelled and joined before the account ends.
AdmitOffline ==
    /\ mode \in {"connecting", "offline"} /\ wish # NoEffect
    /\ wish' = NoEffect
    /\ \/ /\ EndsAccount(wish)
          /\ mode' = EndFor(wish) /\ UNCHANGED pending
       \/ /\ Reconnects(wish)
          /\ mode' = "connecting" /\ UNCHANGED pending
       \/ /\ ~EndsAccount(wish) /\ ~Reconnects(wish)
          /\ AdmitsLater(wish)
    /\ UNCHANGED <<turn, active, flagged, busy, stopVars, actorVars, boundVars>>

TypeCleaning == mode = "cleanup" /\ Types

\* wait_for_reconnect_cleanup: the account ends once the session is cleaned up.
AdmitCleaning ==
    /\ mode = "cleanup" /\ wish # NoEffect
    /\ wish' = NoEffect
    /\ IF EndsAccount(wish)
       THEN exit' = EndFor(wish) /\ UNCHANGED <<mode, pending>>
       ELSE AdmitsLater(wish) /\ UNCHANGED exit
    /\ UNCHANGED <<turn, active, flagged, busy, error, down, cancelling, actorVars, boundVars>>

\* The retained state is taken behind the handler and what is left in the mailbox;
\* then the media tasks end and the actor is joined, or one of them fails.
Cleaned ==
    /\ mode = "cleanup" /\ wish = NoEffect
    /\ mail = <<>> /\ handling = NoEffect
    /\ \/ /\ FreshActor
          /\ mode' = IF exit # "none" THEN exit ELSE "connecting"
          /\ UNCHANGED <<tasks, pending, faults>>
       \/ /\ Fault
          /\ mode' = "failed" /\ pending' = <<>> /\ tasks' = {}
    /\ exit' = "none" /\ down' = FALSE /\ cancelling' = FALSE
    /\ UNCHANGED <<turn, wish, active, flagged, busy, error, mail, handling, delivering, answer,
                   asked, calls>>

Connected ==
    /\ mode = "connecting" /\ wish = NoEffect
    /\ mode' = "running" /\ turn' = "admit"
    /\ UNCHANGED <<wish, pending, active, flagged, busy, stopVars, actorVars, boundVars>>

ConnectFails ==
    /\ mode = "connecting" /\ wish = NoEffect /\ Fault
    /\ mode' = "offline"
    /\ UNCHANGED <<turn, wish, pending, active, flagged, busy, stopVars, actorVars, asked, calls>>

-------------------------------------------------------------------------------
LoopNext  == Admit \/ StartNext \/ Wait \/ Complete \/ Leave \/ Disconnect
ActorNext == Handle \/ Dispatch \/ Finish \/ Submit \/ Receipt \/ Transferred \/ LocalAnswer
InputNext == Interact \/ CoordinatorCalls \/ SourceFails \/ TypeOffline \/ TypeCleaning
BetweenNext == AdmitOffline \/ AdmitCleaning \/ Cleaned \/ Connected \/ ConnectFails

RuntimeNext == LoopNext \/ ActorNext \/ InputNext \/ BetweenNext

\* The driver's events are taken, so that it goes on: not while the loop drains a lost
\* connection, not after an error (which may be the driver's), not in backend.shutdown().
DriverServed == mode = "running" /\ ~down /\ ~error /\ ~MayLeave

\* The loop runs whenever something is ready and polls its sources in rotation;
\* the actor, the worker and the system answer (a local effect may look the media
\* library up in the actor); a connection attempt ends.  A receipt is promised only
\* while the driver is served.
RuntimeFairness ==
    /\ WF_runtimeVars(Admit \/ StartNext \/ Wait \/ Leave \/ Disconnect)
    /\ WF_runtimeVars(Complete)
    /\ WF_runtimeVars(Handle \/ Dispatch) /\ WF_runtimeVars(Finish \/ Submit)
    /\ WF_runtimeVars(DriverServed /\ Receipt)
    /\ WF_runtimeVars(Transferred) /\ WF_runtimeVars(~delivering /\ LocalAnswer)
    /\ WF_runtimeVars(BetweenNext)

RuntimeSpec == RuntimeInit /\ [][RuntimeNext]_runtimeVars /\ RuntimeFairness

-------------------------------------------------------------------------------
(* Properties.                                                             *)

\* The types of the variables.
RuntimeTypeOK ==
    /\ mode \in Ended \cup {"connecting", "offline", "running", "cleanup"}
    /\ turn \in {"admit", "start", "wait"}
    /\ wish \in Effects \cup {NoEffect, Quit}
    /\ pending \in Seq(Effects) /\ active \subseteq Effects /\ flagged \subseteq Effects
    /\ exit \in {"none", "quit", "lifecycle"} /\ error \in BOOLEAN
    /\ down \in BOOLEAN /\ cancelling \in BOOLEAN
    /\ mail \in Seq(Effects \cup {Outbox}) /\ Len(mail) <= MailboxCapacity
    /\ handling \in Effects \cup {NoEffect, Outbox} /\ tasks \subseteq Effects
    /\ delivering \in BOOLEAN /\ (delivering => handling = Outbox)
    /\ answer \in [Effects -> Outcomes]
    /\ asked \subseteq Effects /\ calls \in 0..MaxCalls /\ faults \in 0..MaxFaults

\* Of the navigations the session holds, only the last is not cancelled: an earlier
\* one that returns to the queue comes back with its cancellation.
OneNavigation ==
    \A a, b \in Held \ flagged :
        Kind[a] = "navigation" /\ Kind[b] = "navigation" => a = b

\* busy is the number of active effects of the lane and never above its limit.
LanesCounted ==
    mode \notin Ended =>
        \A l \in Lanes : /\ busy[l] = Cardinality({e \in active : Lane[e] = l})
                        /\ busy[l] <= Limit[l]

\* No accepted effect is held twice, what is held fits the bound and the limits of
\* the lanes, and at most one navigation is live, through every replacement, start,
\* return and reconnection.
HeldOnceWithinCapacity ==
    /\ IsInjective(pending) /\ active \cap Range(pending) = {}
    /\ Cardinality(Held) <= Capacity
    /\ LanesCounted /\ OneNavigation

\* a runs, or waits in front of b.
Before(a, b) == /\ b \in Range(pending)
                /\ \/ a \in active
                   \/ \E i, k \in DOMAIN pending : i < k /\ pending[i] = a /\ pending[k] = b

\* Effects of a lane that keeps order (drafts and sends, requests to Telegram) never
\* overtake each other: not when one is replaced, and not when the connection is
\* lost under the active one and the queue moves to the next session.
LaneOrderKept ==
    [][\A a, b \in Effects :
          Lane[a] = Lane[b] /\ Lane[a] \in Serial /\ Before(a, b)
          /\ {a, b} \subseteq Held' => Before(a, b)']_runtimeVars

\* An effect leaves the session only with a result, by a newer one of its group, by
\* a navigation that cancelled it, or with the session's end.
NothingForgotten ==
    [][\A e \in Held \ Held' :
          \/ answer[e] \in {"ok", "ready"}
          \/ e \in flagged
          \/ wish \in Effects /\ SameGroup(e, wish)
          \/ exit' # "none" \/ mode' \in Ended]_runtimeVars

\* The handler is not left waiting for ever for a receipt: the code does not ensure
\* it when the driver ends with the update in hand (outbox/actor.rs:48).
HandlerReturns == []<>~delivering

\* Everything accepted is finished in the end, unless the session ends or waits for
\* the user to reconnect (the effects asked for are finitely many), or the handler of
\* the coordinator's call never returns: what waits behind it is never served then.
AcceptedFinished ==
    HandlerReturns => []<>(Held = {} \/ mode \in Ended \cup {"offline"})

\* A session that lost its connection is left, but for the same handler: an active
\* request behind it is never answered.
DrainsWhenDown ==
    HandlerReturns => ((mode = "running" /\ down) ~> (mode # "running"))

\* README.md:47 "Quit cleanly": a requested exit is never followed by another session.
ExitIsFinal == [][mode = "running" /\ exit # "none" => mode' # "cleanup"]_runtimeVars

=================================================================================
