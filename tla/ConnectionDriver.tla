---------------------------- MODULE ConnectionDriver ----------------------------
(***************************************************************************)
(* The driver of one MTProto connection and the handles that invoke        *)
(* methods over it (crates/compio-mtproto/src/driver/, sender.rs), polled  *)
(* by the stream of live updates (crates/intuigram-telegram/src/           *)
(* connection.rs).                                                         *)
(*                                                                         *)
(* Everything runs on one thread: a poll of the driver is not interrupted  *)
(* by its callers.  at is the driver's position in its poll, and callers,  *)
(* the network and the clock act only while it is parked.                  *)
(***************************************************************************)
EXTENDS Integers, Sequences, FiniteSets, SequencesExt

CONSTANTS Calls, NoCall,
          Capacity,              \* of outstanding invocations
          MaxBadMessageRetries,  \* MAX_BAD_MESSAGE_RETRIES
          Oversized,             \* the calls beyond MAXIMUM_REQUEST_BYTES
          Patient,               \* the calls made with WaitForFlood
          Outcomes,              \* results, errors, failures and rejections
          MaxMessages,           \* bound on message identifiers
          MaxAnswers,            \* bound on the results Telegram sends
          MaxPings               \* bound on the keepalive timer

ASSUME DriverAssumption ==
    /\ NoCall \notin Calls /\ IsFiniteSet(Calls) /\ "none" \notin Outcomes
    /\ Oversized \subseteq Calls /\ Patient \subseteq Calls
    /\ Capacity \in Nat \ {0} /\ MaxBadMessageRetries \in Nat
    /\ MaxMessages \in Nat /\ MaxAnswers \in Nat /\ MaxPings \in Nat

Messages == 1..MaxMessages

VARIABLES status,      \* of each call: idle, waiting, refused or dropped
          result,      \* Response.result
          attempts,    \* QueuedRequest.attempts
          outstanding, \* Shared.outstanding
          requests,    \* Shared.requests
          pending, retries,
          inFlight,    \* the call each message identifier still belongs to
          sending,     \* the envelope the transport holds; acknowledgements,
                       \* which no call waits for, are left out
          flushed,     \* the transport has written it
          salts,       \* the session's server salts: due, asked or known
          ping,        \* the keepalive's timer has fired and its ping is pending
          stopped,     \* Shared.stopped
          stream,      \* LiveUpdates: open, failed or ended
          at,          \* parked, prepare, send or receive
          armed,       \* Shared.driver_waker is set
          awake,       \* the task that polls the driver is scheduled
          updates,     \* Shared.updates: the call that produced each, if known
          arrived,     \* results the transport has received
          carried,     \* the call each message was sent for
          answers, pings

callVars   == <<status, result, attempts, outstanding, requests>>
driverVars == <<pending, retries, inFlight, sending, salts, ping>>
pollVars   == <<stopped, stream, at, armed, awake>>
netVars    == <<flushed, arrived, answers>>
channelVars == <<callVars, driverVars, pollVars, netVars, updates, carried, pings>>

Idle == <<"nothing", 0>>

DriverInit ==
    /\ status = [c \in Calls |-> "idle"] /\ result = [c \in Calls |-> "none"]
    /\ attempts = [c \in Calls |-> 0] /\ outstanding = 0 /\ requests = <<>>
    /\ pending = NoCall /\ retries = <<>> /\ inFlight = [m \in Messages |-> NoCall]
    /\ sending = Idle /\ flushed = FALSE
    /\ salts = "due" /\ ping = FALSE
    /\ stopped = FALSE /\ stream = "open" /\ at = "parked"
    /\ armed = FALSE /\ awake = TRUE
    /\ updates = <<>> /\ arrived = <<>>
    /\ carried = [m \in Messages |-> NoCall] /\ answers = 0 /\ pings = 0

\* The invocations whose response is not completed.
Live == {c \in Calls : status[c] = "waiting" /\ result[c] = "none"}

Minus(n) == IF outstanding >= n THEN outstanding - n ELSE 0

\* complete, for every response in S: a completed one is left alone.
Complete(S, outcome) ==
    /\ result' = [c \in Calls |-> IF c \in S \cap Live THEN outcome ELSE result[c]]
    /\ outstanding' = Minus(Cardinality(S \cap Live))

Wake == awake' = (awake \/ armed) /\ armed' = FALSE

-------------------------------------------------------------------------------
(* Callers.                                                                *)

Reject(c) == /\ status' = [status EXCEPT ![c] = "refused"]
             /\ UNCHANGED <<result, attempts, outstanding, requests, armed, awake>>

Admit(c) == /\ status' = [status EXCEPT ![c] = "waiting"] /\ result' = [result EXCEPT ![c] = "none"]
            /\ attempts' = [attempts EXCEPT ![c] = 0]
            /\ requests' = Append(requests, c) /\ outstanding' = outstanding + 1
            /\ Wake

\* A mutated form of the next definition, for checking the properties.
EnqueueStopped(c) == IF outstanding >= Capacity THEN Reject(c) ELSE Admit(c)

\* enqueue, which refuses with DriverStopped or QueueFull.
Enqueue(c) == IF stopped \/ outstanding >= Capacity THEN Reject(c) ELSE Admit(c)

Callers == /\ at = "parked"
           /\ UNCHANGED <<driverVars, netVars, stream, at, updates, carried, pings>>

Ask(c) == status[c] = "idle" /\ Enqueue(c) /\ Callers /\ UNCHANGED stopped

\* A patient caller that Telegram told to wait sleeps and invokes again.  Any
\* other reads its result once, which is left out.
Sleeping(c) == c \in Patient /\ status[c] = "waiting" /\ result[c] = "flood"

AskAgain(c) == Sleeping(c) /\ Enqueue(c) /\ Callers /\ UNCHANGED stopped

\* A mutated form of the next definition, for checking the properties.
DropUncounted(c) == /\ c \in Live \/ Sleeping(c)
                    /\ status' = [status EXCEPT ![c] = "dropped"]
                    /\ result' = [result EXCEPT ![c] = "none"]
                    /\ Callers
                    /\ UNCHANGED <<attempts, outstanding, requests, stopped, armed, awake>>

\* Invocation::drop.
DropRequest(c) == /\ c \in Live \/ Sleeping(c)
                  /\ status' = [status EXCEPT ![c] = "dropped"]
                  /\ result' = [result EXCEPT ![c] = "none"]
                  /\ outstanding' = IF c \in Live THEN Minus(1) ELSE outstanding
                  /\ Callers
                  /\ UNCHANGED <<attempts, requests, stopped, armed, awake>>

\* A mutated form of the next definition, for checking the properties.
StopUnwoken == /\ ~stopped /\ stopped' = TRUE
               /\ Complete(Range(requests), "stopped") /\ requests' = <<>>
               /\ Callers /\ UNCHANGED <<status, attempts, armed, awake>>

\* InvocationHandle::stop, by the shutdown of the session.
StopHandle == /\ ~stopped /\ stopped' = TRUE
              /\ Complete(Range(requests), "stopped") /\ requests' = <<>>
              /\ Wake /\ Callers /\ UNCHANGED <<status, attempts>>

-------------------------------------------------------------------------------
(* Telegram, the transport and the clock.                                  *)

Outside == /\ at = "parked" /\ stream = "open"
           /\ UNCHANGED <<callVars, driverVars, stopped, stream, at, armed, updates, carried>>

\* What Telegram may say of a message it has received, in any order and as
\* often as it likes; a passive update, or fresh salts, at any time.
Kinds == Outcomes \cup {"flood", "retry", "own"}

\* The messages the transport has written.
Written == {m \in Messages :
              carried[m] # NoCall /\ (sending = <<"request", m>> => flushed)}

Answer == /\ answers < MaxAnswers /\ answers' = answers + 1
          /\ \/ \E m \in Written, k \in Kinds : arrived' = Append(arrived, <<k, m>>)
             \/ arrived' = Append(arrived, <<"update", 0>>)
          /\ awake' = TRUE /\ Outside /\ UNCHANGED <<flushed, pings>>

SendSalts == /\ salts = "asked" /\ (sending = <<"salts", 0>> => flushed)
             /\ ~Contains(arrived, <<"salts", 0>>)
             /\ arrived' = Append(arrived, <<"salts", 0>>) /\ awake' = TRUE
             /\ Outside /\ UNCHANGED <<flushed, answers, pings>>

Flush == /\ sending # Idle /\ ~flushed /\ flushed' = TRUE /\ awake' = TRUE
         /\ Outside /\ UNCHANGED <<arrived, answers, pings>>

\* The keepalive's timer, armed by the first poll, asks for a ping.
Tick == /\ armed /\ ~ping /\ pings < MaxPings /\ pings' = pings + 1
        /\ ping' = TRUE /\ awake' = TRUE /\ at = "parked" /\ stream = "open"
        /\ UNCHANGED <<callVars, pending, retries, inFlight, sending, salts,
                       stopped, stream, at, armed, netVars, updates, carried>>

-------------------------------------------------------------------------------
(* The poll of the driver.                                                 *)

\* stop_pending and Shared::stop: every invocation the driver owes is told.
\* LiveUpdates ends, whatever the update queue still holds, and the driver
\* goes with its transport: what only they use is cleared.
Ending(how) ==
    /\ pending' = NoCall /\ retries' = <<>> /\ inFlight' = [m \in Messages |-> NoCall]
    /\ requests' = <<>> /\ stopped' = TRUE /\ stream' = how /\ at' = "parked"
    /\ updates' = <<>> /\ armed' = FALSE /\ awake' = FALSE
    /\ sending' = Idle /\ flushed' = FALSE /\ arrived' = <<>>
    /\ ping' = FALSE /\ salts' = "due"
    /\ carried' = [m \in Messages |-> NoCall]
    /\ attempts' = [c \in Calls |-> 0] /\ answers' = 0 /\ pings' = 0
    /\ UNCHANGED status

StopPending(how) ==
    /\ Complete({pending} \cup Range(retries) \cup Range(inFlight) \cup Range(requests), "stopped")
    /\ Ending(how)

BeginPoll ==
    /\ at = "parked" /\ awake /\ stream = "open"
    /\ \/ stopped /\ StopPending("ended")
       \/ /\ ~stopped /\ at' = "prepare" /\ armed' = TRUE /\ awake' = FALSE
          /\ UNCHANGED <<callVars, driverVars, stopped, stream, netVars, updates, carried, pings>>

\* What no step inside the poll changes.
Polling == UNCHANGED <<status, armed, awake, answers, pings>>

Fail == StopPending("failed")

\* The first of the queue whose response is not completed, or one past its end.
FirstLive(queue) ==
    LET unanswered == {i \in 1..Len(queue) : queue[i] \in Live}
    IN  IF unanswered = {} THEN Len(queue) + 1
        ELSE CHOOSE i \in unanswered : \A j \in unanswered : i <= j

After(queue, n) == IF n > 0 THEN SubSeq(queue, n + 1, Len(queue)) ELSE queue

\* prepare_outgoing takes the next request, retries before new ones, and drops
\* the completed ones before it.  A pending ping goes before any of them.
Takes == pending = NoCall /\ ~ping
Position == FirstLive(retries \o requests)
Request == IF Takes /\ Position <= Len(retries \o requests)
           THEN (retries \o requests)[Position] ELSE pending
Taken == /\ retries' = IF Takes THEN After(retries, Position) ELSE retries
         /\ requests' = IF Takes THEN After(requests, Position - Len(retries)) ELSE requests

Preparing == /\ at = "prepare" /\ at' = "send" /\ Polling
             /\ UNCHANGED <<result, attempts, outstanding, stopped, stream, arrived, updates>>

\* queue_send: the transport writes the envelope at once or holds it.
QueueSend(envelope) == sending' = envelope /\ flushed' \in BOOLEAN

PrepareNothing ==
    /\ Preparing /\ UNCHANGED <<inFlight, sending, flushed, salts, ping, carried>>
    /\ \/ sending # Idle /\ UNCHANGED <<pending, retries, requests>>
       \/ sending = Idle /\ Request = NoCall /\ ~ping /\ Taken /\ UNCHANGED pending

Body == sending = Idle /\ (ping \/ Request # NoCall) /\ Request \notin Oversized

\* Salts are asked for before the first body, which waits for them.
PrepareService ==
    /\ Body /\ salts # "known" /\ salts' = "asked" /\ Taken /\ pending' = Request
    /\ IF salts = "due" THEN QueueSend(<<"salts", 0>>) ELSE UNCHANGED <<sending, flushed>>
    /\ Preparing /\ UNCHANGED <<inFlight, ping, carried>>

PreparePing == /\ Body /\ salts = "known" /\ Request = NoCall /\ ping' = FALSE
               /\ QueueSend(<<"ping", 0>>)
               /\ Preparing /\ UNCHANGED <<pending, retries, requests, inFlight, salts, carried>>

NextMessage == 1 + Cardinality({m \in Messages : carried[m] # NoCall})

PrepareRequest ==
    /\ Body /\ salts = "known" /\ Request # NoCall /\ NextMessage \in Messages
    /\ Taken /\ pending' = NoCall
    /\ carried' = [carried EXCEPT ![NextMessage] = Request]
    /\ inFlight' = [inFlight EXCEPT ![NextMessage] = Request]
    /\ QueueSend(<<"request", NextMessage>>)
    /\ Preparing /\ UNCHANGED <<salts, ping>>

\* RequestTooLarge is an error of the driver, which ends.
PrepareTooLarge == at = "prepare" /\ sending = Idle /\ Request \in Oversized /\ Fail

\* poll_send.
Send ==
    /\ at = "send"
    /\ \/ ~(sending # Idle /\ flushed) /\ at' = "receive" /\ UNCHANGED <<sending, flushed>>
       \/ sending # Idle /\ flushed /\ sending' = Idle /\ flushed' = FALSE /\ at' = "prepare"
    /\ Polling
    /\ UNCHANGED <<result, attempts, outstanding, requests, pending, retries, inFlight, salts,
                   ping, stopped, stream, arrived, updates, carried>>

SendFails == at = "send" /\ sending # Idle /\ ~flushed /\ Fail

-------------------------------------------------------------------------------
(* process_result.                                                         *)

Receiving == /\ at = "receive" /\ arrived # <<>> /\ arrived' = Tail(arrived)
             /\ at' = "prepare" /\ Polling
             /\ UNCHANGED <<requests, pending, sending, ping, stopped, stream, flushed, carried>>

Kind == Head(arrived)[1]
Message == Head(arrived)[2]
Owner == IF Message = 0 THEN NoCall ELSE inFlight[Message]
Removed == [inFlight EXCEPT ![Message] = NoCall]

Settling == Outcomes \cup {"flood", "reject"}

ReceiveOutcome ==
    /\ arrived # <<>> /\ Kind \in Settling /\ Receiving
    /\ inFlight' = Removed /\ Complete({Owner}, Kind)
    /\ UNCHANGED <<attempts, retries, salts, updates>>

\* A mutated form of the next definition: the retry is not counted.
RetryUncounted ==
    /\ arrived # <<>> /\ Kind = "retry" /\ Receiving /\ inFlight' = Removed
    /\ retries' = IF Owner \in Live THEN Append(retries, Owner) ELSE retries
    /\ UNCHANGED <<result, outstanding, attempts, salts, updates>>

\* A retryable bad message: the request is sent again as a new message.
ReceiveRetry ==
    /\ arrived # <<>> /\ Kind = "retry" /\ Receiving /\ inFlight' = Removed
    /\ LET again == Owner \in Live /\ attempts[Owner] < MaxBadMessageRetries
       IN  IF again
           THEN /\ attempts' = [attempts EXCEPT ![Owner] = @ + 1]
                /\ retries' = Append(retries, Owner) /\ UNCHANGED <<result, outstanding>>
           ELSE Complete({Owner}, "reject") /\ UNCHANGED <<attempts, retries>>
    /\ UNCHANGED <<salts, updates>>

\* Updates are correlated with the request that is still in flight.
ReceiveUpdate ==
    /\ arrived # <<>> /\ Kind \in {"own", "update"} /\ Receiving
    /\ updates' = Append(updates, Owner)
    /\ UNCHANGED <<result, attempts, outstanding, retries, inFlight, salts>>

ReceiveSalts ==
    /\ arrived # <<>> /\ Kind = "salts" /\ Receiving /\ salts' = "known"
    /\ UNCHANGED <<result, attempts, outstanding, retries, inFlight, updates>>

\* The transport has failed, and wakes a parked driver to say so.
ReceiveFails == at \in {"receive", "parked"} /\ stream = "open" /\ arrived = <<>> /\ Fail

\* The driver is pending, and LiveUpdates takes one update.
Deliver ==
    /\ at = "receive" /\ arrived = <<>> /\ at' = "parked"
    /\ awake' = (updates # <<>>) /\ updates' = IF updates = <<>> THEN updates ELSE Tail(updates)
    /\ UNCHANGED <<callVars, driverVars, stopped, stream, armed, netVars, carried, pings>>

\* The task that polls the stream is cancelled: ConnectionDriver::drop.
DropDriver == /\ at = "parked" /\ stream = "open" /\ StopPending("ended")

-------------------------------------------------------------------------------
Caller(c) == Ask(c) \/ AskAgain(c) \/ DropRequest(c)

Poll == \/ BeginPoll \/ Send \/ Deliver
        \/ PrepareNothing \/ PrepareService \/ PreparePing \/ PrepareRequest \/ PrepareTooLarge
        \/ ReceiveOutcome \/ ReceiveRetry \/ ReceiveUpdate \/ ReceiveSalts

Network == Answer \/ SendSalts \/ Flush \/ Tick \/ SendFails \/ ReceiveFails

DriverNext == (\E c \in Calls : Caller(c)) \/ StopHandle \/ DropDriver \/ Poll \/ Network

\* The runtime polls an awake task; the network writes what it was given, or
\* fails, and Telegram answers a request for salts.
DriverFairness == WF_channelVars(Poll) /\ WF_channelVars(Flush) /\ WF_channelVars(SendSalts)
DriverSpec == DriverInit /\ [][DriverNext]_channelVars /\ DriverFairness

-------------------------------------------------------------------------------
Envelopes == {<<"request", m>> : m \in Messages} \cup {<<k, 0>> : k \in {"salts", "ping"}}

\* A result names the message it answers; updates and salts name none.
Arrivals == (Kinds \X Messages) \cup {<<"update", 0>>, <<"salts", 0>>}

CallsTypeOK ==
    /\ status \in [Calls -> {"idle", "waiting", "refused", "dropped"}]
    /\ result \in [Calls -> Settling \cup {"none", "stopped"}]
    /\ outstanding \in 0..Capacity

QueuesTypeOK ==
    /\ attempts \in [Calls -> 0..MaxBadMessageRetries]
    /\ requests \in Seq(Calls) /\ retries \in Seq(Calls) /\ pending \in Calls \cup {NoCall}
    /\ inFlight \in [Messages -> Calls \cup {NoCall}]
    /\ carried \in [Messages -> Calls \cup {NoCall}]
    /\ updates \in Seq(Calls \cup {NoCall})
    /\ arrived \in Seq(Arrivals)

PollTypeOK ==
    /\ sending \in Envelopes \cup {Idle}
    /\ salts \in {"due", "asked", "known"} /\ stream \in {"open", "failed", "ended"}
    /\ at \in {"parked", "prepare", "send", "receive"}

FlagsTypeOK == /\ stopped \in BOOLEAN /\ armed \in BOOLEAN /\ awake \in BOOLEAN
               /\ flushed \in BOOLEAN /\ ping \in BOOLEAN

\* The shape of the driver's state.
DriverTypeOK == CallsTypeOK /\ QueuesTypeOK /\ PollTypeOK /\ FlagsTypeOK

Count(queue, c) == Cardinality({i \in DOMAIN queue : queue[i] = c})

\* The places that hold a call until it is answered.
Places(c) == Count(requests, c) + Count(retries, c) + Count(inFlight, c)
             + IF pending = c THEN 1 ELSE 0

\* Every unanswered call is in exactly one of the queue, the pending slot, the
\* retries and the messages in flight, and the capacity counts just these
\* calls, through cancellations, retries and stops.
CallsHeldAndCounted ==
    /\ \A c \in Live : Places(c) = 1
    /\ outstanding = Cardinality(Live)

\* The messages sent for the current invocation of a call.
Sends(c) == Cardinality({m \in Messages : carried[m] = c})

\* A call is sent at most once and then MAX_BAD_MESSAGE_RETRIES times more.
SendsBounded == \A c \in Calls \ Patient : Sends(c) <= 1 + MaxBadMessageRetries

Unsent == Live \ Range(inFlight)

\* Accepted calls are sent or told why not, and a stopped connection tells every
\* call: no wake-up is lost, and neither the salts nor a keepalive holds the
\* queue for ever.
CallsMoveOn == []<>(Unsent = {} /\ (stopped => Live = {}))

\* The stages of RpcPromise, and that the driver keeps what it promises.
Stage(c) == IF status[c] = "waiting" /\ result[c] # "none" THEN "settled" ELSE status[c]

Promise == INSTANCE RpcPromise WITH open <- ~stopped, stage <- [c \in Calls |-> Stage(c)]

\* The driver implements RpcPromise.
KeepsRpcPromise == Promise!PromiseSpec
=================================================================================
