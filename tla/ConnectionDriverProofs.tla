------------------------- MODULE ConnectionDriverProofs -------------------------
(***************************************************************************)
(* Proofs about ConnectionDriver, for any calls, any capacity, any bound   *)
(* of retries and any answers of Telegram: it is well typed, it counts its *)
(* unanswered calls right, it implements RpcPromise, every call that waits *)
(* is in exactly one place, and none is sent more often than its retries   *)
(* allow.                                                                  *)
(*                                                                         *)
(* Each action is first shown to do one of a few things to the calls       *)
(* (StepOfCalls) and to the places that hold them (StepOfPlaces); the      *)
(* invariants are proved of these.                                         *)
(***************************************************************************)
EXTENDS ConnectionDriver, FiniteSetTheorems, SequenceTheorems, WellFoundedInduction, TLAPS

\* The capacity counts just the calls that wait.
Counted == outstanding = Cardinality(Live)

DriverInv == DriverTypeOK /\ Counted

USE DriverAssumption

-------------------------------------------------------------------------------
(* What the operators do.                                                  *)

\* The calls that wait are finitely many.
LEMMA LiveFinite ==
    /\ IsFiniteSet(Live) /\ Cardinality(Live) \in Nat
    /\ \A S : IsFiniteSet(S \cap Live) /\ Cardinality(S \cap Live) \in Nat
              /\ Cardinality(S \cap Live) <= Cardinality(Live)
<1>1. Live \in SUBSET Calls
  BY DEF Live
<1>2. IsFiniteSet(Live) /\ Cardinality(Live) \in Nat
  BY <1>1, FS_Subset, FS_CardinalityType
<1>3. ASSUME NEW S
      PROVE  IsFiniteSet(S \cap Live) /\ Cardinality(S \cap Live) \in Nat
             /\ Cardinality(S \cap Live) <= Cardinality(Live)
  <2>1. S \cap Live \in SUBSET Live
    OBVIOUS
  <2>. QED
    BY <1>2, <2>1, FS_Subset, FS_CardinalityType
<1>. QED
  BY <1>2, <1>3

\* Completing responses takes just them out of the count.
LEMMA CompleteCounts ==
    ASSUME CallsTypeOK, Counted, NEW S, NEW outcome, outcome # "none",
           Complete(S, outcome), UNCHANGED status
    PROVE  Live' = Live \ S /\ Counted'
<1>1. Live' = Live \ S
  BY DEF Complete, Live, CallsTypeOK
<1>2. /\ Cardinality(Live \ S) = Cardinality(Live) - Cardinality(Live \cap S)
      /\ Live \cap S = S \cap Live
  BY LiveFinite, FS_Difference
<1>. HIDE DEF Live
<1>3. /\ Cardinality(Live) \in Nat /\ Cardinality(S \cap Live) \in Nat
      /\ Cardinality(S \cap Live) <= Cardinality(Live)
  BY LiveFinite
<1>. QED
  BY <1>1, <1>2, <1>3 DEF Complete, Minus, Counted

\* A non-empty set of numbers has a least one.
LEMMA LeastNumber ==
    ASSUME NEW T \in SUBSET Nat, T # {}
    PROVE  \E x \in T : \A y \in T : x <= y
<1>. DEFINE R == OpToRel(<, Nat)
<1>1. IsWellFoundedOn(R, Nat)
  BY NatLessThanWellFounded
<1>2. \A x, y \in Nat : x < y => <<x, y>> \in R
  BY DEF OpToRel
<1>. HIDE DEF R
<1>3. PICK x \in T : \A y \in T : ~ (<<y, x>> \in R)
  BY <1>1, WFMin
<1>4. ASSUME NEW y \in T PROVE x <= y
  <2>1. ~(y < x)
    BY <1>2, <1>3
  <2>. QED
    BY <2>1
<1>. QED
  BY <1>4

\* What is left of a queue is a queue of calls.
LEMMA AfterType ==
    ASSUME NEW queue \in Seq(Calls), NEW n \in Int
    PROVE  After(queue, n) \in Seq(Calls)
<1>1. CASE n > 0
  <2>1. Len(queue) \in Nat /\ \A i \in (n + 1)..Len(queue) : queue[i] \in Calls
    BY <1>1, ElementOfSeq
  <2>2. n + 1 \in Int /\ Len(queue) \in Int
    BY <2>1
  <2>3. SubSeq(queue, n + 1, Len(queue)) \in Seq(Calls)
    BY <2>1, <2>2, SubSeqProperties
  <2>. QED
    BY <1>1, <2>3 DEF After
<1>2. CASE ~(n > 0)
  BY <1>2 DEF After
<1>. QED
  BY <1>1, <1>2

\* The position of the first call that still waits, or one past the end.
LEMMA FirstLiveType ==
    ASSUME NEW queue \in Seq(Calls)
    PROVE  FirstLive(queue) \in 1..(Len(queue) + 1)
<1>. DEFINE unanswered == {i \in 1..Len(queue) : queue[i] \in Live}
<1>1. CASE unanswered = {}
  BY <1>1 DEF FirstLive
<1>2. CASE unanswered # {}
  <2>1. unanswered \in SUBSET Nat
    OBVIOUS
  <2>2. \E i \in unanswered : \A j \in unanswered : i <= j
    BY <1>2, <2>1, LeastNumber
  <2>3. FirstLive(queue) \in unanswered
    BY <1>2, <2>2 DEF FirstLive
  <2>. QED
    BY <2>3
<1>. QED
  BY <1>1, <1>2

\* The next request is a call or none, and the queues keep holding calls.
LEMMA RequestType ==
    ASSUME QueuesTypeOK
    PROVE  /\ Request \in Calls \cup {NoCall}
           /\ Taken => retries' \in Seq(Calls) /\ requests' \in Seq(Calls)
<1>1. /\ retries \o requests \in Seq(Calls) /\ Len(retries) \in Nat
      /\ Len(retries \o requests) \in Nat
  BY ConcatProperties DEF QueuesTypeOK
<1>2. Position \in 1..(Len(retries \o requests) + 1)
  BY <1>1, FirstLiveType DEF Position
<1>3. Request \in Calls \cup {NoCall}
  <2>1. Position <= Len(retries \o requests) => (retries \o requests)[Position] \in Calls
    BY <1>1, <1>2, ElementOfSeq
  <2>. QED
    BY <2>1 DEF Request, QueuesTypeOK
<1>4. After(retries, Position) \in Seq(Calls)
  BY <1>2, AfterType DEF QueuesTypeOK
<1>5. After(requests, Position - Len(retries)) \in Seq(Calls)
  <2>1. Position - Len(retries) \in Int
    BY <1>1, <1>2
  <2>. QED
    BY <2>1, AfterType DEF QueuesTypeOK
<1>. QED
  BY <1>3, <1>4, <1>5 DEF Taken, QueuesTypeOK

\* The call a result belongs to.
LEMMA ArrivalType ==
    ASSUME QueuesTypeOK, arrived # <<>>
    PROVE  /\ Message \in Messages \cup {0} /\ Kind \in Kinds \cup {"update", "salts"}
           /\ Owner \in Calls \cup {NoCall}
           /\ Removed \in [Messages -> Calls \cup {NoCall}]
           /\ Tail(arrived) \in Seq(Arrivals)
<1>1. Head(arrived) \in Arrivals /\ Tail(arrived) \in Seq(Arrivals)
  BY HeadTailProperties DEF QueuesTypeOK
<1>2. Message \in Messages \cup {0} /\ Kind \in Kinds \cup {"update", "salts"}
  BY <1>1 DEF Arrivals, Message, Kind
<1>. QED
  BY <1>1, <1>2 DEF Owner, Removed, QueuesTypeOK

-------------------------------------------------------------------------------
(* Type correctness, one part of the state at a time.                      *)

\* Completing responses keeps results and the count in their ranges.
LEMMA CompleteType ==
    ASSUME CallsTypeOK, NEW S, NEW outcome \in Settling \cup {"stopped"}, Complete(S, outcome)
    PROVE  /\ result' \in [Calls -> Settling \cup {"none", "stopped"}]
           /\ outstanding' \in 0..Capacity
<1>1. Cardinality(S \cap Live) \in Nat
  BY LiveFinite
<1>2. result' \in [Calls -> Settling \cup {"none", "stopped"}]
  BY DEF Complete, CallsTypeOK
<1>3. outstanding' \in 0..Capacity
  BY <1>1 DEF Complete, Minus, CallsTypeOK
<1>. QED
  BY <1>2, <1>3

\* The calls keep their type.
LEMMA CallsStep ==
    ASSUME CallsTypeOK, DriverNext \/ UNCHANGED channelVars
    PROVE  CallsTypeOK'
<1>. USE DEF CallsTypeOK
<1>1. ASSUME NEW c \in Calls, Ask(c) PROVE CallsTypeOK'
  BY <1>1 DEF Ask, Enqueue, Reject, Admit, Wake, callVars, driverVars, netVars, Callers
<1>2. ASSUME NEW c \in Calls, AskAgain(c) PROVE CallsTypeOK'
  BY <1>2 DEF AskAgain, Sleeping, Enqueue, Reject, Admit, Wake, callVars, driverVars, netVars, Callers
<1>3. ASSUME NEW c \in Calls, DropRequest(c) PROVE CallsTypeOK'
  BY <1>3, TRUE DEF DropRequest, Minus, callVars, driverVars, netVars, Callers
<1>4. CASE StopHandle
  BY <1>4, CompleteType DEF StopHandle, Wake, callVars, driverVars, netVars, Callers
<1>5. CASE DropDriver
  BY <1>5, CompleteType DEF DropDriver, StopPending, Ending, callVars, driverVars, netVars
<1>6. CASE BeginPoll
  BY <1>6, CompleteType DEF BeginPoll, StopPending, Ending, callVars, driverVars, netVars
<1>7. CASE Send
  BY <1>7 DEF Send, callVars, driverVars, netVars, Polling
<1>8. CASE Deliver
  BY <1>8 DEF Deliver, callVars, driverVars, netVars
<1>9. CASE PrepareNothing
  BY <1>9 DEF PrepareNothing, callVars, driverVars, netVars, Preparing, Polling
<1>10. CASE PrepareService
  BY <1>10 DEF PrepareService, QueueSend, callVars, driverVars, netVars, Preparing, Polling
<1>11. CASE PreparePing
  BY <1>11 DEF PreparePing, QueueSend, callVars, driverVars, netVars, Preparing, Polling
<1>12. CASE PrepareRequest
  BY <1>12 DEF PrepareRequest, QueueSend, callVars, driverVars, netVars, Preparing, Polling
<1>13. CASE PrepareTooLarge
  BY <1>13, CompleteType DEF PrepareTooLarge, StopPending, Ending, callVars, driverVars, netVars, Fail
<1>14. CASE ReceiveOutcome
  BY <1>14, CompleteType DEF ReceiveOutcome, callVars, driverVars, netVars, Receiving, Polling
<1>15. CASE ReceiveRetry
  BY <1>15, CompleteType DEF ReceiveRetry, Settling, callVars, driverVars, netVars, Receiving, Polling
<1>16. CASE ReceiveUpdate
  BY <1>16 DEF ReceiveUpdate, callVars, driverVars, netVars, Receiving, Polling
<1>17. CASE ReceiveSalts
  BY <1>17 DEF ReceiveSalts, callVars, driverVars, netVars, Receiving, Polling
<1>18. CASE Answer
  BY <1>18 DEF Answer, callVars, driverVars, netVars, Outside
<1>19. CASE SendSalts
  BY <1>19 DEF SendSalts, callVars, driverVars, netVars, Outside
<1>20. CASE Flush
  BY <1>20 DEF Flush, callVars, driverVars, netVars, Outside
<1>21. CASE Tick
  BY <1>21 DEF Tick, callVars, driverVars, netVars
<1>22. CASE SendFails
  BY <1>22, CompleteType DEF SendFails, StopPending, Ending, callVars, driverVars, netVars, Fail
<1>23. CASE ReceiveFails
  BY <1>23, CompleteType DEF ReceiveFails, StopPending, Ending, callVars, driverVars, netVars, Fail
<1>24. CASE UNCHANGED channelVars
  BY <1>24 DEF channelVars, callVars, driverVars, pollVars, netVars
<1>. QED
  BY <1>1, <1>2, <1>3, <1>4, <1>5, <1>6, <1>7, <1>8, <1>9, <1>10, <1>11,
     <1>12, <1>13, <1>14, <1>15, <1>16, <1>17, <1>18, <1>19, <1>20, <1>21,
     <1>22, <1>23, <1>24 DEF DriverNext, Caller, Poll, Network

\* The queues keep their types.
LEMMA QueuesStep ==
    ASSUME QueuesTypeOK, DriverNext \/ UNCHANGED channelVars
    PROVE  QueuesTypeOK'
<1>. USE DEF QueuesTypeOK
<1>1. ASSUME NEW c \in Calls, Ask(c) PROVE QueuesTypeOK'
  <2>1. CASE Admit(c)
    <3>1. attempts' \in [Calls -> 0..MaxBadMessageRetries] /\ requests' \in Seq(Calls)
      BY <2>1 DEF Admit
    <3>. QED
      BY <1>1, <3>1 DEF Ask, Callers, driverVars, netVars
  <2>2. CASE Reject(c)
    BY <1>1, <2>2 DEF Ask, Reject, Callers, driverVars, netVars
  <2>. QED
    BY <1>1, <2>1, <2>2 DEF Ask, Enqueue
<1>2. ASSUME NEW c \in Calls, AskAgain(c) PROVE QueuesTypeOK'
  <2>1. CASE Admit(c)
    <3>1. attempts' \in [Calls -> 0..MaxBadMessageRetries] /\ requests' \in Seq(Calls)
      BY <2>1 DEF Admit
    <3>. QED
      BY <1>2, <3>1 DEF AskAgain, Callers, driverVars, netVars
  <2>2. CASE Reject(c)
    BY <1>2, <2>2 DEF AskAgain, Reject, Callers, driverVars, netVars
  <2>. QED
    BY <1>2, <2>1, <2>2 DEF AskAgain, Enqueue
<1>3. ASSUME NEW c \in Calls, DropRequest(c) PROVE QueuesTypeOK'
  BY <1>3 DEF DropRequest, callVars, driverVars, netVars, Callers
<1>4. CASE StopHandle
  BY <1>4 DEF StopHandle, Wake, callVars, driverVars, netVars, Callers
<1>5. CASE DropDriver
  BY <1>5 DEF DropDriver, StopPending, Ending, callVars, driverVars, netVars
<1>6. CASE BeginPoll
  <2>1. CASE StopPending("ended")
    BY <2>1 DEF StopPending, Ending
  <2>2. CASE ~StopPending("ended")
    BY <1>6, <2>2 DEF BeginPoll, callVars, driverVars, netVars
  <2>. QED
    BY <2>1, <2>2
<1>7. CASE Send
  BY <1>7 DEF Send, callVars, driverVars, netVars, Polling
<1>8. CASE Deliver
  BY <1>8 DEF Deliver, callVars, driverVars, netVars
<1>9. CASE PrepareNothing
  BY <1>9, RequestType DEF PrepareNothing, callVars, driverVars, netVars, Preparing, Polling
<1>10. CASE PrepareService
  BY <1>10, RequestType DEF PrepareService, QueueSend, callVars, driverVars, netVars, Preparing, Polling
<1>11. CASE PreparePing
  BY <1>11, RequestType DEF PreparePing, QueueSend, callVars, driverVars, netVars, Preparing, Polling
<1>12. CASE PrepareRequest
  BY <1>12, RequestType DEF PrepareRequest, QueueSend, callVars, driverVars, netVars, Preparing, Polling
<1>13. CASE PrepareTooLarge
  BY <1>13 DEF PrepareTooLarge, StopPending, Ending, callVars, driverVars, netVars, Fail
<1>14. CASE ReceiveOutcome
  BY <1>14, ArrivalType DEF ReceiveOutcome, callVars, driverVars, netVars, Receiving, Polling
<1>15. CASE ReceiveRetry
  <2>1. /\ Owner \in Calls \cup {NoCall} /\ Removed \in [Messages -> Calls \cup {NoCall}]
        /\ Tail(arrived) \in Seq(Arrivals)
    BY <1>15, ArrivalType DEF ReceiveRetry
  <2>2. attempts' \in [Calls -> 0..MaxBadMessageRetries]
    <3>1. CASE UNCHANGED attempts
      BY <3>1
    <3>2. CASE /\ attempts[Owner] < MaxBadMessageRetries /\ Owner \in Live
               /\ attempts' = [attempts EXCEPT ![Owner] = @ + 1]
      BY <3>2 DEF Live
    <3>. QED
      BY <1>15, <3>1, <3>2 DEF ReceiveRetry
  <2>3. retries' \in Seq(Calls)
    <3>1. Live \subseteq Calls
      BY DEF Live
    <3>2. UNCHANGED retries \/ (Owner \in Live /\ retries' = Append(retries, Owner))
      BY <1>15 DEF ReceiveRetry
    <3>3. CASE UNCHANGED retries
      BY <3>3
    <3>4. ASSUME Owner \in Calls, retries' = Append(retries, Owner)
          PROVE  retries' \in Seq(Calls)
      <4>. HIDE DEF Owner
      <4>. QED
        BY <3>4
    <3>. QED
      BY <3>1, <3>2, <3>3, <3>4
  <2>. QED
    BY <1>15, <2>1, <2>2, <2>3 DEF ReceiveRetry, Receiving, Polling
<1>16. CASE ReceiveUpdate
  BY <1>16, ArrivalType DEF ReceiveUpdate, callVars, driverVars, netVars, Receiving, Polling
<1>17. CASE ReceiveSalts
  BY <1>17, ArrivalType DEF ReceiveSalts, callVars, driverVars, netVars, Receiving, Polling
<1>18. CASE Answer
  <2>1. arrived' \in Seq(Arrivals)
    <3>1. CASE arrived' = Append(arrived, <<"update", 0>>)
      BY <3>1 DEF Arrivals
    <3>2. ASSUME NEW m \in Written, NEW k \in Kinds, arrived' = Append(arrived, <<k, m>>)
          PROVE  arrived' \in Seq(Arrivals)
      <4>1. <<k, m>> \in Arrivals
        BY DEF Arrivals, Written
      <4>. QED
        BY <3>2, <4>1
    <3>. QED
      BY <1>18, <3>1, <3>2 DEF Answer
  <2>. QED
    BY <1>18, <2>1 DEF Answer, Outside, callVars, driverVars
<1>19. CASE SendSalts
  BY <1>19, TRUE DEF SendSalts, Arrivals, callVars, driverVars, netVars, Outside
<1>20. CASE Flush
  BY <1>20 DEF Flush, callVars, driverVars, netVars, Outside
<1>21. CASE Tick
  BY <1>21 DEF Tick, callVars, driverVars, netVars
<1>22. CASE SendFails
  BY <1>22 DEF SendFails, StopPending, Ending, callVars, driverVars, netVars, Fail
<1>23. CASE ReceiveFails
  BY <1>23 DEF ReceiveFails, StopPending, Ending, callVars, driverVars, netVars, Fail
<1>24. CASE UNCHANGED channelVars
  BY <1>24 DEF channelVars, callVars, driverVars, pollVars, netVars
<1>. QED
  BY <1>1, <1>2, <1>3, <1>4, <1>5, <1>6, <1>7, <1>8, <1>9, <1>10, <1>11,
     <1>12, <1>13, <1>14, <1>15, <1>16, <1>17, <1>18, <1>19, <1>20, <1>21,
     <1>22, <1>23, <1>24 DEF DriverNext, Caller, Poll, Network

\* The positions of the poll keep their types.
LEMMA PollStep ==
    ASSUME PollTypeOK, DriverNext \/ UNCHANGED channelVars
    PROVE  PollTypeOK'
<1>. USE DEF PollTypeOK
<1>1. ASSUME NEW c \in Calls, Ask(c) PROVE PollTypeOK'
  BY <1>1 DEF Ask, Enqueue, Reject, Admit, Wake, callVars, driverVars, netVars, Callers
<1>2. ASSUME NEW c \in Calls, AskAgain(c) PROVE PollTypeOK'
  BY <1>2 DEF AskAgain, Sleeping, Enqueue, Reject, Admit, Wake, callVars, driverVars, netVars, Callers
<1>3. ASSUME NEW c \in Calls, DropRequest(c) PROVE PollTypeOK'
  BY <1>3 DEF DropRequest, callVars, driverVars, netVars, Callers
<1>4. CASE StopHandle
  BY <1>4 DEF StopHandle, Wake, callVars, driverVars, netVars, Callers
<1>5. CASE DropDriver
  BY <1>5, TRUE DEF DropDriver, StopPending, Ending, Envelopes, Idle, callVars, driverVars, netVars
<1>6. CASE BeginPoll
  BY <1>6, TRUE DEF BeginPoll, StopPending, Ending, Envelopes, Idle, callVars, driverVars, netVars
<1>7. CASE Send
  BY <1>7, TRUE DEF Send, Envelopes, Idle, callVars, driverVars, netVars, Polling
<1>8. CASE Deliver
  BY <1>8 DEF Deliver, callVars, driverVars, netVars
<1>9. CASE PrepareNothing
  BY <1>9 DEF PrepareNothing, callVars, driverVars, netVars, Preparing, Polling
<1>10. CASE PrepareService
  BY <1>10, TRUE DEF PrepareService, QueueSend, Envelopes, Idle, callVars, driverVars, netVars, Preparing, Polling
<1>11. CASE PreparePing
  BY <1>11, TRUE DEF PreparePing, QueueSend, Envelopes, Idle, callVars, driverVars, netVars, Preparing, Polling
<1>12. CASE PrepareRequest
  BY <1>12, TRUE DEF PrepareRequest, QueueSend, Envelopes, Idle, callVars, driverVars, netVars, Preparing, Polling
<1>13. CASE PrepareTooLarge
  BY <1>13, TRUE DEF PrepareTooLarge, StopPending, Ending, Envelopes, Idle, callVars, driverVars, netVars, Fail
<1>14. CASE ReceiveOutcome
  BY <1>14 DEF ReceiveOutcome, callVars, driverVars, netVars, Receiving, Polling
<1>15. CASE ReceiveRetry
  BY <1>15 DEF ReceiveRetry, callVars, driverVars, netVars, Receiving, Polling
<1>16. CASE ReceiveUpdate
  BY <1>16 DEF ReceiveUpdate, callVars, driverVars, netVars, Receiving, Polling
<1>17. CASE ReceiveSalts
  BY <1>17 DEF ReceiveSalts, callVars, driverVars, netVars, Receiving, Polling
<1>18. CASE Answer
  BY <1>18 DEF Answer, callVars, driverVars, netVars, Outside
<1>19. CASE SendSalts
  BY <1>19 DEF SendSalts, callVars, driverVars, netVars, Outside
<1>20. CASE Flush
  BY <1>20 DEF Flush, callVars, driverVars, netVars, Outside
<1>21. CASE Tick
  BY <1>21 DEF Tick, callVars, driverVars, netVars
<1>22. CASE SendFails
  BY <1>22, TRUE DEF SendFails, StopPending, Ending, Envelopes, Idle, callVars, driverVars, netVars, Fail
<1>23. CASE ReceiveFails
  BY <1>23, TRUE DEF ReceiveFails, StopPending, Ending, Envelopes, Idle, callVars, driverVars, netVars, Fail
<1>24. CASE UNCHANGED channelVars
  BY <1>24 DEF channelVars, callVars, driverVars, pollVars, netVars
<1>. QED
  BY <1>1, <1>2, <1>3, <1>4, <1>5, <1>6, <1>7, <1>8, <1>9, <1>10, <1>11,
     <1>12, <1>13, <1>14, <1>15, <1>16, <1>17, <1>18, <1>19, <1>20, <1>21,
     <1>22, <1>23, <1>24 DEF DriverNext, Caller, Poll, Network

\* The flags keep their types.
LEMMA FlagsStep ==
    ASSUME FlagsTypeOK, DriverNext \/ UNCHANGED channelVars
    PROVE  FlagsTypeOK'
<1>. USE DEF FlagsTypeOK
<1>1. ASSUME NEW c \in Calls, Ask(c) PROVE FlagsTypeOK'
  BY <1>1 DEF Ask, Enqueue, Reject, Admit, Wake, callVars, driverVars, netVars, Callers
<1>2. ASSUME NEW c \in Calls, AskAgain(c) PROVE FlagsTypeOK'
  BY <1>2 DEF AskAgain, Sleeping, Enqueue, Reject, Admit, Wake, callVars, driverVars, netVars, Callers
<1>3. ASSUME NEW c \in Calls, DropRequest(c) PROVE FlagsTypeOK'
  BY <1>3 DEF DropRequest, callVars, driverVars, netVars, Callers
<1>4. CASE StopHandle
  BY <1>4 DEF StopHandle, Wake, callVars, driverVars, netVars, Callers
<1>5. CASE DropDriver
  BY <1>5 DEF DropDriver, StopPending, Ending, callVars, driverVars, netVars
<1>6. CASE BeginPoll
  BY <1>6 DEF BeginPoll, StopPending, Ending, callVars, driverVars, netVars
<1>7. CASE Send
  BY <1>7 DEF Send, callVars, driverVars, netVars, Polling
<1>8. CASE Deliver
  BY <1>8 DEF Deliver, callVars, driverVars, netVars
<1>9. CASE PrepareNothing
  BY <1>9 DEF PrepareNothing, callVars, driverVars, netVars, Preparing, Polling
<1>10. CASE PrepareService
  BY <1>10 DEF PrepareService, QueueSend, callVars, driverVars, netVars, Preparing, Polling
<1>11. CASE PreparePing
  BY <1>11 DEF PreparePing, QueueSend, callVars, driverVars, netVars, Preparing, Polling
<1>12. CASE PrepareRequest
  BY <1>12 DEF PrepareRequest, QueueSend, callVars, driverVars, netVars, Preparing, Polling
<1>13. CASE PrepareTooLarge
  BY <1>13 DEF PrepareTooLarge, StopPending, Ending, callVars, driverVars, netVars, Fail
<1>14. CASE ReceiveOutcome
  BY <1>14 DEF ReceiveOutcome, callVars, driverVars, netVars, Receiving, Polling
<1>15. CASE ReceiveRetry
  BY <1>15 DEF ReceiveRetry, callVars, driverVars, netVars, Receiving, Polling
<1>16. CASE ReceiveUpdate
  BY <1>16 DEF ReceiveUpdate, callVars, driverVars, netVars, Receiving, Polling
<1>17. CASE ReceiveSalts
  BY <1>17 DEF ReceiveSalts, callVars, driverVars, netVars, Receiving, Polling
<1>18. CASE Answer
  BY <1>18 DEF Answer, callVars, driverVars, netVars, Outside
<1>19. CASE SendSalts
  BY <1>19 DEF SendSalts, callVars, driverVars, netVars, Outside
<1>20. CASE Flush
  BY <1>20 DEF Flush, callVars, driverVars, netVars, Outside
<1>21. CASE Tick
  BY <1>21 DEF Tick, callVars, driverVars, netVars
<1>22. CASE SendFails
  BY <1>22 DEF SendFails, StopPending, Ending, callVars, driverVars, netVars, Fail
<1>23. CASE ReceiveFails
  BY <1>23 DEF ReceiveFails, StopPending, Ending, callVars, driverVars, netVars, Fail
<1>24. CASE UNCHANGED channelVars
  BY <1>24 DEF channelVars, callVars, driverVars, pollVars, netVars
<1>. QED
  BY <1>1, <1>2, <1>3, <1>4, <1>5, <1>6, <1>7, <1>8, <1>9, <1>10, <1>11,
     <1>12, <1>13, <1>14, <1>15, <1>16, <1>17, <1>18, <1>19, <1>20, <1>21,
     <1>22, <1>23, <1>24 DEF DriverNext, Caller, Poll, Network

-------------------------------------------------------------------------------
(* The count of the capacity, and what a step does to the calls.           *)

\* Admitting a call that does not wait yet counts it.
LEMMA AdmitCounts ==
    ASSUME CallsTypeOK, Counted, NEW c \in Calls, c \notin Live, Admit(c)
    PROVE  Live' = Live \cup {c} /\ Counted'
<1>1. Live' = Live \cup {c}
  BY DEF Admit, Live, CallsTypeOK
<1>2. Cardinality(Live \cup {c}) = Cardinality(Live) + 1
  BY LiveFinite, FS_AddElement
<1>. QED
  BY <1>1, <1>2 DEF Admit, Counted

\* A call that is refused, or asks again only to be refused, did not wait.
LEMMA RejectCounts ==
    ASSUME CallsTypeOK, Counted, NEW c \in Calls, c \notin Live, Reject(c)
    PROVE  Live' = Live /\ Counted'
<1>1. Live' = Live
  BY DEF Reject, Live, CallsTypeOK
<1>. QED
  BY <1>1 DEF Reject, Counted

\* A call that is dropped is no longer counted.
LEMMA DropCounts ==
    ASSUME CallsTypeOK, Counted, NEW c \in Calls, DropRequest(c)
    PROVE  Live' = Live \ {c} /\ Counted'
<1>1. Live' = Live \ {c}
  BY DEF DropRequest, Live, CallsTypeOK
<1>2. /\ Cardinality(Live) \in Nat
      /\ Cardinality(Live \ {c}) = IF c \in Live THEN Cardinality(Live) - 1 ELSE Cardinality(Live)
      /\ c \in Live => Cardinality(Live) # 0
  BY LiveFinite, FS_RemoveElement, FS_EmptySet
<1>3. outstanding' = IF c \in Live THEN Minus(1) ELSE outstanding
  BY DEF DropRequest
<1>. HIDE DEF Live
<1>. QED
  BY <1>1, <1>2, <1>3 DEF Minus, Counted

\* What a step does to the calls: one is admitted or refused, one is dropped,
\* one is told its outcome, or the connection stops and tells several.
Admits(c)   == c \notin Live /\ status[c] \in {"idle", "waiting"} /\ (status[c] = "waiting" => result[c] # "none")
               /\ ~stopped /\ outstanding < Capacity /\ Admit(c) /\ UNCHANGED stopped
Rejects(c)  == c \notin Live /\ status[c] \in {"idle", "waiting"} /\ (status[c] = "waiting" => result[c] # "none")
               /\ (~stopped => outstanding >= Capacity) /\ Reject(c) /\ UNCHANGED stopped
Tells(c)    == \E outcome \in Settling : Complete({c}, outcome) /\ UNCHANGED <<status, stopped>>
Stops       == \E S \in SUBSET (Calls \cup {NoCall}) : Complete(S, "stopped") /\ stopped' = TRUE /\ UNCHANGED status
LeavesCalls == UNCHANGED <<status, result, outstanding, stopped>>

StepOfCalls == \/ \E c \in Calls : Admits(c) \/ Rejects(c) \/ DropRequest(c)
               \/ \E c \in Calls \cup {NoCall} : Tells(c)
               \/ Stops \/ LeavesCalls


\* Only calls are told that the connection stopped.
LEMMA StopsAny ==
    ASSUME NEW S, Complete(S, "stopped"), stopped' = TRUE, UNCHANGED status
    PROVE  Stops
<1>1. S \cap Live = (S \cap Calls) \cap Live
  BY DEF Live
<1>2. Complete(S \cap Calls, "stopped")
  BY <1>1 DEF Complete
<1>3. S \cap Calls \in SUBSET (Calls \cup {NoCall})
  OBVIOUS
<1>. QED
  BY <1>2, <1>3 DEF Stops

\* The driver that ends stops.
LEMMA StopPendingStops ==
    ASSUME NEW how, StopPending(how)
    PROVE  Stops
BY StopsAny DEF StopPending, Ending

\* Every step does one of these.
LEMMA StepDoesOne ==
    ASSUME CallsTypeOK, QueuesTypeOK, DriverNext \/ UNCHANGED channelVars
    PROVE  StepOfCalls
<1>1. ASSUME NEW c \in Calls, Ask(c) PROVE StepOfCalls
  <2>1. /\ c \notin Live /\ status[c] \in {"idle", "waiting"}
        /\ status[c] = "waiting" => result[c] # "none"
    BY <1>1 DEF Ask, Sleeping, Live
  <2>2. CASE stopped \/ outstanding >= Capacity
    <3>1. Reject(c) /\ UNCHANGED stopped /\ (~stopped => outstanding >= Capacity)
      BY <1>1, <2>2 DEF Ask, Enqueue
    <3>. QED
      BY <2>1, <3>1 DEF Rejects, StepOfCalls
  <2>3. CASE ~(stopped \/ outstanding >= Capacity)
    <3>1. ~stopped /\ outstanding < Capacity /\ Admit(c) /\ UNCHANGED stopped
      BY <1>1, <2>3 DEF Ask, Enqueue, CallsTypeOK
    <3>. QED
      BY <2>1, <3>1 DEF Admits, StepOfCalls
  <2>. QED
    BY <2>2, <2>3
<1>2. ASSUME NEW c \in Calls, AskAgain(c) PROVE StepOfCalls
  <2>1. /\ c \notin Live /\ status[c] \in {"idle", "waiting"}
        /\ status[c] = "waiting" => result[c] # "none"
    BY <1>2 DEF AskAgain, Sleeping, Live
  <2>2. CASE stopped \/ outstanding >= Capacity
    <3>1. Reject(c) /\ UNCHANGED stopped /\ (~stopped => outstanding >= Capacity)
      BY <1>2, <2>2 DEF AskAgain, Enqueue
    <3>. QED
      BY <2>1, <3>1 DEF Rejects, StepOfCalls
  <2>3. CASE ~(stopped \/ outstanding >= Capacity)
    <3>1. ~stopped /\ outstanding < Capacity /\ Admit(c) /\ UNCHANGED stopped
      BY <1>2, <2>3 DEF AskAgain, Enqueue, CallsTypeOK
    <3>. QED
      BY <2>1, <3>1 DEF Admits, StepOfCalls
  <2>. QED
    BY <2>2, <2>3
<1>3. ASSUME NEW c \in Calls, DropRequest(c) PROVE StepOfCalls
  BY <1>3, TRUE DEF DropRequest, StepOfCalls, LeavesCalls, callVars, driverVars, netVars, Callers
<1>4. CASE StopHandle
  BY <1>4, StopsAny DEF StopHandle, Wake, StepOfCalls, LeavesCalls, callVars, driverVars, netVars, Callers
<1>5. CASE DropDriver
  BY <1>5, StopPendingStops DEF DropDriver, StepOfCalls, LeavesCalls, callVars, driverVars, netVars
<1>6. CASE BeginPoll
  <2>1. CASE StopPending("ended")
    BY <2>1, StopPendingStops DEF StepOfCalls
  <2>2. CASE ~StopPending("ended")
    BY <1>6, <2>2 DEF BeginPoll, callVars, StepOfCalls, LeavesCalls
  <2>. QED
    BY <2>1, <2>2
<1>7. CASE Send
  BY <1>7 DEF Send, StepOfCalls, LeavesCalls, callVars, driverVars, netVars, Polling
<1>8. CASE Deliver
  BY <1>8 DEF Deliver, StepOfCalls, LeavesCalls, callVars, driverVars, netVars
<1>9. CASE PrepareNothing
  BY <1>9 DEF PrepareNothing, StepOfCalls, LeavesCalls, callVars, driverVars, netVars, Preparing, Polling
<1>10. CASE PrepareService
  BY <1>10 DEF PrepareService, QueueSend, StepOfCalls, LeavesCalls, callVars, driverVars, netVars, Preparing, Polling
<1>11. CASE PreparePing
  BY <1>11 DEF PreparePing, QueueSend, StepOfCalls, LeavesCalls, callVars, driverVars, netVars, Preparing, Polling
<1>12. CASE PrepareRequest
  BY <1>12 DEF PrepareRequest, QueueSend, StepOfCalls, LeavesCalls, callVars, driverVars, netVars, Preparing, Polling
<1>13. CASE PrepareTooLarge
  BY <1>13, StopPendingStops DEF PrepareTooLarge, StepOfCalls, LeavesCalls, callVars, driverVars, netVars, Fail
<1>14. CASE ReceiveOutcome
  BY <1>14, ArrivalType DEF ReceiveOutcome, StepOfCalls, LeavesCalls, Tells, callVars, driverVars, netVars, Receiving, Polling
<1>15. CASE ReceiveRetry
  BY <1>15, ArrivalType DEF ReceiveRetry, StepOfCalls, LeavesCalls, Tells, Settling, callVars, driverVars, netVars, Receiving, Polling
<1>16. CASE ReceiveUpdate
  BY <1>16 DEF ReceiveUpdate, StepOfCalls, LeavesCalls, callVars, driverVars, netVars, Receiving, Polling
<1>17. CASE ReceiveSalts
  BY <1>17 DEF ReceiveSalts, StepOfCalls, LeavesCalls, callVars, driverVars, netVars, Receiving, Polling
<1>18. CASE Answer
  BY <1>18 DEF Answer, StepOfCalls, LeavesCalls, callVars, driverVars, netVars, Outside
<1>19. CASE SendSalts
  BY <1>19 DEF SendSalts, StepOfCalls, LeavesCalls, callVars, driverVars, netVars, Outside
<1>20. CASE Flush
  BY <1>20 DEF Flush, StepOfCalls, LeavesCalls, callVars, driverVars, netVars, Outside
<1>21. CASE Tick
  BY <1>21 DEF Tick, StepOfCalls, LeavesCalls, callVars, driverVars, netVars
<1>22. CASE SendFails
  BY <1>22, StopPendingStops DEF SendFails, StepOfCalls, LeavesCalls, callVars, driverVars, netVars, Fail
<1>23. CASE ReceiveFails
  BY <1>23, StopPendingStops DEF ReceiveFails, StepOfCalls, LeavesCalls, callVars, driverVars, netVars, Fail
<1>24. CASE UNCHANGED channelVars
  BY <1>24 DEF channelVars, callVars, driverVars, pollVars, netVars, StepOfCalls, LeavesCalls
<1>. QED
  BY <1>1, <1>2, <1>3, <1>4, <1>5, <1>6, <1>7, <1>8, <1>9, <1>10, <1>11,
     <1>12, <1>13, <1>14, <1>15, <1>16, <1>17, <1>18, <1>19, <1>20, <1>21,
     <1>22, <1>23, <1>24 DEF DriverNext, Caller, Poll, Network

\* What is left of these steps is what a promise may do.
LEMMA CountedStep ==
    ASSUME CallsTypeOK, Counted, StepOfCalls
    PROVE  Counted'
<1>1. ASSUME NEW c \in Calls, Admits(c) PROVE Counted'
  BY <1>1, AdmitCounts DEF Admits
<1>2. ASSUME NEW c \in Calls, Rejects(c) PROVE Counted'
  BY <1>2, RejectCounts DEF Rejects
<1>3. ASSUME NEW c \in Calls, DropRequest(c) PROVE Counted'
  BY <1>3, DropCounts
<1>4. ASSUME NEW c \in Calls \cup {NoCall}, Tells(c) PROVE Counted'
  <2>1. PICK outcome \in Settling : Complete({c}, outcome) /\ UNCHANGED status
    BY <1>4 DEF Tells
  <2>2. outcome # "none"
    BY DEF Settling
  <2>. QED
    BY <2>1, <2>2, CompleteCounts
<1>5. CASE Stops
  <2>1. PICK S : Complete(S, "stopped") /\ UNCHANGED status
    BY <1>5 DEF Stops
  <2>. QED
    BY <2>1, CompleteCounts
<1>6. CASE LeavesCalls
  BY <1>6 DEF LeavesCalls, Counted, Live
<1>. QED
  BY <1>1, <1>2, <1>3, <1>4, <1>5, <1>6 DEF StepOfCalls

-------------------------------------------------------------------------------
(* The invariant.                                                          *)

\* The driver starts well typed, with nothing counted.
LEMMA InvInit ==
    ASSUME DriverInit
    PROVE  DriverInv
<1>1. CallsTypeOK
  BY DEF DriverInit, CallsTypeOK
<1>2. QueuesTypeOK
  BY DEF DriverInit, QueuesTypeOK
<1>3. PollTypeOK
  BY DEF DriverInit, PollTypeOK
<1>4. FlagsTypeOK
  BY DEF DriverInit, FlagsTypeOK
<1>5. Counted
  <2>1. Live = {}
    BY DEF DriverInit, Live
  <2>. QED
    BY <2>1, FS_EmptySet DEF DriverInit, Counted
<1>. QED
  BY <1>1, <1>2, <1>3, <1>4, <1>5 DEF DriverInv, DriverTypeOK

\* Every step keeps the invariant.
LEMMA InvStep ==
    ASSUME DriverInv, [DriverNext]_channelVars
    PROVE  DriverInv'
<1>1. CallsTypeOK /\ QueuesTypeOK /\ PollTypeOK /\ FlagsTypeOK /\ Counted
  BY DEF DriverInv, DriverTypeOK
<1>2. StepOfCalls
  BY <1>1, StepDoesOne
<1>3. CallsTypeOK' /\ QueuesTypeOK' /\ PollTypeOK' /\ FlagsTypeOK'
  BY <1>1, CallsStep, QueuesStep, PollStep, FlagsStep
<1>4. Counted'
  BY <1>1, <1>2, CountedStep
<1>. QED
  BY <1>3, <1>4 DEF DriverInv, DriverTypeOK

\* The state of the driver keeps its types, and the capacity counts just the
\* calls that wait: Shared.outstanding follows cancellations, retries, stops.
THEOREM DriverInvariant == DriverSpec => []DriverInv
<1>1. DriverInit => DriverInv
  BY InvInit
<1>2. DriverInv /\ [DriverNext]_channelVars => DriverInv'
  BY InvStep
<1>. QED
  BY <1>1, <1>2, PTL DEF DriverSpec

\* The state of the driver keeps its types: outstanding never exceeds the
\* capacity and never falls below zero, attempts stay within their bound.
THEOREM DriverTypeCorrect == DriverSpec => []DriverTypeOK
<1>1. DriverInv => DriverTypeOK
  BY DEF DriverInv
<1>. QED
  BY <1>1, DriverInvariant, PTL

-------------------------------------------------------------------------------
(* The refinement of RpcPromise.                                           *)

\* The calls the promise waits for are the live ones.
LEMMA WaitingIsLive ==
    ASSUME CallsTypeOK
    PROVE  Promise!Waiting = Live
BY DEF Promise!Waiting, Live, Stage, CallsTypeOK

\* The promise counts as the driver does.
LEMMA SameCount == \A S : Promise!Cardinality(S) = Cardinality(S)
BY Zenon DEF Promise!Cardinality, Cardinality

\* The driver starts where its promise starts.
LEMMA PromiseStarts ==
    ASSUME DriverInit
    PROVE  Promise!PromiseInit
<1>1. (~stopped) = TRUE
  BY DEF DriverInit
<1>2. [c \in Calls |-> Stage(c)] = [c \in Calls |-> "idle"]
  BY DEF DriverInit, Stage
<1>. QED
  BY <1>1, <1>2 DEF Promise!PromiseInit

\* Every step of the driver is a step of its promise, or leaves it unchanged.
LEMMA PromiseStep ==
    ASSUME DriverInv, StepOfCalls
    PROVE  [Promise!PromiseNext]_Promise!promiseVars
<1>. DEFINE stage == [c \in Calls |-> Stage(c)]
<1>0. CallsTypeOK /\ Counted /\ Promise!Waiting = Live /\ outstanding = Cardinality(Promise!Waiting)
  BY WaitingIsLive DEF DriverInv, DriverTypeOK, Counted
<1>1. ASSUME NEW c \in Calls, Admits(c) PROVE Promise!Accept(c)
  <2>1. stage' = [stage EXCEPT ![c] = "waiting"]
    BY <1>0, <1>1 DEF Admits, Admit, Stage, CallsTypeOK
  <2>2. stage[c] \in {"idle", "settled"}
    BY <1>0, <1>1 DEF Admits, Stage, Live
  <2>3. ~stopped /\ (~stopped)' = (~stopped) /\ outstanding < Capacity
    BY <1>1 DEF Admits
  <2>4. Cardinality(Promise!Waiting) < Capacity
    BY <1>0, <2>3
  <2>. QED
    BY <2>1, <2>2, <2>3, <2>4, SameCount, Zenon DEF Promise!Accept
<1>2. ASSUME NEW c \in Calls, Rejects(c) PROVE Promise!Refuse(c)
  <2>1. stage' = [stage EXCEPT ![c] = "refused"]
    BY <1>0, <1>2 DEF Rejects, Reject, Stage, CallsTypeOK
  <2>2. stage[c] \in {"idle", "settled"}
    BY <1>0, <1>2 DEF Rejects, Stage, Live
  <2>3. (~stopped)' = (~stopped) /\ (~stopped => outstanding >= Capacity)
    BY <1>2 DEF Rejects
  <2>4. ~stopped => Cardinality(Promise!Waiting) >= Capacity
    BY <1>0, <2>3
  <2>. QED
    BY <2>1, <2>2, <2>3, <2>4, SameCount, Zenon DEF Promise!Refuse
<1>3. ASSUME NEW c \in Calls, DropRequest(c) PROVE Promise!Abandon(c)
  <2>1. stage' = [stage EXCEPT ![c] = "dropped"]
    BY <1>0, <1>3 DEF DropRequest, Stage, CallsTypeOK
  <2>2. stage[c] \in {"waiting", "settled"}
    BY <1>0, <1>3 DEF DropRequest, Sleeping, Stage, Live
  <2>3. (~stopped)' = (~stopped)
    BY <1>3 DEF DropRequest
  <2>. QED
    BY <2>1, <2>2, <2>3 DEF Promise!Abandon
<1>4. ASSUME NEW c \in Calls \cup {NoCall}, Tells(c)
      PROVE  (c \in Live /\ Promise!Settle(c)) \/ UNCHANGED Promise!promiseVars
  <2>1. PICK outcome \in Settling : Complete({c}, outcome) /\ UNCHANGED <<status, stopped>>
    BY <1>4 DEF Tells
  <2>2. outcome # "none"
    BY DEF Settling
  <2>3. (~stopped)' = (~stopped)
    BY <2>1
  <2>4. CASE c \in Live
    <3>1. stage' = [stage EXCEPT ![c] = "settled"]
      BY <1>0, <2>1, <2>2, <2>4 DEF Complete, Live, Stage, CallsTypeOK
    <3>2. stage[c] = "waiting"
      BY <2>4 DEF Live, Stage
    <3>. QED
      BY <2>3, <2>4, <3>1, <3>2 DEF Promise!Settle
  <2>5. CASE c \notin Live
    <3>1. stage' = stage
      BY <1>0, <2>1, <2>5 DEF Complete, Stage, CallsTypeOK
    <3>. QED
      BY <2>3, <3>1 DEF Promise!promiseVars
  <2>. QED
    BY <2>4, <2>5
<1>5. CASE Stops
  <2>1. PICK S \in SUBSET (Calls \cup {NoCall}) :
            Complete(S, "stopped") /\ stopped' = TRUE /\ UNCHANGED status
    BY <1>5 DEF Stops
  <2>2. S \cap Live \in SUBSET Promise!Waiting
    BY <1>0
  <2>3. stage' = [c \in Calls |-> IF c \in S \cap Live THEN "settled" ELSE stage[c]]
    BY <1>0, <2>1 DEF Complete, Live, Stage, CallsTypeOK
  <2>4. (~stopped)' = FALSE
    BY <2>1
  <2>. QED
    BY <2>2, <2>3, <2>4 DEF Promise!Close, Promise!PromiseNext
<1>6. CASE LeavesCalls
  <2>1. stage' = stage
    BY <1>6 DEF LeavesCalls, Stage
  <2>2. (~stopped)' = (~stopped)
    BY <1>6 DEF LeavesCalls
  <2>. QED
    BY <2>1, <2>2 DEF Promise!promiseVars
<1>7. Live \subseteq Calls
  BY DEF Live
<1>. QED
  BY <1>1, <1>2, <1>3, <1>4, <1>5, <1>6, <1>7 DEF StepOfCalls, Promise!PromiseNext

\* The driver implements RpcPromise: bounded waiting, at most one outcome for
\* each call, none accepted once closed.  driver/invocation.rs, driver/mod.rs.
THEOREM DriverKeepsRpcPromise == DriverSpec => KeepsRpcPromise
<1>1. DriverInit => Promise!PromiseInit
  BY PromiseStarts
<1>2. DriverInv /\ [DriverNext]_channelVars => [Promise!PromiseNext]_Promise!promiseVars
  <2>1. ASSUME DriverInv, [DriverNext]_channelVars
        PROVE  [Promise!PromiseNext]_Promise!promiseVars
    <3>1. CallsTypeOK /\ QueuesTypeOK
      BY <2>1 DEF DriverInv, DriverTypeOK
    <3>2. StepOfCalls
      BY <2>1, <3>1, StepDoesOne
    <3>. QED
      BY <2>1, <3>2, PromiseStep
  <2>. QED
    BY <2>1
<1>. QED
  BY <1>1, <1>2, DriverInvariant, PTL DEF DriverSpec, KeepsRpcPromise, Promise!PromiseSpec

-------------------------------------------------------------------------------
(* Where a call is held, and how often it was sent.                        *)

Inside(queue, c) == \E i \in DOMAIN queue : queue[i] = c

Once(queue, c) == \A i, j \in DOMAIN queue : queue[i] = c /\ queue[j] = c => i = j

\* To be sent, for the first time or again.
Queued(c) == Inside(requests, c) \/ Inside(retries, c) \/ pending = c

\* No two places hold the call.
Single(c) == /\ Once(requests, c) /\ Once(retries, c) /\ Once(inFlight, c)
             /\ Inside(requests, c) => ~Inside(retries, c) /\ pending # c
             /\ Inside(retries, c) => pending # c
             /\ Queued(c) => ~Inside(inFlight, c)

\* No invocation of the call is under way.
Over(c) == status[c] \in {"idle", "refused"} \/ (status[c] = "waiting" /\ result[c] # "none")

\* A call that waits is in one place; one that was told its outcome is in none;
\* a dropped one may be left in its place.
Kept(c) == /\ Single(c)
           /\ c \in Live => Queued(c) \/ Inside(inFlight, c)
           /\ Over(c) => ~Queued(c) /\ ~Inside(inFlight, c)

Held == \A c \in Calls : Kept(c)

\* Message identifiers are given out in order, and only those are in flight.
Numbered == /\ \E k \in 0..MaxMessages : {m \in Messages : carried[m] # NoCall} = 1..k
            /\ \A m \in Messages : inFlight[m] # NoCall => carried[m] # NoCall

\* A call was sent once for each retry, and once more unless it is to be sent.
SentFor(c) == /\ Sends(c) <= attempts[c] + (IF Queued(c) THEN 0 ELSE 1)
              /\ status[c] = "idle" => Sends(c) = 0

HeldInv == DriverInv /\ Held /\ Numbered /\ \A c \in Calls \ Patient : SentFor(c)

-------------------------------------------------------------------------------
(* What the operators on queues do.                                        *)

\* A queue holds what it held and what is appended.
LEMMA AppendHolds ==
    ASSUME NEW queue \in Seq(Calls), NEW d \in Calls, NEW c \in Calls
    PROVE  /\ Inside(Append(queue, d), c) <=> Inside(queue, c) \/ c = d
           /\ Once(queue, c) /\ (c = d => ~Inside(queue, c)) => Once(Append(queue, d), c)
<1>1. /\ Len(queue) \in Nat /\ DOMAIN queue = 1..Len(queue)
      /\ DOMAIN Append(queue, d) = 1..(Len(queue) + 1)
      /\ \A i \in 1..Len(queue) : Append(queue, d)[i] = queue[i]
      /\ Append(queue, d)[Len(queue) + 1] = d
  BY AppendProperties, LenProperties
<1>2. Inside(Append(queue, d), c) <=> Inside(queue, c) \/ c = d
  <2>1. \A i \in DOMAIN Append(queue, d) : i \in DOMAIN queue \/ i = Len(queue) + 1
    BY <1>1
  <2>2. Len(queue) + 1 \in DOMAIN Append(queue, d) /\ DOMAIN queue \subseteq DOMAIN Append(queue, d)
    BY <1>1
  <2>. QED
    BY <1>1, <2>1, <2>2 DEF Inside
<1>3. ASSUME Once(queue, c), c = d => ~Inside(queue, c) PROVE Once(Append(queue, d), c)
  BY <1>1, <1>3 DEF Once, Inside
<1>. QED
  BY <1>2, <1>3

\* What is left of a queue are its members beyond the given position.
LEMMA AfterHolds ==
    ASSUME NEW queue \in Seq(Calls), NEW n \in Int, NEW c \in Calls
    PROVE  /\ Inside(After(queue, n), c) <=> \E i \in DOMAIN queue : i > n /\ queue[i] = c
           /\ Once(queue, c) => Once(After(queue, n), c)
<1>1. Len(queue) \in Nat /\ DOMAIN queue = 1..Len(queue)
  BY LenProperties
<1>2. CASE n > 0
  <2>. DEFINE rest == SubSeq(queue, n + 1, Len(queue))
  <2>1. After(queue, n) = rest
    BY <1>2 DEF After
  <2>2. /\ DOMAIN rest = 1..(IF n + 1 <= Len(queue) THEN Len(queue) - n ELSE 0)
        /\ \A i \in 1..(Len(queue) - n) : rest[i] = queue[i + n]
    <3>1. \A i \in (n + 1)..Len(queue) : queue[i] \in Calls
      BY <1>1, <1>2, ElementOfSeq
    <3>2. n + 1 \in Int /\ Len(queue) \in Int
      BY <1>1
    <3>3. /\ rest \in Seq(Calls)
          /\ Len(rest) = IF n + 1 <= Len(queue) THEN Len(queue) - (n + 1) + 1 ELSE 0
          /\ \A i \in 1..(Len(queue) - (n + 1) + 1) : rest[i] = queue[(n + 1) + i - 1]
      BY <3>1, <3>2, SubSeqProperties
    <3>4. DOMAIN rest = 1..Len(rest)
      BY <3>3, LenProperties
    <3>5. ASSUME NEW i \in 1..(Len(queue) - n) PROVE rest[i] = queue[i + n]
      <4>1. i \in 1..(Len(queue) - (n + 1) + 1) /\ (n + 1) + i - 1 = i + n
        BY <1>1
      <4>. QED
        BY <3>3, <4>1
    <3>6. Len(queue) - (n + 1) + 1 = Len(queue) - n
      BY <1>1
    <3>. QED
      BY <3>3, <3>4, <3>5, <3>6
  <2>. HIDE DEF rest
  <2>3. \A i \in DOMAIN rest : i + n \in DOMAIN queue /\ rest[i] = queue[i + n]
    BY <1>1, <1>2, <2>2
  <2>4. \A i \in DOMAIN queue : i > n => i - n \in DOMAIN rest /\ rest[i - n] = queue[i]
    BY <1>1, <1>2, <2>2
  <2>5. \A i \in DOMAIN rest : i \in Int /\ i > 0
    BY <1>1, <1>2, <2>2
  <2>6. Inside(rest, c) <=> \E i \in DOMAIN queue : i > n /\ queue[i] = c
    <3>1. ASSUME NEW i \in DOMAIN rest, rest[i] = c PROVE \E j \in DOMAIN queue : j > n /\ queue[j] = c
      BY <2>3, <2>5, <3>1
    <3>2. ASSUME NEW j \in DOMAIN queue, j > n, queue[j] = c PROVE Inside(rest, c)
      BY <2>4, <3>2 DEF Inside
    <3>. QED
      BY <3>1, <3>2 DEF Inside
  <2>7. ASSUME Once(queue, c), NEW i \in DOMAIN rest, NEW j \in DOMAIN rest, rest[i] = c, rest[j] = c
        PROVE  i = j
    <3>1. i + n = j + n
      BY <2>3, <2>7 DEF Once
    <3>. QED
      BY <2>5, <3>1
  <2>. QED
    BY <2>1, <2>6, <2>7 DEF Once
<1>3. CASE ~(n > 0)
  <2>1. After(queue, n) = queue
    BY <1>3 DEF After
  <2>2. \A i \in DOMAIN queue : i > n
    BY <1>1, <1>3
  <2>. QED
    BY <2>1, <2>2 DEF Inside
<1>. QED
  BY <1>2, <1>3

\* No call before the position of the first that waits is waiting.
LEMMA FirstLiveIs ==
    ASSUME NEW queue \in Seq(Calls)
    PROVE  /\ FirstLive(queue) \in 1..(Len(queue) + 1)
           /\ \A i \in 1..Len(queue) : queue[i] \in Live => FirstLive(queue) <= i
           /\ FirstLive(queue) <= Len(queue) => queue[FirstLive(queue)] \in Live
<1>. DEFINE unanswered == {i \in 1..Len(queue) : queue[i] \in Live}
<1>0. FirstLive(queue) \in 1..(Len(queue) + 1) /\ Len(queue) \in Nat
  BY FirstLiveType
<1>1. CASE unanswered = {}
  <2>1. FirstLive(queue) = Len(queue) + 1
    BY <1>1 DEF FirstLive
  <2>. QED
    BY <1>0, <1>1, <2>1
<1>2. CASE unanswered # {}
  <2>0. unanswered \in SUBSET Nat
    OBVIOUS
  <2>1. \E i \in unanswered : \A j \in unanswered : i <= j
    BY <1>2, <2>0, LeastNumber
  <2>2. FirstLive(queue) \in unanswered /\ \A j \in unanswered : FirstLive(queue) <= j
    BY <1>2, <2>1 DEF FirstLive
  <2>. QED
    BY <1>0, <2>2
<1>. QED
  BY <1>1, <1>2

\* What prepare_outgoing leaves in the queues: all that waits, but the request
\* it takes.
LEMMA TakenHolds ==
    ASSUME QueuesTypeOK, Taken, NEW c \in Calls, Single(c)
    PROVE  /\ Once(requests', c) /\ Once(retries', c)
           /\ Inside(requests', c) => Inside(requests, c)
           /\ Inside(retries', c) => Inside(retries, c)
           /\ Request = c => /\ Queued(c)
                             /\ ~Inside(requests', c) /\ ~Inside(retries', c)
           /\ pending = c => Request = c
           /\ c \in Live /\ Queued(c) => Inside(requests', c) \/ Inside(retries', c) \/ Request = c
<1>. DEFINE both == retries \o requests
            n == Position
<1>0. retries \in Seq(Calls) /\ requests \in Seq(Calls) /\ c # NoCall
  BY DEF QueuesTypeOK
<1>1. CASE ~Takes
  <2>1. requests' = requests /\ retries' = retries /\ Request = pending
    BY <1>1 DEF Taken, Request
  <2>. QED
    BY <2>1 DEF Single, Queued
<1>2. CASE Takes
  <2>1. /\ Len(retries) \in Nat /\ DOMAIN retries = 1..Len(retries)
        /\ Len(requests) \in Nat /\ DOMAIN requests = 1..Len(requests)
    BY <1>0, LenProperties
  <2>2. /\ both \in Seq(Calls) /\ Len(both) = Len(retries) + Len(requests)
        /\ \A i \in 1..Len(both) : both[i] = IF i <= Len(retries) THEN retries[i]
                                             ELSE requests[i - Len(retries)]
    BY <1>0, ConcatProperties
  <2>3. /\ n \in 1..(Len(both) + 1)
        /\ \A i \in 1..Len(both) : both[i] \in Live => n <= i
    BY <2>2, FirstLiveIs DEF Position
  <2>4. /\ retries' = After(retries, n) /\ requests' = After(requests, n - Len(retries))
        /\ Request = IF n <= Len(both) THEN both[n] ELSE NoCall
        /\ pending = NoCall
    BY <1>2 DEF Taken, Request, Takes
  <2>. HIDE DEF n, both
  <2>5. n \in Int /\ n - Len(retries) \in Int
    BY <2>1, <2>2, <2>3
  <2>6. /\ Once(requests', c) /\ Once(retries', c)
        /\ Inside(retries', c) <=> \E i \in DOMAIN retries : i > n /\ retries[i] = c
        /\ Inside(requests', c) <=> \E i \in DOMAIN requests : i > n - Len(retries) /\ requests[i] = c
    BY <1>0, <2>4, <2>5, AfterHolds DEF Single
  <2>7. /\ Inside(retries', c) => Inside(retries, c)
        /\ Inside(requests', c) => Inside(requests, c)
        /\ Once(requests', c) /\ Once(retries', c) /\ pending # c
    BY <1>0, <2>4, <2>6 DEF Inside
  <2>8. \A i \in DOMAIN retries : i \in 1..Len(both) /\ both[i] = retries[i]
    BY <2>1, <2>2
  <2>9. ASSUME NEW i \in DOMAIN requests
        PROVE  i + Len(retries) \in 1..Len(both) /\ both[i + Len(retries)] = requests[i]
    <3>1. i + Len(retries) \in 1..Len(both) /\ ~(i + Len(retries) <= Len(retries))
          /\ (i + Len(retries)) - Len(retries) = i
      BY <2>1, <2>2
    <3>. QED
      BY <2>2, <3>1
  <2>10. CASE Request = c
    <3>1. n <= Len(both) /\ both[n] = c
      BY <1>0, <2>4, <2>10
    <3>2. CASE n <= Len(retries)
      <4>1. n \in DOMAIN retries /\ retries[n] = c
        BY <2>1, <2>2, <2>3, <3>1, <3>2
      <4>2. Inside(retries, c) /\ ~Inside(requests, c)
        BY <4>1 DEF Inside, Single
      <4>3. ~Inside(retries', c)
        BY <2>1, <2>6, <4>1, <2>5 DEF Single, Once
      <4>. QED
        BY <2>10, <2>7, <4>2, <4>3 DEF Queued
    <3>3. CASE n > Len(retries)
      <4>. DEFINE k == n - Len(retries)
      <4>1. k \in DOMAIN requests /\ requests[k] = c
        BY <2>1, <2>2, <2>3, <3>1, <3>3
      <4>2. Inside(requests, c) /\ ~Inside(retries, c)
        BY <4>1 DEF Inside, Single
      <4>3. ~Inside(requests', c)
        BY <2>1, <2>6, <4>1, <2>5 DEF Single, Once
      <4>. QED
        BY <2>10, <2>7, <4>2, <4>3 DEF Queued
    <3>. QED
      BY <2>1, <2>5, <3>2, <3>3
  <2>11. CASE Request # c
    <3>1. ASSUME c \in Live, Inside(retries, c) PROVE Inside(retries', c)
      <4>1. PICK i \in DOMAIN retries : retries[i] = c
        BY <3>1 DEF Inside
      <4>2. n <= i
        BY <2>3, <2>8, <3>1, <4>1
      <4>3. n # i
        BY <2>3, <2>4, <2>8, <2>11, <4>1
      <4>. QED
        BY <2>1, <2>5, <2>6, <4>1, <4>2, <4>3
    <3>2. ASSUME c \in Live, Inside(requests, c) PROVE Inside(requests', c)
      <4>1. PICK i \in DOMAIN requests : requests[i] = c
        BY <3>2 DEF Inside
      <4>2. i + Len(retries) \in 1..Len(both) /\ both[i + Len(retries)] = c
        BY <2>9, <4>1
      <4>3. n <= i + Len(retries)
        BY <2>3, <3>2, <4>2
      <4>4. n # i + Len(retries)
        BY <2>3, <2>4, <2>11, <4>2
      <4>. QED
        BY <2>1, <2>5, <2>6, <4>1, <4>3, <4>4
    <3>. QED
      BY <2>11, <2>7, <3>1, <3>2 DEF Queued
  <2>. QED
    BY <2>10, <2>11
<1>. QED
  BY <1>1, <1>2

\* A result takes its call out of those in flight.
LEMMA RemovedHolds ==
    ASSUME QueuesTypeOK, arrived # <<>>, NEW c \in Calls, Once(inFlight, c)
    PROVE  /\ Once(Removed, c)
           /\ Inside(Removed, c) <=> Inside(inFlight, c) /\ Owner # c
           /\ Owner = c => Inside(inFlight, c)
           /\ \A m \in Messages : Removed[m] # NoCall => inFlight[m] # NoCall
<1>1. Message \in Messages \cup {0} /\ inFlight \in [Messages -> Calls \cup {NoCall}] /\ c # NoCall
  BY ArrivalType DEF QueuesTypeOK
<1>2. /\ DOMAIN Removed = Messages /\ DOMAIN inFlight = Messages
      /\ \A m \in Messages : Removed[m] = IF m = Message THEN NoCall ELSE inFlight[m]
  BY <1>1 DEF Removed
<1>3. 0 \notin Messages
  BY DEF Messages
<1>4. Owner = IF Message = 0 THEN NoCall ELSE inFlight[Message]
  BY DEF Owner
<1>5. Once(Removed, c) /\ \A m \in Messages : Removed[m] # NoCall => inFlight[m] # NoCall
  BY <1>1, <1>2 DEF Once
<1>6. Owner = c => Message \in Messages /\ inFlight[Message] = c
  BY <1>1, <1>4
<1>7. ASSUME Inside(Removed, c) PROVE Inside(inFlight, c) /\ Owner # c
  <2>1. PICK m \in Messages : m # Message /\ inFlight[m] = c
    BY <1>1, <1>2, <1>7 DEF Inside
  <2>2. Owner # c
    BY <1>2, <1>6, <2>1 DEF Once
  <2>. QED
    BY <1>2, <2>1, <2>2 DEF Inside
<1>8. ASSUME Inside(inFlight, c), Owner # c PROVE Inside(Removed, c)
  <2>1. PICK m \in Messages : inFlight[m] = c
    BY <1>2, <1>8 DEF Inside
  <2>2. m # Message
    BY <1>3, <1>4, <1>8, <2>1
  <2>. QED
    BY <1>2, <2>1, <2>2 DEF Inside
<1>9. Owner = c => Inside(inFlight, c)
  BY <1>2, <1>6 DEF Inside
<1>. QED
  BY <1>5, <1>7, <1>8, <1>9

\* The next message identifier has not been used.
LEMMA NextIsFree ==
    ASSUME QueuesTypeOK, Numbered, NextMessage \in Messages
    PROVE  /\ carried[NextMessage] = NoCall /\ inFlight[NextMessage] = NoCall
           /\ NextMessage \in 1..MaxMessages
           /\ {m \in Messages : carried[m] # NoCall} = 1..(NextMessage - 1)
<1>. DEFINE used == {m \in Messages : carried[m] # NoCall}
<1>1. PICK k \in 0..MaxMessages : used = 1..k
  BY DEF Numbered
<1>2. NextMessage = 1 + Cardinality(used)
  BY DEF NextMessage
<1>. HIDE DEF used
<1>3. NextMessage = k + 1
  <2>1. Cardinality(1..k) = k
    BY <1>1, FS_Interval
  <2>. QED
    BY <1>1, <1>2, <2>1
<1>4. NextMessage \notin 1..k /\ NextMessage - 1 = k
  BY <1>1, <1>3
<1>. QED
  BY <1>1, <1>4 DEF Numbered, Messages, used

\* It is used for the request that is sent.
LEMMA NumberedOnward ==
    ASSUME QueuesTypeOK, Numbered, NextMessage \in Messages, NEW c \in Calls,
           carried' = [carried EXCEPT ![NextMessage] = c],
           inFlight' = [inFlight EXCEPT ![NextMessage] = c]
    PROVE  Numbered'
<1>. DEFINE n == NextMessage
<1>1. /\ n \in 1..MaxMessages
      /\ {m \in Messages : carried[m] # NoCall} = 1..(n - 1)
  BY NextIsFree
<1>2. c # NoCall /\ \A m \in Messages : /\ carried'[m] = IF m = n THEN c ELSE carried[m]
                                        /\ inFlight'[m] = IF m = n THEN c ELSE inFlight[m]
  BY DEF QueuesTypeOK
<1>3. n \in Messages
  OBVIOUS
<1>. HIDE DEF n
<1>4. {m \in Messages : carried'[m] # NoCall} = {m \in Messages : carried[m] # NoCall} \cup {n}
  BY <1>2, <1>3
<1>5. 1..n = (1..(n - 1)) \cup {n} /\ n \in 0..MaxMessages
  BY <1>1
<1>6. {m \in Messages : carried'[m] # NoCall} = 1..n
  BY <1>1, <1>4, <1>5
<1>7. \A m \in Messages : inFlight'[m] # NoCall => carried'[m] # NoCall
  BY <1>2 DEF Numbered
<1>. QED
  BY <1>5, <1>6, <1>7 DEF Numbered

-------------------------------------------------------------------------------
(* Every step keeps a call in its place.                                   *)

Waiting(c) == status[c] = "waiting" /\ result[c] = "none"

LEMMA LiveIsWaiting ==
    ASSUME NEW c \in Calls
    PROVE  c \in Live <=> Waiting(c)
BY DEF Live, Waiting

\* A call is where it was as long as neither the places nor what it was told
\* changes.
LEMMA KeptWhereItWas ==
    ASSUME NEW c \in Calls, Kept(c), UNCHANGED <<requests, retries, inFlight, pending>>,
           status'[c] = status[c], result'[c] = result[c]
    PROVE  Kept(c)'
<1>1. (Queued(c)' <=> Queued(c)) /\ (Single(c)' <=> Single(c))
  BY DEF Queued, Single
<1>2. (Over(c)' <=> Over(c)) /\ (Waiting(c)' <=> Waiting(c))
  BY DEF Over, Waiting
<1>3. (c \in Live)' <=> c \in Live
  BY <1>2 DEF Live, Waiting
<1>4. Inside(inFlight, c)' <=> Inside(inFlight, c)
  BY DEF Inside
<1>. QED
  BY <1>1, <1>2, <1>3, <1>4 DEF Kept

\* The driver that ends leaves no call in any place, and none waits.
LEMMA KeptAtEnd ==
    ASSUME CallsTypeOK, QueuesTypeOK, NEW c \in Calls, Kept(c), NEW how, StopPending(how)
    PROVE  Kept(c)'
<1>1. /\ requests' = <<>> /\ retries' = <<>> /\ pending' = NoCall
      /\ inFlight' = [m \in Messages |-> NoCall] /\ c # NoCall
      /\ status' = status
  BY DEF StopPending, Ending
<1>2. ~Queued(c)' /\ ~Inside(inFlight, c)'
  BY <1>1 DEF Queued, Inside
<1>3. Single(c)'
  BY <1>1, <1>2 DEF Single, Once, Queued, Inside
<1>. DEFINE told == {pending} \cup Range(retries) \cup Range(inFlight) \cup Range(requests)
<1>4. c \in Live => c \in told
  BY DEF Kept, Queued, Inside, Range
<1>5. Complete(told, "stopped")
  BY DEF StopPending
<1>. HIDE DEF told
<1>6. (c \notin Live)'
  BY <1>1, <1>4, <1>5 DEF Complete, Live, CallsTypeOK
<1>. QED
  BY <1>2, <1>3, <1>6 DEF Kept

\* A request is admitted once its last invocation is over.
LEMMA KeptAsked ==
    ASSUME CallsTypeOK, QueuesTypeOK, NEW c \in Calls, Kept(c),
           NEW d \in Calls, Ask(d) \/ AskAgain(d)
    PROVE  Kept(c)'
<1>1. UNCHANGED <<pending, retries, inFlight>> /\ (Reject(d) \/ Admit(d)) /\ Over(d)
  BY DEF Ask, AskAgain, Enqueue, Callers, driverVars, Sleeping, Over
<1>2. CASE Reject(d)
  <2>1. UNCHANGED <<requests, retries, inFlight, pending>> /\ result' = result
        /\ status' = [status EXCEPT ![d] = "refused"]
    BY <1>1, <1>2 DEF Reject
  <2>2. CASE c = d
    <3>1. ~Queued(c) /\ ~Inside(inFlight, c)
      BY <1>1, <2>2 DEF Kept
    <3>2. (~Queued(c) /\ ~Inside(inFlight, c) /\ Single(c))'
      BY <2>1, <3>1 DEF Queued, Single, Kept
    <3>3. (c \notin Live)'
      BY <2>1, <2>2 DEF Live, CallsTypeOK
    <3>. QED
      BY <3>2, <3>3 DEF Kept
  <2>3. CASE c # d
    <3>1. status'[c] = status[c] /\ result'[c] = result[c]
      BY <2>1, <2>3 DEF CallsTypeOK
    <3>. QED
      BY <2>1, <3>1, KeptWhereItWas
  <2>. QED
    BY <2>2, <2>3
<1>3. CASE Admit(d)
  <2>1. /\ UNCHANGED <<retries, inFlight, pending>> /\ requests' = Append(requests, d)
        /\ status' = [status EXCEPT ![d] = "waiting"] /\ result' = [result EXCEPT ![d] = "none"]
    BY <1>1, <1>3 DEF Admit
  <2>2. /\ Inside(requests', c) <=> Inside(requests, c) \/ c = d
        /\ Once(requests, c) /\ (c = d => ~Inside(requests, c)) => Once(requests', c)
    BY <2>1, AppendHolds DEF QueuesTypeOK
  <2>3. CASE c = d
    <3>1. Single(c) /\ ~Queued(c) /\ ~Inside(inFlight, c)
      BY <1>1, <2>3 DEF Kept
    <3>2. Single(c)' /\ Queued(c)'
      BY <2>1, <2>2, <2>3, <3>1 DEF Single, Queued
    <3>3. ~Over(c)'
      BY <2>1, <2>3 DEF Over, CallsTypeOK
    <3>. QED
      BY <3>2, <3>3 DEF Kept
  <2>4. CASE c # d
    <3>1. (Single(c)' <=> Single(c)) /\ (Queued(c)' <=> Queued(c))
      <4>1. (Inside(requests', c) <=> Inside(requests, c)) /\ Once(requests', c) /\ Once(requests, c)
        BY <2>2, <2>4 DEF Kept, Single
      <4>. QED
        BY <2>1, <4>1 DEF Single, Queued
    <3>2. status'[c] = status[c] /\ result'[c] = result[c]
      BY <2>1, <2>4 DEF CallsTypeOK
    <3>3. ((c \in Live)' <=> c \in Live) /\ (Over(c)' <=> Over(c))
      BY <3>2 DEF Live, Over
    <3>4. Inside(inFlight, c)' <=> Inside(inFlight, c)
      BY <2>1 DEF Inside
    <3>. QED
      BY <3>1, <3>3, <3>4 DEF Kept
  <2>. QED
    BY <2>3, <2>4
<1>. QED
  BY <1>1, <1>2, <1>3

\* A dropped call may stay where it was, and no longer counts as waiting.
LEMMA KeptDropped ==
    ASSUME CallsTypeOK, NEW c \in Calls, Kept(c), NEW d \in Calls, DropRequest(d)
    PROVE  Kept(c)'
<1>1. /\ UNCHANGED <<requests, retries, inFlight, pending>>
      /\ status' = [status EXCEPT ![d] = "dropped"] /\ result' = [result EXCEPT ![d] = "none"]
  BY DEF DropRequest, Callers, driverVars
<1>2. CASE c = d
  <2>1. Single(c)'
    BY <1>1 DEF Single, Queued, Kept
  <2>2. (c \notin Live)' /\ ~Over(c)'
    BY <1>1, <1>2 DEF Live, Over, CallsTypeOK
  <2>. QED
    BY <2>1, <2>2 DEF Kept
<1>3. CASE c # d
  <2>1. status'[c] = status[c] /\ result'[c] = result[c]
    BY <1>1, <1>3 DEF CallsTypeOK
  <2>. QED
    BY <1>1, <2>1, KeptWhereItWas
<1>. QED
  BY <1>2, <1>3

\* A stopped handle tells the calls in the queue, which are nowhere else.
LEMMA KeptAtStop ==
    ASSUME CallsTypeOK, QueuesTypeOK, NEW c \in Calls, Kept(c), StopHandle
    PROVE  Kept(c)'
<1>1. /\ UNCHANGED <<retries, inFlight, pending, status>> /\ requests' = <<>>
      /\ Complete(Range(requests), "stopped")
  BY DEF StopHandle, Callers, driverVars
<1>2. ~Inside(requests', c) /\ Once(requests', c)
  BY <1>1 DEF Inside, Once
<1>3. c \in Range(requests) <=> Inside(requests, c)
  BY DEF Range, Inside
<1>4. Single(c)'
  BY <1>1, <1>2 DEF Single, Queued, Kept
<1>5. Inside(inFlight, c)' <=> Inside(inFlight, c)
  BY <1>1 DEF Inside
<1>6. CASE Inside(requests, c)
  <2>1. ~Queued(c)' /\ ~Inside(inFlight, c)'
    BY <1>1, <1>2, <1>5, <1>6 DEF Queued, Kept, Single
  <2>2. (c \notin Live)'
    BY <1>1, <1>3, <1>6 DEF Complete, Live, CallsTypeOK
  <2>. QED
    BY <1>4, <2>1, <2>2 DEF Kept
<1>7. CASE ~Inside(requests, c)
  <2>1. result'[c] = result[c]
    BY <1>1, <1>3, <1>7 DEF Complete, CallsTypeOK
  <2>2. ((c \in Live)' <=> c \in Live) /\ (Over(c)' <=> Over(c))
    BY <1>1, <2>1 DEF Live, Over
  <2>3. Queued(c)' <=> Queued(c)
    BY <1>1, <1>2, <1>7 DEF Queued
  <2>. QED
    BY <1>4, <1>5, <2>2, <2>3 DEF Kept
<1>. QED
  BY <1>6, <1>7

\* A request that prepare_outgoing takes is pending, or sent; what waits stays.
LEMMA KeptTaken ==
    ASSUME CallsTypeOK, QueuesTypeOK, Numbered, NEW c \in Calls, Kept(c), Taken,
           UNCHANGED <<status, result>>,
           \/ pending' = Request /\ UNCHANGED inFlight
           \/ /\ pending' = NoCall /\ NextMessage \in Messages /\ Request # NoCall
              /\ inFlight' = [inFlight EXCEPT ![NextMessage] = Request]
    PROVE  /\ Kept(c)' /\ (Queued(c)' => Queued(c))
           /\ inFlight' # inFlight /\ Request = c => Queued(c) /\ ~Queued(c)'
<1>1. Single(c) /\ c # NoCall
  BY DEF Kept
<1>2. /\ Once(requests', c) /\ Once(retries', c)
      /\ Inside(requests', c) => Inside(requests, c)
      /\ Inside(retries', c) => Inside(retries, c)
      /\ Request = c => /\ Queued(c)
                        /\ ~Inside(requests', c) /\ ~Inside(retries', c)
      /\ pending = c => Request = c
      /\ c \in Live /\ Queued(c) => Inside(requests', c) \/ Inside(retries', c) \/ Request = c
  BY <1>1, TakenHolds
<1>3. ((c \in Live)' <=> c \in Live) /\ (Over(c)' <=> Over(c))
  BY DEF Live, Over
<1>4. CASE pending' = Request /\ UNCHANGED inFlight
  <2>1. Queued(c)' <=> Inside(requests', c) \/ Inside(retries', c) \/ Request = c
    BY <1>4 DEF Queued
  <2>2. Queued(c)' => Queued(c)
    BY <1>2, <2>1 DEF Queued
  <2>3. Single(c)'
    BY <1>1, <1>2, <1>4, <2>2 DEF Single
  <2>4. Inside(inFlight, c)' <=> Inside(inFlight, c)
    BY <1>4 DEF Inside
  <2>. QED
    BY <1>2, <1>3, <1>4, <2>1, <2>2, <2>3, <2>4 DEF Kept
<1>5. CASE /\ pending' = NoCall /\ NextMessage \in Messages /\ Request # NoCall
           /\ inFlight' = [inFlight EXCEPT ![NextMessage] = Request]
  <2>0. inFlight[NextMessage] = NoCall /\ inFlight \in [Messages -> Calls \cup {NoCall}]
    BY <1>5, NextIsFree DEF QueuesTypeOK
  <2>1. Queued(c)' <=> Inside(requests', c) \/ Inside(retries', c)
    BY <1>1, <1>5 DEF Queued
  <2>2. Queued(c)' => Queued(c)
    BY <1>2, <2>1 DEF Queued
  <2>3. Inside(inFlight, c)' <=> Inside(inFlight, c) \/ Request = c
    <3>1. DOMAIN inFlight = Messages /\ DOMAIN inFlight' = Messages
      BY <1>5, <2>0
    <3>2. \A m \in Messages : inFlight'[m] = IF m = NextMessage THEN Request ELSE inFlight[m]
      BY <1>5, <2>0
    <3>. QED
      BY <1>1, <1>5, <2>0, <3>1, <3>2 DEF Inside
  <2>4. Once(inFlight', c)
    <3>1. DOMAIN inFlight = Messages /\ DOMAIN inFlight' = Messages
      BY <1>5, <2>0
    <3>2. \A m \in Messages : inFlight'[m] = IF m = NextMessage THEN Request ELSE inFlight[m]
      BY <1>5, <2>0
    <3>3. Request = c => ~Inside(inFlight, c)
      BY <1>1, <1>2 DEF Single
    <3>4. CASE Request = c
      BY <3>1, <3>2, <3>3, <3>4 DEF Once, Inside
    <3>5. CASE Request # c
      BY <1>1, <3>1, <3>2, <3>5 DEF Once, Single
    <3>. QED
      BY <3>4, <3>5
  <2>5. Queued(c)' => ~Inside(inFlight, c)'
    BY <1>1, <1>2, <2>1, <2>2, <2>3 DEF Single
  <2>6. Single(c)'
    <3>1. pending' # c
      BY <1>1, <1>5
    <3>2. Inside(requests', c) => ~Inside(retries', c)
      BY <1>1, <1>2 DEF Single
    <3>. QED
      BY <1>2, <2>4, <2>5, <3>1, <3>2 DEF Single
  <2>. QED
    BY <1>2, <1>3, <2>1, <2>2, <2>3, <2>6 DEF Kept
<1>. QED
  BY <1>4, <1>5

\* A call that is told the outcome leaves its message, and was nowhere else.
LEMMA KeptTold ==
    ASSUME CallsTypeOK, QueuesTypeOK, NEW c \in Calls, Kept(c), arrived # <<>>,
           inFlight' = Removed, UNCHANGED <<requests, retries, pending, status>>,
           NEW outcome \in Settling, Complete({Owner}, outcome)
    PROVE  Kept(c)' /\ (Queued(c)' <=> Queued(c))
<1>1. Once(inFlight, c) /\ Single(c)
  BY DEF Kept, Single
<1>2. /\ Once(inFlight', c)
      /\ Inside(inFlight', c) <=> Inside(inFlight, c) /\ Owner # c
      /\ Owner = c => Inside(inFlight, c)
  BY <1>1, RemovedHolds
<1>3. Queued(c)' <=> Queued(c)
  BY DEF Queued
<1>4. Single(c)'
  BY <1>1, <1>2, <1>3 DEF Single
<1>5. CASE Owner = c
  <2>1. ~Queued(c)' /\ ~Inside(inFlight, c)'
    BY <1>1, <1>2, <1>3, <1>5 DEF Single
  <2>2. (c \notin Live)'
    BY <1>5 DEF Complete, Live, CallsTypeOK, Settling
  <2>. QED
    BY <1>3, <1>4, <2>1, <2>2 DEF Kept
<1>6. CASE Owner # c
  <2>1. result'[c] = result[c]
    BY <1>6 DEF Complete, CallsTypeOK
  <2>2. ((c \in Live)' <=> c \in Live) /\ (Over(c)' <=> Over(c))
    BY <2>1 DEF Live, Over
  <2>. QED
    BY <1>2, <1>3, <1>4, <1>6, <2>2 DEF Kept
<1>. QED
  BY <1>5, <1>6

\* A call that is to be sent again goes from its message to the retries.
LEMMA KeptRetried ==
    ASSUME CallsTypeOK, QueuesTypeOK, NEW c \in Calls, Kept(c), arrived # <<>>,
           Owner \in Live, retries' = Append(retries, Owner),
           inFlight' = Removed, UNCHANGED <<requests, pending, status, result>>
    PROVE  /\ Kept(c)' /\ (Queued(c)' <=> Queued(c) \/ Owner = c)
           /\ Owner = c => ~Queued(c)
<1>0. Owner \in Calls
  BY DEF Live
<1>1. Once(inFlight, c) /\ Single(c)
  BY DEF Kept, Single
<1>2. /\ Once(inFlight', c)
      /\ Inside(inFlight', c) <=> Inside(inFlight, c) /\ Owner # c
      /\ Owner = c => Inside(inFlight, c) /\ ~Queued(c)
  BY <1>1, RemovedHolds DEF Single
<1>3. /\ Inside(retries', c) <=> Inside(retries, c) \/ Owner = c
      /\ Once(retries, c) /\ (Owner = c => ~Inside(retries, c)) => Once(retries', c)
  BY <1>0, AppendHolds DEF QueuesTypeOK
<1>4. Queued(c)' <=> Queued(c) \/ Owner = c
  BY <1>3 DEF Queued
<1>5. Single(c)'
  <2>1. Once(retries', c) /\ Once(requests, c)
    BY <1>1, <1>2, <1>3 DEF Single, Queued
  <2>2. /\ Inside(requests, c) => ~Inside(retries', c) /\ pending # c
        /\ Inside(retries', c) => pending # c
    BY <1>1, <1>2, <1>3 DEF Single, Queued
  <2>. QED
    BY <1>1, <1>2, <1>4, <2>1, <2>2 DEF Single
<1>6. ((c \in Live)' <=> c \in Live) /\ (Over(c)' <=> Over(c))
  BY DEF Live, Over
<1>7. Owner = c => ~Over(c)
  BY DEF Live, Over
<1>. QED
  BY <1>2, <1>4, <1>5, <1>6, <1>7 DEF Kept

-------------------------------------------------------------------------------
(* How often a call was sent.                                              *)

LEMMA SendsMove ==
    ASSUME NEW c
    PROVE  /\ Sends(c) \in Nat /\ Sends(c)' \in Nat
           /\ (\A m \in Messages : carried'[m] = c => carried[m] = c) => Sends(c)' <= Sends(c)
           /\ \A n \in Messages : (\A m \in Messages : carried'[m] = c => carried[m] = c \/ m = n)
                                     => Sends(c)' <= Sends(c) + 1
           /\ (\A m \in Messages : carried'[m] # c) => Sends(c)' = 0
<1>. DEFINE before == {m \in Messages : carried[m] = c}
            after  == {m \in Messages : carried'[m] = c}
<1>1. Sends(c) = Cardinality(before) /\ Sends(c)' = Cardinality(after)
  BY DEF Sends
<1>2. IsFiniteSet(Messages) /\ before \in SUBSET Messages /\ after \in SUBSET Messages
  BY FS_Interval DEF Messages
<1>3. IsFiniteSet(before) /\ IsFiniteSet(after)
  BY <1>2, FS_Subset
<1>4. Cardinality(before) \in Nat /\ Cardinality(after) \in Nat
  BY <1>3, FS_CardinalityType
<1>5. ASSUME \A m \in Messages : carried'[m] = c => carried[m] = c
      PROVE  Cardinality(after) <= Cardinality(before)
  <2>1. after \in SUBSET before
    BY <1>5
  <2>. QED
    BY <1>3, <2>1, FS_Subset
<1>6. ASSUME NEW n \in Messages, \A m \in Messages : carried'[m] = c => carried[m] = c \/ m = n
      PROVE  Cardinality(after) <= Cardinality(before) + 1
  <2>. DEFINE more == before \cup {n}
  <2>1. after \in SUBSET more
    BY <1>6
  <2>2. /\ IsFiniteSet(more)
        /\ Cardinality(more) = IF n \in before THEN Cardinality(before) ELSE Cardinality(before) + 1
    BY <1>3, FS_AddElement
  <2>3. Cardinality(after) <= Cardinality(more)
    BY <2>1, <2>2, FS_Subset
  <2>. HIDE DEF more, before, after
  <2>. QED
    BY <1>4, <2>2, <2>3
<1>7. ASSUME \A m \in Messages : carried'[m] # c PROVE Cardinality(after) = 0
  <2>1. after = {}
    BY <1>7
  <2>. QED
    BY <2>1, FS_EmptySet
<1>. QED
  BY <1>1, <1>4, <1>5, <1>6, <1>7

-------------------------------------------------------------------------------
(* What a step does to the places of the calls.                            *)

Closes  == \E how \in {"failed", "ended"} : StopPending(how)
TakesNext == /\ Taken /\ pending' = Request
             /\ UNCHANGED <<status, result, attempts, inFlight, carried>>
SendsNext == /\ Taken /\ pending' = NoCall /\ NextMessage \in Messages /\ Request # NoCall
             /\ inFlight' = [inFlight EXCEPT ![NextMessage] = Request]
             /\ carried' = [carried EXCEPT ![NextMessage] = Request]
             /\ UNCHANGED <<status, result, attempts>>
Settles == /\ arrived # <<>> /\ inFlight' = Removed
           /\ \E outcome \in Settling : Complete({Owner}, outcome)
           /\ UNCHANGED <<requests, retries, pending, status, attempts, carried>>
Retries == /\ arrived # <<>> /\ inFlight' = Removed
           /\ Owner \in Live /\ attempts[Owner] < MaxBadMessageRetries
           /\ retries' = Append(retries, Owner)
           /\ attempts' = [attempts EXCEPT ![Owner] = @ + 1]
           /\ UNCHANGED <<requests, pending, status, result, carried>>
LeavesPlaces == UNCHANGED <<requests, retries, inFlight, pending, status, result, attempts, carried>>

StepOfPlaces == \/ \E d \in Calls : Ask(d) \/ AskAgain(d) \/ DropRequest(d)
                \/ StopHandle \/ Closes \/ TakesNext \/ SendsNext \/ Settles \/ Retries \/ LeavesPlaces

\* Every step does one of these.
LEMMA StepPlaces ==
    ASSUME QueuesTypeOK, DriverNext \/ UNCHANGED channelVars
    PROVE  StepOfPlaces
<1>1. ASSUME NEW d \in Calls, Caller(d) PROVE StepOfPlaces
  BY <1>1 DEF Caller, StepOfPlaces
<1>2. CASE StopHandle
  BY <1>2 DEF StepOfPlaces
<1>3. CASE DropDriver \/ PrepareTooLarge \/ SendFails \/ ReceiveFails
  BY <1>3 DEF DropDriver, PrepareTooLarge, SendFails, ReceiveFails, Fail, Closes, StepOfPlaces
<1>4. CASE BeginPoll
  <2>1. CASE StopPending("ended")
    BY <2>1 DEF Closes, StepOfPlaces
  <2>2. CASE ~StopPending("ended")
    BY <1>4, <2>2 DEF BeginPoll, callVars, driverVars, LeavesPlaces, StepOfPlaces
  <2>. QED
    BY <2>1, <2>2
<1>5. CASE Send \/ Deliver
  BY <1>5 DEF Send, Deliver, Polling, callVars, driverVars, LeavesPlaces, StepOfPlaces
<1>6. CASE PrepareNothing
  <2>1. UNCHANGED <<status, result, attempts, inFlight, carried>>
    BY <1>6 DEF PrepareNothing, Preparing, Polling
  <2>2. CASE UNCHANGED <<pending, retries, requests>>
    BY <2>1, <2>2 DEF LeavesPlaces, StepOfPlaces
  <2>3. CASE Request = NoCall /\ ~ping /\ Taken /\ UNCHANGED pending
    <3>1. pending = NoCall
      BY <2>3 DEF Request, Takes
    <3>. QED
      BY <2>1, <2>3, <3>1 DEF TakesNext, StepOfPlaces
  <2>. QED
    BY <1>6, <2>2, <2>3 DEF PrepareNothing
<1>7. CASE PrepareService
  BY <1>7 DEF PrepareService, Preparing, Polling, TakesNext, StepOfPlaces
<1>8. CASE PreparePing
  BY <1>8 DEF PreparePing, Preparing, Polling, LeavesPlaces, StepOfPlaces
<1>9. CASE PrepareRequest
  BY <1>9 DEF PrepareRequest, Preparing, Polling, SendsNext, StepOfPlaces
<1>10. CASE ReceiveOutcome
  BY <1>10 DEF ReceiveOutcome, Receiving, Polling, Settles, StepOfPlaces
<1>11. CASE ReceiveRetry
  <2>1. /\ arrived # <<>> /\ inFlight' = Removed
        /\ UNCHANGED <<requests, pending, status, carried>>
    BY <1>11 DEF ReceiveRetry, Receiving, Polling
  <2>2. CASE Owner \in Live /\ attempts[Owner] < MaxBadMessageRetries
    BY <1>11, <2>1, <2>2 DEF ReceiveRetry, Retries, StepOfPlaces
  <2>3. CASE ~(Owner \in Live /\ attempts[Owner] < MaxBadMessageRetries)
    <3>1. Complete({Owner}, "reject") /\ UNCHANGED <<attempts, retries>>
      BY <1>11, <2>3 DEF ReceiveRetry
    <3>2. "reject" \in Settling
      BY DEF Settling
    <3>. QED
      BY <2>1, <3>1, <3>2 DEF Settles, StepOfPlaces
  <2>. QED
    BY <2>2, <2>3
<1>12. CASE ReceiveUpdate \/ ReceiveSalts
  BY <1>12 DEF ReceiveUpdate, ReceiveSalts, Receiving, Polling, LeavesPlaces, StepOfPlaces
<1>13. CASE Answer \/ SendSalts \/ Flush
  BY <1>13 DEF Answer, SendSalts, Flush, Outside, callVars, driverVars, LeavesPlaces, StepOfPlaces
<1>14. CASE Tick
  BY <1>14 DEF Tick, callVars, LeavesPlaces, StepOfPlaces
<1>15. CASE UNCHANGED channelVars
  BY <1>15 DEF channelVars, callVars, driverVars, LeavesPlaces, StepOfPlaces
<1>. QED
  BY <1>1, <1>2, <1>3, <1>4, <1>5, <1>6, <1>7, <1>8, <1>9, <1>10, <1>11, <1>12, <1>13, <1>14, <1>15
  DEF DriverNext, Poll, Network

\* A call stays in its place, or goes to the next.
LEMMA KeptStep ==
    ASSUME CallsTypeOK, QueuesTypeOK, Numbered, StepOfPlaces, NEW c \in Calls, Kept(c)
    PROVE  Kept(c)'
<1>1. ASSUME NEW d \in Calls, Ask(d) \/ AskAgain(d) \/ DropRequest(d) PROVE Kept(c)'
  BY <1>1, KeptAsked, KeptDropped
<1>2. CASE StopHandle
  BY <1>2, KeptAtStop
<1>3. CASE Closes
  BY <1>3, KeptAtEnd DEF Closes
<1>4. CASE TakesNext \/ SendsNext
  BY <1>4, KeptTaken DEF TakesNext, SendsNext
<1>5. CASE Settles
  BY <1>5, KeptTold DEF Settles
<1>6. CASE Retries
  BY <1>6, KeptRetried DEF Retries
<1>7. CASE LeavesPlaces
  BY <1>7, KeptWhereItWas DEF LeavesPlaces
<1>. QED
  BY <1>1, <1>2, <1>3, <1>4, <1>5, <1>6, <1>7 DEF StepOfPlaces

\* Identifiers are given out in order.
LEMMA NumberedStep ==
    ASSUME QueuesTypeOK, Numbered, StepOfPlaces
    PROVE  Numbered'
<1>1. CASE UNCHANGED <<inFlight, carried>>
  BY <1>1 DEF Numbered
<1>2. CASE Closes
  <2>1. carried' = [m \in Messages |-> NoCall] /\ inFlight' = [m \in Messages |-> NoCall]
    BY <1>2 DEF Closes, StopPending, Ending
  <2>2. {m \in Messages : carried'[m] # NoCall} = 1..0 /\ 0 \in 0..MaxMessages
    BY <2>1
  <2>. QED
    BY <2>1, <2>2 DEF Numbered
<1>3. CASE SendsNext
  <2>1. Request \in Calls
    BY <1>3, RequestType DEF SendsNext
  <2>. QED
    BY <1>3, <2>1, NumberedOnward DEF SendsNext
<1>4. CASE Settles \/ Retries
  <2>1. arrived # <<>> /\ inFlight' = Removed /\ carried' = carried
    BY <1>4 DEF Settles, Retries
  <2>2. \A m \in Messages : Removed[m] # NoCall => inFlight[m] # NoCall
    BY DEF Removed, QueuesTypeOK
  <2>. QED
    BY <2>1, <2>2 DEF Numbered
<1>5. ASSUME NEW d \in Calls, Ask(d) \/ AskAgain(d) \/ DropRequest(d)
      PROVE  UNCHANGED <<inFlight, carried>>
  BY <1>5 DEF Ask, AskAgain, DropRequest, Callers, driverVars
<1>6. StopHandle \/ TakesNext \/ LeavesPlaces => UNCHANGED <<inFlight, carried>>
  BY DEF StopHandle, Callers, driverVars, TakesNext, LeavesPlaces
<1>. QED
  BY <1>1, <1>2, <1>3, <1>4, <1>5, <1>6 DEF StepOfPlaces

\* A call is sent once for each time it was to be sent.
LEMMA SentStep ==
    ASSUME CallsTypeOK, QueuesTypeOK, Numbered, StepOfPlaces,
           NEW c \in Calls \ Patient, Kept(c), SentFor(c)
    PROVE  SentFor(c)'
<1>0. /\ Sends(c) \in Nat /\ Sends(c)' \in Nat /\ attempts[c] \in Nat /\ c # NoCall
      /\ UNCHANGED carried => Sends(c)' = Sends(c)
      /\ Sends(c) <= attempts[c] + 1
      /\ Queued(c) => Sends(c) <= attempts[c]
      /\ status[c] = "idle" => Sends(c) = 0
  <2>1. Sends(c) \in Nat /\ Sends(c)' \in Nat
    BY SendsMove
  <2>2. attempts[c] \in Nat /\ c # NoCall
    BY DEF QueuesTypeOK
  <2>3. UNCHANGED carried => Sends(c)' = Sends(c)
    BY DEF Sends
  <2>. QED
    BY <2>1, <2>2, <2>3 DEF SentFor
<1>1. ASSUME UNCHANGED carried, attempts'[c] = attempts[c], Queued(c)' => Queued(c),
             status'[c] = "idle" => status[c] = "idle"
      PROVE  SentFor(c)'
  BY <1>0, <1>1 DEF SentFor
<1>2. ASSUME NEW d \in Calls, Ask(d) \/ AskAgain(d) PROVE SentFor(c)'
  <2>1. /\ UNCHANGED <<carried, pending, retries>> /\ (Reject(d) \/ Admit(d))
        /\ d = c => status[c] = "idle"
    BY <1>2 DEF Ask, AskAgain, Enqueue, Callers, driverVars, Sleeping
  <2>2. CASE Reject(d)
    <3>1. UNCHANGED <<requests, attempts>> /\ (status'[c] = "idle" => status[c] = "idle")
      BY <2>2 DEF Reject, CallsTypeOK
    <3>2. Queued(c)' => Queued(c)
      BY <2>1, <3>1 DEF Queued
    <3>. QED
      BY <1>1, <2>1, <3>1, <3>2
  <2>3. CASE Admit(d)
    <3>1. /\ requests' = Append(requests, d) /\ attempts' = [attempts EXCEPT ![d] = 0]
          /\ status' = [status EXCEPT ![d] = "waiting"]
      BY <2>3 DEF Admit
    <3>2. Inside(requests', c) <=> Inside(requests, c) \/ c = d
      BY <3>1, AppendHolds DEF QueuesTypeOK
    <3>3. CASE c = d
      <4>1. Sends(c)' = 0 /\ attempts'[c] = 0 /\ status'[c] = "waiting"
        BY <1>0, <2>1, <3>1, <3>3 DEF QueuesTypeOK, CallsTypeOK
      <4>. QED
        BY <4>1 DEF SentFor
    <3>4. CASE c # d
      <4>1. attempts'[c] = attempts[c] /\ status'[c] = status[c]
        BY <3>1, <3>4 DEF QueuesTypeOK, CallsTypeOK
      <4>2. Queued(c)' => Queued(c)
        BY <2>1, <3>2, <3>4 DEF Queued
      <4>. QED
        BY <1>1, <2>1, <4>1, <4>2
    <3>. QED
      BY <3>3, <3>4
  <2>. QED
    BY <2>1, <2>2, <2>3
<1>3. ASSUME NEW d \in Calls, DropRequest(d) PROVE SentFor(c)'
  <2>1. UNCHANGED <<carried, attempts, requests, retries, pending>>
    BY <1>3 DEF DropRequest, Callers, driverVars
  <2>2. status'[c] = "idle" => status[c] = "idle"
    BY <1>3 DEF DropRequest, CallsTypeOK
  <2>3. Queued(c)' => Queued(c)
    BY <2>1 DEF Queued
  <2>. QED
    BY <1>1, <2>1, <2>2, <2>3
<1>4. CASE StopHandle
  <2>1. UNCHANGED <<carried, attempts, retries, pending, status>> /\ requests' = <<>>
    BY <1>4 DEF StopHandle, Callers, driverVars
  <2>2. Queued(c)' => Queued(c)
    BY <2>1 DEF Queued, Inside
  <2>. QED
    BY <1>1, <2>1, <2>2
<1>5. CASE Closes
  <2>1. carried' = [m \in Messages |-> NoCall] /\ attempts' = [d \in Calls |-> 0]
    BY <1>5 DEF Closes, StopPending, Ending
  <2>2. Sends(c)' = 0 /\ attempts'[c] = 0
    BY <1>0, <2>1, SendsMove
  <2>. QED
    BY <2>2 DEF SentFor
<1>6. CASE TakesNext
  <2>1. UNCHANGED <<carried, attempts, status>>
    BY <1>6 DEF TakesNext
  <2>2. Queued(c)' => Queued(c)
    BY <1>6, KeptTaken DEF TakesNext
  <2>. QED
    BY <1>1, <2>1, <2>2
<1>7. CASE SendsNext
  <2>1. /\ UNCHANGED <<attempts, status>> /\ Request # NoCall /\ NextMessage \in Messages
        /\ inFlight' = [inFlight EXCEPT ![NextMessage] = Request]
        /\ carried' = [carried EXCEPT ![NextMessage] = Request]
    BY <1>7 DEF SendsNext
  <2>2. inFlight' # inFlight
    BY <2>1, NextIsFree DEF QueuesTypeOK
  <2>3. /\ Queued(c)' => Queued(c)
        /\ Request = c => Queued(c) /\ ~Queued(c)'
    BY <1>7, <2>2, KeptTaken DEF SendsNext
  <2>4. \A m \in Messages : carried'[m] = IF m = NextMessage THEN Request ELSE carried[m]
    BY <2>1 DEF QueuesTypeOK
  <2>5. CASE Request = c
    <3>1. Sends(c)' <= Sends(c) + 1
      BY <2>1, <2>4, SendsMove
    <3>2. status[c] # "idle"
      BY <2>3, <2>5 DEF Kept, Over
    <3>. QED
      BY <1>0, <2>1, <2>3, <2>5, <3>1, <3>2 DEF SentFor
  <2>6. CASE Request # c
    <3>1. Sends(c)' <= Sends(c)
      BY <2>4, <2>6, SendsMove
    <3>. QED
      BY <1>0, <2>1, <2>3, <3>1 DEF SentFor
  <2>. QED
    BY <2>5, <2>6
<1>8. CASE Settles
  <2>1. UNCHANGED <<carried, attempts, status, requests, retries, pending>>
    BY <1>8 DEF Settles
  <2>2. Queued(c)' => Queued(c)
    BY <2>1 DEF Queued
  <2>. QED
    BY <1>1, <2>1, <2>2
<1>9. CASE Retries
  <2>1. /\ UNCHANGED <<carried, status>>
        /\ attempts' = [attempts EXCEPT ![Owner] = attempts[Owner] + 1]
    BY <1>9 DEF Retries
  <2>2. /\ Queued(c)' <=> Queued(c) \/ Owner = c
        /\ Owner = c => ~Queued(c)
    BY <1>9, KeptRetried DEF Retries
  <2>3. CASE Owner = c
    <3>1. attempts'[c] = attempts[c] + 1
      BY <2>1, <2>3 DEF QueuesTypeOK
    <3>. QED
      BY <1>0, <2>1, <3>1 DEF SentFor
  <2>4. CASE Owner # c
    <3>1. attempts'[c] = attempts[c]
      BY <2>1, <2>4 DEF QueuesTypeOK
    <3>. QED
      BY <1>1, <2>1, <2>2, <2>4, <3>1
  <2>. QED
    BY <2>3, <2>4
<1>10. CASE LeavesPlaces
  <2>1. UNCHANGED <<carried, attempts, status, requests, retries, pending>>
    BY <1>10 DEF LeavesPlaces
  <2>2. Queued(c)' => Queued(c)
    BY <2>1 DEF Queued
  <2>. QED
    BY <1>1, <2>1, <2>2
<1>. QED
  BY <1>2, <1>3, <1>4, <1>5, <1>6, <1>7, <1>8, <1>9, <1>10 DEF StepOfPlaces

LEMMA HeldInit ==
    ASSUME DriverInit
    PROVE  HeldInv
<1>1. /\ requests = <<>> /\ retries = <<>> /\ pending = NoCall
      /\ inFlight = [m \in Messages |-> NoCall] /\ carried = [m \in Messages |-> NoCall]
      /\ status = [c \in Calls |-> "idle"] /\ attempts = [c \in Calls |-> 0]
  BY DEF DriverInit
<1>2. ASSUME NEW c \in Calls PROVE Kept(c)
  <2>1. ~Queued(c) /\ ~Inside(inFlight, c)
    BY <1>1 DEF Queued, Inside
  <2>2. Single(c)
    BY <1>1, <2>1 DEF Single, Once, Queued
  <2>3. c \notin Live
    BY <1>1 DEF Live
  <2>. QED
    BY <2>1, <2>2, <2>3 DEF Kept
<1>3. Numbered
  <2>1. {m \in Messages : carried[m] # NoCall} = 1..0 /\ 0 \in 0..MaxMessages
    BY <1>1
  <2>. QED
    BY <1>1, <2>1 DEF Numbered
<1>4. ASSUME NEW c \in Calls \ Patient PROVE SentFor(c)
  <2>1. {m \in Messages : carried[m] = c} = {}
    BY <1>1
  <2>2. Sends(c) = 0
    BY <2>1, FS_EmptySet DEF Sends
  <2>. QED
    BY <1>1, <2>2 DEF SentFor
<1>. QED
  BY <1>2, <1>3, <1>4, InvInit DEF HeldInv, Held

LEMMA HeldStep ==
    ASSUME HeldInv, [DriverNext]_channelVars
    PROVE  HeldInv'
<1>1. CallsTypeOK /\ QueuesTypeOK /\ Numbered /\ DriverInv
  BY DEF HeldInv, DriverInv, DriverTypeOK
<1>2. StepOfPlaces
  BY <1>1, StepPlaces
<1>3. DriverInv'
  BY <1>1, InvStep
<1>4. ASSUME NEW c \in Calls PROVE Kept(c)'
  BY <1>1, <1>2, KeptStep DEF HeldInv, Held
<1>5. ASSUME NEW c \in Calls \ Patient PROVE SentFor(c)'
  BY <1>1, <1>2, SentStep DEF HeldInv, Held
<1>6. Numbered'
  BY <1>1, <1>2, NumberedStep
<1>. QED
  BY <1>3, <1>4, <1>5, <1>6 DEF HeldInv, Held

LEMMA HeldAlways == DriverSpec => []HeldInv
<1>1. DriverInit => HeldInv
  BY HeldInit
<1>2. HeldInv /\ [DriverNext]_channelVars => HeldInv'
  BY HeldStep
<1>. QED
  BY <1>1, <1>2, PTL DEF DriverSpec

\* A call that is once in a queue is counted once.
LEMMA CountIs ==
    ASSUME NEW queue, NEW c
    PROVE  /\ ~Inside(queue, c) => Count(queue, c) = 0
           /\ Inside(queue, c) /\ Once(queue, c) => Count(queue, c) = 1
<1>. DEFINE at_c == {i \in DOMAIN queue : queue[i] = c}
<1>1. CASE ~Inside(queue, c)
  <2>1. at_c = {}
    BY <1>1 DEF Inside
  <2>. QED
    BY <1>1, <2>1, FS_EmptySet DEF Count
<1>2. CASE Inside(queue, c) /\ Once(queue, c)
  <2>1. PICK i \in DOMAIN queue : queue[i] = c
    BY <1>2 DEF Inside
  <2>2. at_c = {i}
    BY <1>2, <2>1 DEF Once
  <2>3. Cardinality({i}) = 1
    BY FS_Singleton
  <2>. QED
    BY <1>2, <2>2, <2>3 DEF Count
<1>. QED
  BY <1>1, <1>2

\* No call is lost and none is kept twice: each that waits is in exactly one of
\* the queue, the pending slot, the retries and the messages in flight, and
\* Shared.outstanding counts just these.  driver/mod.rs, sender.rs.
THEOREM CallsHeldAndCountedAlways == DriverSpec => []CallsHeldAndCounted
<1>1. ASSUME HeldInv PROVE CallsHeldAndCounted
  <2>1. ASSUME NEW c \in Live PROVE Places(c) = 1
    <3>1. c \in Calls
      BY DEF Live
    <3>2. Single(c) /\ (Queued(c) \/ Inside(inFlight, c))
      BY <1>1, <2>1, <3>1 DEF HeldInv, Held, Kept
    <3>3. CASE pending = c
      <4>1. ~Inside(requests, c) /\ ~Inside(retries, c) /\ ~Inside(inFlight, c)
        BY <3>2, <3>3 DEF Single, Queued
      <4>. QED
        BY <3>3, <4>1, CountIs DEF Places
    <3>4. CASE Inside(requests, c)
      <4>1. /\ pending # c /\ ~Inside(retries, c) /\ ~Inside(inFlight, c)
            /\ Once(requests, c)
        BY <3>2, <3>4 DEF Single, Queued
      <4>. QED
        BY <3>4, <4>1, CountIs DEF Places
    <3>5. CASE Inside(retries, c)
      <4>1. /\ pending # c /\ ~Inside(requests, c) /\ ~Inside(inFlight, c)
            /\ Once(retries, c)
        BY <3>2, <3>5 DEF Single, Queued
      <4>. QED
        BY <3>5, <4>1, CountIs DEF Places
    <3>6. CASE Inside(inFlight, c)
      <4>1. /\ pending # c /\ ~Inside(requests, c) /\ ~Inside(retries, c)
            /\ Once(inFlight, c)
        BY <3>2, <3>6 DEF Single, Queued
      <4>. QED
        BY <3>6, <4>1, CountIs DEF Places
    <3>. QED
      BY <3>2, <3>3, <3>4, <3>5, <3>6 DEF Queued
  <2>2. outstanding = Cardinality(Live)
    BY <1>1 DEF HeldInv, DriverInv, Counted
  <2>. QED
    BY <2>1, <2>2 DEF CallsHeldAndCounted
<1>. QED
  BY <1>1, HeldAlways, PTL

\* However answers are repeated, late or refused, the current invocation of a
\* call is sent at most once and MAX_BAD_MESSAGE_RETRIES times more.
THEOREM SendsBoundedAlways == DriverSpec => []SendsBounded
<1>1. ASSUME HeldInv PROVE SendsBounded
  <2>1. ASSUME NEW c \in Calls \ Patient PROVE Sends(c) <= 1 + MaxBadMessageRetries
    <3>1. Sends(c) \in Nat /\ attempts[c] \in 0..MaxBadMessageRetries
      BY <1>1, SendsMove DEF HeldInv, DriverInv, DriverTypeOK, QueuesTypeOK
    <3>2. Sends(c) <= attempts[c] + 1
      BY <1>1, <3>1 DEF HeldInv, SentFor
    <3>. QED
      BY <3>1, <3>2
  <2>. QED
    BY <2>1 DEF SendsBounded
<1>. QED
  BY <1>1, HeldAlways, PTL
=================================================================================
