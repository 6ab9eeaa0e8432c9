-------------------------- MODULE UpdateDeliveryProofs --------------------------
(***************************************************************************)
(* Proofs about the delivery of updates, for any scopes, histories,        *)
(* requests, capacity and bounds: what is shown was durable first, cursors *)
(* are backed by records, a submission is committed after all that         *)
(* preceded it and acknowledged when its events are in the channel.        *)
(*                                                                         *)
(* Cursors: the committer's and the durable ones differ by the commit      *)
(* under way (Synced), and both lie below the counted changes yet to be    *)
(* issued (Ahead), so a counted change that a cursor moves past is the one *)
(* being stored.                                                           *)
(*                                                                         *)
(* Submissions: what preceded one is durable, under commit, deferred, or   *)
(* in the part of the buffer that is waited for (BarrierAhead).  Once an   *)
(* envelope without records is behind the cursors it is never stored later *)
(* (NothingNew), so a submission whose envelope is stored is one whose     *)
(* events were made, and they stand in the queues in front of its          *)
(* completion (OnTheirWay).                                                *)
(*                                                                         *)
(* Order: what is exposed lies behind the durable cursors in every         *)
(* component (Shown), so a commit that shows an envelope again, or one     *)
(* that was overtaken, does so for a component that ChangesInOrderOnce     *)
(* leaves out (Fresh); and the queues keep the order of the commits        *)
(* (Queues).                                                               *)
(***************************************************************************)
EXTENDS UpdateDelivery, SequenceTheorems, NaturalsInduction, WellFoundedInduction, TLAPS

InSession == phase \in {"live", "leaving"}

\* Nothing of a session is there before it opens and after it is gone.
Closed ==
    ~InSession => /\ driver = "closed" /\ out = Nothing /\ ~stop
                  /\ commit = NoCommit /\ ready = <<>> /\ deferred = <<>>
                  /\ rpc = NoRpc /\ channel = <<>>

\* The driver goes on: it has no failure to report.
Healthy == driver = "polling" \/ (driver = "sending" /\ out # Failure)

\* An envelope arrives after it was issued.
NotArrived == \A e \in Envelopes \ Issued : arrived[e] = 0

\* Whatever the driver and the database hold was issued.
FromIssued ==
    /\ Elements(buffer) \subseteq Issued /\ Elements(deferred) \subseteq Issued
    /\ commit # NoCommit => commit.env \in Issued
    /\ rpc # NoRpc => rpc.env \in Issued
    /\ stored \subseteq Issued

\* Between sessions, and while one opens.
Rest == /\ phase = "off" => cursor = disk
        /\ phase = "asking" => \A s \in Scopes \ {Account} : cursor.pts[s] = disk.pts[s]

AdvancedFrom(c, e) == [pts  |-> [s \in Scopes |-> Larger(c.pts[s], Content[e].pts[s])],
                       date |-> Larger(c.date, Content[e].date),
                       seq  |-> Larger(c.seq, Content[e].seq)]

\* The counted change of each scope follows the cursor, or is known already.
Applies(c, e) == \A s \in Scopes : \/ c.pts[s] = 0
                                   \/ Content[e].pts[s] <= c.pts[s]
                                   \/ Content[e].pts[s] = c.pts[s] + Content[e].count[s]

IsDurable(e) == \A s \in Scopes : disk.pts[s] >= Content[e].pts[s]

\* The committer's cursors and the durable ones differ by the commit under way.
Synced ==
    InSession =>
        /\ \A s \in Scopes : disk.pts[s] <= cursor.pts[s]
        /\ (Healthy /\ commit.state \in {"none", "done"}) => (cursor = disk)
        /\ (commit.state = "asked") =>
              /\ cursor = AdvancedFrom(disk, commit.env)
              /\ Applies(disk, commit.env)
              /\ \A s \in Scopes : Content[commit.env].pts[s] > disk.pts[s] => commit.shows
        /\ (commit.state = "done") => IsDurable(commit.env)

\* Both lie below the counted changes that are yet to be issued.
Ahead == \A j \in (issued + 1)..Len(History), s \in Scopes :
            Counted(History[j], s) => /\ cursor.pts[s] < Content[History[j]].pts[s]
                                      /\ disk.pts[s] < Content[History[j]].pts[s]

\* How much of the buffer the queued submission still waits for.
Waits == IF rpc.ahead > Len(deferred) THEN rpc.ahead - Len(deferred) ELSE 0

\* What preceded a queued submission is durable, or on the way: under commit,
\* deferred, or in the part of the buffer that is waited for.
BarrierAhead ==
    (rpc.at = "queued" /\ Healthy /\ commit.state # "failed") =>
        /\ Waits <= Len(buffer)
        /\ \A e \in rpc.prefix : \/ IsDurable(e)
                                 \/ e = commit.env
                                 \/ e \in Elements(deferred)
                                 \/ \E i \in 1..Waits : buffer[i] = e

\* Where the submission stands once the driver owes its completion.
Progress ==
    /\ (rpc.at = "owed") =>
          /\ deferred = <<>>
          /\ (commit = NoCommit) => ready # <<>> /\ IsDurable(rpc.env)
          /\ (commit # NoCommit) => commit.env = rpc.env
    /\ (rpc.at = "carried") => driver = "sending" /\ ready = <<>> /\ out # Failure
    /\ (rpc.at \in {"carried", "ok"}) => IsDurable(rpc.env)

\* The submission was committed, or its commit is over.
Settles == rpc.at \in {"carried", "ok"} \/ (rpc.at = "owed" /\ commit = NoCommit)

\* An envelope without records in the database has nothing new for the cursors
\* that passed it, and will not be stored later.
NothingNew ==
    /\ (commit.state \in {"asked", "done"} /\ ~commit.shows) => ~Exposes(commit.env)
    /\ (Settles /\ rpc.env \notin stored) =>
          /\ ~Exposes(rpc.env)
          /\ ~(commit.state = "asked" /\ commit.shows /\ commit.env = rpc.env)

\* The events of a stored submission are on their way, or about to be read off.
OnTheirWay ==
    (/\ driver # "closed" /\ rpc.env \in stored
     /\ rpc.at \in {"answered", "submitted", "queued", "owed", "carried"})
    => \A n \in 1..Content[rpc.env].events :
          \/ Exposed(rpc.env, n)
          \/ commit.state = "done" /\ commit.shows /\ commit.env = rpc.env

-----------------------------------------------------------------------------
(* Operators. *)

\* What an appended sequence holds.
LEMMA ElementsAppend ==
    ASSUME NEW S, NEW q \in Seq(S), NEW x \in S
    PROVE  Elements(Append(q, x)) = Elements(q) \union {x}
<1>1. DOMAIN q = 1..Len(q) /\ DOMAIN Append(q, x) = 1..(Len(q) + 1) /\ Len(q) \in Nat
  BY LenProperties, AppendProperties
<1>2. /\ \A i \in 1..Len(q) : Append(q, x)[i] = q[i]
      /\ Append(q, x)[Len(q) + 1] = x
  BY AppendProperties
<1> QED
  BY <1>1, <1>2 DEF Elements

\* What the head and the tail of a sequence hold.
LEMMA ElementsTail ==
    ASSUME NEW S, NEW q \in Seq(S), q # <<>>
    PROVE  Elements(q) = {Head(q)} \union Elements(Tail(q))
<1>1. /\ DOMAIN q = 1..Len(q) /\ DOMAIN Tail(q) = 1..(Len(q) - 1)
      /\ Len(q) \in Nat \ {0}
  BY LenProperties, HeadTailProperties, EmptySeq
<1>2. /\ \A i \in 1..(Len(q) - 1) : Tail(q)[i] = q[i + 1]
      /\ Head(q) = q[1]
  BY <1>1, HeadTailProperties
<1>3. \A i \in 1..Len(q) : i = 1 \/ i - 1 \in 1..(Len(q) - 1)
  BY <1>1
<1>4. \A x : x \in Elements(q) => x \in {Head(q)} \union Elements(Tail(q))
  <2> SUFFICES ASSUME NEW i \in 1..Len(q), i # 1
               PROVE  q[i] \in Elements(Tail(q))
    BY <1>1, <1>2 DEF Elements
  <2>1. i - 1 \in DOMAIN Tail(q) /\ Tail(q)[i - 1] = q[i]
    BY <1>1, <1>2, <1>3
  <2> QED
    BY <2>1 DEF Elements
<1>5. \A x : x \in {Head(q)} \union Elements(Tail(q)) => x \in Elements(q)
  <2>1. 1 \in DOMAIN q /\ \A i \in DOMAIN Tail(q) : i + 1 \in DOMAIN q
    BY <1>1
  <2> QED
    BY <1>1, <1>2, <2>1 DEF Elements
<1> QED
  BY <1>4, <1>5

\* What a concatenation holds.
LEMMA ElementsConcat ==
    ASSUME NEW S, NEW p \in Seq(S), NEW q \in Seq(S)
    PROVE  Elements(p \o q) = Elements(p) \union Elements(q)
<1>1. /\ DOMAIN p = 1..Len(p) /\ DOMAIN q = 1..Len(q) /\ DOMAIN (p \o q) = 1..(Len(p) + Len(q))
      /\ Len(p) \in Nat /\ Len(q) \in Nat
  BY LenProperties, ConcatProperties
<1>2. \A i \in 1..(Len(p) + Len(q)) : (p \o q)[i] = IF i <= Len(p) THEN p[i] ELSE q[i - Len(p)]
  BY ConcatProperties
<1>3. \A x : x \in Elements(p \o q) => x \in Elements(p) \union Elements(q)
  <2> SUFFICES ASSUME NEW i \in 1..(Len(p) + Len(q))
               PROVE  (p \o q)[i] \in Elements(p) \union Elements(q)
    BY <1>1 DEF Elements
  <2>1. i <= Len(p) => i \in 1..Len(p)
    BY <1>1
  <2>2. ~(i <= Len(p)) => i - Len(p) \in 1..Len(q)
    BY <1>1
  <2> QED
    BY <1>1, <1>2, <2>1, <2>2 DEF Elements
<1>4. \A i \in 1..Len(p) : i \in DOMAIN (p \o q) /\ (p \o q)[i] = p[i]
  BY <1>1, <1>2
<1>5. \A i \in 1..Len(q) : i + Len(p) \in DOMAIN (p \o q) /\ (p \o q)[i + Len(p)] = q[i]
  BY <1>1, <1>2
<1>6. Elements(p) \subseteq Elements(p \o q)
  BY <1>1, <1>4 DEF Elements
<1>7. Elements(q) \subseteq Elements(p \o q)
  BY <1>1, <1>5 DEF Elements
<1> QED
  BY <1>3, <1>6, <1>7

\* A sequence of a set holds members of it.
LEMMA ElementsType ==
    ASSUME NEW S, NEW q \in Seq(S)
    PROVE  Elements(q) \subseteq S /\ Elements(<<>>) = {}
BY LenProperties DEF Elements

\* A set of naturals has a least member.
LEMMA LeastOf ==
    ASSUME NEW S, S \subseteq Nat, S # {}
    PROVE  \E m \in S : \A k \in S : m <= k
<1>1. PICK m \in S : \A k \in S : ~(<<k, m>> \in OpToRel(<, Nat))
  BY WFMin, NatLessThanWellFounded
<1>2. \A k \in S : m <= k
  <2> SUFFICES ASSUME NEW k \in S PROVE m <= k
    OBVIOUS
  <2>1. k \in Nat /\ m \in Nat
    OBVIOUS
  <2>2. ~(k < m)
    BY <1>1, <2>1 DEF OpToRel
  <2> QED
    BY <2>1, <2>2
<1> QED
  BY <1>2

\* Finitely many numbers have a bound.
LEMMA Bounded ==
    ASSUME NEW n \in Nat, NEW f, \A i \in 1..n : f[i] \in Nat
    PROVE  \E b \in Nat : \A i \in 1..n : f[i] <= b
<1> DEFINE Fails(m) == ~\E b \in Nat : \A i \in 1..m : f[i] <= b
           failing == {m \in 0..n : Fails(m)}
<1>1. ASSUME failing # {} PROVE FALSE
  <2>1. failing \subseteq Nat
    OBVIOUS
  <2> HIDE DEF failing
  <2>2. PICK m \in failing : \A k \in failing : m <= k
    BY <1>1, <2>1, LeastOf
  <2>3. m \in 0..n /\ Fails(m)
    BY <2>2 DEF failing
  <2>4. m # 0
    BY <2>3
  <2>5. m - 1 \in 0..n /\ m - 1 \notin failing
    BY <2>1, <2>2, <2>3, <2>4
  <2>6. PICK b \in Nat : \A i \in 1..(m - 1) : f[i] <= b
    BY <2>5 DEF failing
  <2>7. f[m] \in Nat
    BY <2>3, <2>4
  <2>8. \A i \in 1..m : f[i] \in Nat /\ (i = m \/ i \in 1..(m - 1))
    BY <2>3
  <2>9. Larger(b, f[m]) \in Nat /\ \A i \in 1..m : f[i] <= Larger(b, f[m])
    BY <2>6, <2>7, <2>8 DEF Larger
  <2> QED
    BY <2>3, <2>9
<1>2. n \in 0..n
  OBVIOUS
<1> QED
  BY <1>1, <1>2

\* The highest of bounded numbers is one of them, and no other is above it.
LEMMA HighestOf ==
    ASSUME NEW values, values \subseteq Nat, values # {},
           NEW b \in Nat, \A v \in values : v <= b
    PROVE  Highest(values) \in values /\ \A v \in values : v <= Highest(values)
<1> DEFINE bounds == {n \in Nat : \A v \in values : v <= n}
<1>1. b \in bounds /\ bounds \subseteq Nat
  OBVIOUS
<1> HIDE DEF bounds
<1>2. PICK m \in bounds : \A k \in bounds : m <= k
  BY <1>1, LeastOf
<1>3. m \in Nat /\ \A v \in values : v <= m
  BY <1>2 DEF bounds
<1>4. m \in values
  <2> SUFFICES ASSUME m \notin values PROVE FALSE
    OBVIOUS
  <2>1. \A v \in values : v \in Nat /\ v <= m /\ v # m
    BY <1>3
  <2>2. PICK v \in values : TRUE
    OBVIOUS
  <2>3. m # 0 /\ m - 1 \in Nat
    BY <1>3, <2>1, <2>2
  <2>4. \A w \in values : w <= m - 1
    BY <1>3, <2>1
  <2>5. m - 1 \in bounds
    BY <2>3, <2>4 DEF bounds
  <2> QED
    BY <1>2, <1>3, <2>3, <2>5
<1> QED
  BY <1>3, <1>4 DEF Highest

-----------------------------------------------------------------------------
(* Types. *)

LEMMA ContentTyped ==
    ASSUME NEW e \in Envelopes
    PROVE  /\ Content[e].pts \in [Scopes -> Nat] /\ Content[e].count \in [Scopes -> Nat]
           /\ Content[e].date \in Nat /\ Content[e].start \in Nat /\ Content[e].seq \in Nat
           /\ Content[e].events \in Nat
BY DeliveryAssumption DEF ContentType

LEMMA WorldTyped ==
    ASSUME DeliveryTypeOK
    PROVE  /\ History \in Seq(Envelopes) /\ Base \in [Scopes -> Nat]
           /\ Len(History) \in Nat /\ DOMAIN History = 1..Len(History)
           /\ issued \in Nat /\ issued <= Len(History)
           /\ \A i \in 1..Len(History) : History[i] \in Envelopes
           /\ Issued \subseteq Envelopes
<1>1. History \in Seq(Envelopes) /\ Base \in [Scopes -> Nat]
  BY DeliveryAssumption DEF DeliveryTypeOK, History, Base
<1>2. Len(History) \in Nat /\ DOMAIN History = 1..Len(History)
  BY <1>1, LenProperties
<1>3. issued \in Nat /\ issued <= Len(History)
  BY <1>2 DEF DeliveryTypeOK
<1>4. \A i \in 1..Len(History) : History[i] \in Envelopes
  BY <1>1, <1>2
<1> QED
  BY <1>1, <1>2, <1>3, <1>4 DEF Issued

\* What one more issued envelope adds.
LEMMA IssuedGrows ==
    ASSUME DeliveryTypeOK, issued < Len(History), issued' = issued + 1, world' = world
    PROVE  /\ Issued' = Issued \union {History[issued + 1]}
           /\ History' = History
           /\ History[issued + 1] \in Envelopes /\ History[issued + 1] \notin Issued
           /\ issued' \in 0..Len(History')
<1>1. History' = History
  BY DEF History
<1>2. issued \in Nat /\ issued + 1 \in 1..Len(History)
  BY WorldTyped
<1>3. History[issued + 1] \in Envelopes
  BY <1>2, WorldTyped
<1>4. \A i \in 1..(issued + 1) : i = issued + 1 \/ i \in 1..issued
  BY <1>2
<1>5. Issued' = Issued \union {History[issued + 1]}
  BY <1>1, <1>2, <1>4 DEF Issued
<1>6. \A i \in 1..issued : History[i] # History[issued + 1]
  <2>1. world \in Worlds /\ issued + 1 \in DOMAIN world.history
    BY <1>2, WorldTyped DEF DeliveryTypeOK, History
  <2>2. 1..((issued + 1) - 1) = 1..issued
    BY <1>2
  <2> QED
    BY <2>1, <2>2, NumberingAssumption DEF History
<1> QED
  BY <1>1, <1>2, <1>3, <1>5, <1>6, WorldTyped DEF Issued

\* The history and what is issued of it stay.
LEMMA IssuedStays ==
    ASSUME UNCHANGED wireVars
    PROVE  Issued' = Issued /\ History' = History /\ Base' = Base /\ NotArrived' = NotArrived
BY DEF wireVars, Issued, History, Base, NotArrived

\* What Telegram's counters say is what a scope started with or was given since.
LEMMA ServerPtsIssued ==
    ASSUME DeliveryTypeOK, NEW s \in Scopes
    PROVE  /\ ServerPts(s) \in Nat
           /\ \/ ServerPts(s) = Base[s]
              \/ \E i \in 1..issued : ServerPts(s) = Content[History[i]].pts[s]
           /\ Base[s] <= ServerPts(s)
           /\ \A e \in Issued : Content[e].pts[s] <= ServerPts(s)
<1> DEFINE values == {Base[s]} \union {Content[e].pts[s] : e \in Issued}
           numbers == [i \in 1..issued |-> Content[History[i]].pts[s]]
<1>1. issued \in Nat /\ Base[s] \in Nat /\ \A i \in 1..issued : History[i] \in Envelopes
  BY WorldTyped
<1>2. \A i \in 1..issued : Content[History[i]].pts[s] \in Nat
  BY <1>1, ContentTyped
<1>3. \A i \in 1..issued : numbers[i] \in Nat
  BY <1>2
<1>4. PICK b \in Nat : \A i \in 1..issued : numbers[i] <= b
  <2> HIDE DEF numbers
  <2> QED
    BY <1>1, <1>3, Bounded
<1>5. \A v \in values : v \in Nat /\ v <= b + Base[s]
  BY <1>1, <1>2, <1>4 DEF Issued
<1>6. b + Base[s] \in Nat /\ values # {} /\ values \subseteq Nat
  BY <1>1, <1>4, <1>5
<1>7. ServerPts(s) = Highest(values)
  BY DEF ServerPts
<1>8. Highest(values) \in values /\ \A v \in values : v <= Highest(values)
  <2> HIDE DEF values
  <2> QED
    BY <1>5, <1>6, HighestOf
<1>9. Base[s] \in values /\ \A e \in Issued : Content[e].pts[s] \in values
  OBVIOUS
<1>10. ServerPts(s) = Base[s] \/ \E i \in 1..issued : ServerPts(s) = Content[History[i]].pts[s]
  BY <1>7, <1>8 DEF Issued
<1> HIDE DEF values
<1> QED
  BY <1>1, <1>2, <1>7, <1>8, <1>9, <1>10

LEMMA ServerCommonTyped ==
    ASSUME DeliveryTypeOK
    PROVE  /\ ServerDate \in Nat /\ ServerSeq \in Nat
           /\ ServerDate = 0 \/ \E e \in Issued : ServerDate = Content[e].date
           /\ ServerSeq = 0 \/ \E e \in Issued : ServerSeq = Content[e].seq
           /\ \A e \in Issued : Content[e].date <= ServerDate /\ Content[e].seq <= ServerSeq
<1> DEFINE dates == {0} \union {Content[e].date : e \in Issued}
           seqs == {0} \union {Content[e].seq : e \in Issued}
           date == [i \in 1..issued |-> Content[History[i]].date]
           seq == [i \in 1..issued |-> Content[History[i]].seq]
<1>1. issued \in Nat /\ \A i \in 1..issued : History[i] \in Envelopes
  BY WorldTyped
<1>2. \A i \in 1..issued : Content[History[i]].date \in Nat /\ Content[History[i]].seq \in Nat
  BY <1>1, ContentTyped
<1>3. \A i \in 1..issued : date[i] \in Nat /\ seq[i] \in Nat
  BY <1>2
<1>4. PICK b \in Nat : \A i \in 1..issued : date[i] <= b
  <2> HIDE DEF date
  <2> QED
    BY <1>1, <1>3, Bounded
<1>5. PICK c \in Nat : \A i \in 1..issued : seq[i] <= c
  <2> HIDE DEF seq
  <2> QED
    BY <1>1, <1>3, Bounded
<1>6. \A v \in dates : v \in Nat /\ v <= b
  BY <1>2, <1>4 DEF Issued
<1>7. \A v \in seqs : v \in Nat /\ v <= c
  BY <1>2, <1>5 DEF Issued
<1>8. Highest(dates) \in dates /\ \A v \in dates : v <= Highest(dates)
  <2>1. dates # {}
    OBVIOUS
  <2> HIDE DEF dates
  <2> QED
    BY <1>4, <1>6, <2>1, HighestOf
<1>9. Highest(seqs) \in seqs /\ \A v \in seqs : v <= Highest(seqs)
  <2>1. seqs # {}
    OBVIOUS
  <2> HIDE DEF seqs
  <2> QED
    BY <1>5, <1>7, <2>1, HighestOf
<1>10. /\ ServerDate \in dates /\ \A v \in dates : v <= ServerDate
       /\ ServerSeq \in seqs /\ \A v \in seqs : v <= ServerSeq
  BY <1>8, <1>9 DEF ServerDate, ServerSeq
<1>11. \A e \in Issued : Content[e].date \in dates /\ Content[e].seq \in seqs
  OBVIOUS
<1>12. /\ ServerDate = 0 \/ \E e \in Issued : ServerDate = Content[e].date
       /\ ServerSeq = 0 \/ \E e \in Issued : ServerSeq = Content[e].seq
  BY <1>10
<1> HIDE DEF dates, seqs
<1> QED
  BY <1>6, <1>7, <1>10, <1>11, <1>12

\* A cursor advanced by an envelope, read from Telegram, or completed with the
\* dialogs is a cursor.
LEMMA CursorsTyped ==
    ASSUME DeliveryTypeOK
    PROVE  /\ \A e \in Envelopes : Advanced(e) \in CursorType
           /\ AccountNow \in CursorType
           /\ \A dialogs \in SUBSET (Scopes \ {Account}) : Bootstrapped(dialogs) \in CursorType
<1>1. cursor.pts \in [Scopes -> Nat] /\ cursor.date \in Nat /\ cursor.seq \in Nat
  BY DEF DeliveryTypeOK, CursorType
<1>2. \A e \in Envelopes : Advanced(e) \in CursorType
  BY <1>1, ContentTyped DEF Advanced, CursorType, Larger
<1>3. AccountNow \in CursorType
  <2>1. Account \in Scopes
    BY DeliveryAssumption
  <2>2. ServerPts(Account) \in Nat
    BY <2>1, ServerPtsIssued
  <2> QED
    BY <1>1, <2>1, <2>2, ServerCommonTyped DEF AccountNow, CursorType
<1>4. ASSUME NEW dialogs \in SUBSET (Scopes \ {Account})
      PROVE  Bootstrapped(dialogs) \in CursorType
  <2>1. [s \in Scopes |-> IF s \in dialogs THEN ServerPts(s) ELSE cursor.pts[s]] \in [Scopes -> Nat]
    BY <1>1, ServerPtsIssued
  <2>2. Bootstrapped(dialogs)
          = [pts |-> [s \in Scopes |-> IF s \in dialogs THEN ServerPts(s) ELSE cursor.pts[s]],
             date |-> cursor.date, seq |-> cursor.seq]
    <3>1. cursor \in [pts : [Scopes -> Nat], date : Nat, seq : Nat]
      BY DEF DeliveryTypeOK, CursorType
    <3> QED
      BY <3>1 DEF Bootstrapped
  <2> QED
    BY <1>1, <2>1, <2>2 DEF CursorType
<1> QED
  BY <1>2, <1>3, <1>4

\* What becomes of the request is a request.
LEMMA RequestsTyped ==
    ASSUME rpc \in RpcType
    PROVE  /\ Observed(rpc) \in RpcType
           /\ AfterClose(rpc) \in RpcType
           /\ \A left : WithLast(left) \in RpcType
           /\ rpc.at # "none" <=> rpc # NoRpc
<1>1. CASE rpc = NoRpc
  BY <1>1 DEF NoRpc, RpcType, Observed, AfterClose, WithLast
<1>2. CASE rpc # NoRpc
  <2>1. rpc \in [at : {"answered", "submitted", "queued", "owed", "carried", "ok", "failed",
                       "lost"},
                 env : Envelopes, ahead : Nat, prefix : SUBSET Envelopes]
    BY <1>2 DEF RpcType
  <2>2. Observed(rpc) \in RpcType
    BY <2>1 DEF Observed, RpcType
  <2>3. AfterClose(rpc) \in RpcType
    BY <2>1 DEF AfterClose, RpcType
  <2>4. \A left : WithLast(left) \in RpcType
    BY <2>1 DEF WithLast, RpcType
  <2> QED
    BY <1>2, <2>1, <2>2, <2>3, <2>4 DEF NoRpc
<1> QED
  BY <1>1, <1>2

LEMMA CommitTyped ==
    ASSUME commit \in CommitType
    PROVE  /\ commit.state # "none" <=> commit # NoCommit
           /\ commit # NoCommit => commit.env \in Envelopes /\ commit.shows \in BOOLEAN
           /\ EventsOf(commit) \in Seq(EventType)
           /\ \A e, n : Event(e, n) \in Elements(EventsOf(commit))
                          <=> commit.shows /\ e = commit.env /\ n \in 1..Content[e].events
<1>1. CASE commit = NoCommit
  <2>1. EventsOf(commit) = <<>>
    BY <1>1 DEF NoCommit, EventsOf
  <2>2. Elements(EventsOf(commit)) = {} /\ EventsOf(commit) \in Seq(EventType)
    BY <2>1, ElementsType, EmptySeq
  <2> QED
    BY <1>1, <2>2 DEF NoCommit
<1>2. CASE commit # NoCommit
  <2>1. commit \in [state : {"asked", "done", "failed"}, env : Envelopes, shows : BOOLEAN]
    BY <1>2 DEF CommitType
  <2>2. CASE ~commit.shows
    BY <1>2, <2>1, <2>2 DEF EventsOf, NoCommit, Elements
  <2>3. CASE commit.shows
    <3> DEFINE k == Content[commit.env].events
    <3>1. k \in Nat
      BY <2>1, ContentTyped
    <3>2. EventsOf(commit) = [n \in 1..k |-> Event(commit.env, n)]
      BY <2>3 DEF EventsOf
    <3>3. \A n \in 1..k : Event(commit.env, n) \in EventType
      BY <2>1, <3>1 DEF Event, EventType
    <3>4. EventsOf(commit) \in Seq(EventType)
      BY <3>1, <3>2, <3>3
    <3>5. Elements(EventsOf(commit)) = {Event(commit.env, n) : n \in 1..k}
      BY <3>2 DEF Elements
    <3>6. \A e, n, m : Event(e, n) = Event(commit.env, m) <=> e = commit.env /\ n = m
      BY DEF Event
    <3> QED
      BY <1>2, <2>1, <2>3, <3>4, <3>5, <3>6 DEF NoCommit
  <2> QED
    BY <2>1, <2>2, <2>3
<1> QED
  BY <1>1, <1>2

-----------------------------------------------------------------------------
(* Type correctness. *)

\* What every state satisfies whatever the cursors say.
Typed == DeliveryTypeOK /\ NotArrived /\ Closed

LEMMA TypedInit ==
    ASSUME DeliveryInit
    PROVE  Typed
<1>1. world \in [history : Seq(Envelopes), base : [Scopes -> Nat]]
  BY DeliveryAssumption DEF DeliveryInit
<1>2. Base \in [Scopes -> Nat] /\ Len(History) \in Nat
  BY <1>1, LenProperties DEF Base, History
<1>3. disk \in CursorType /\ cursor \in CursorType
  BY <1>2 DEF DeliveryInit, NoCursor, CursorType
<1>4. arrived \in [Envelopes -> 0..(MaxArrivals + 1)]
  BY DeliveryAssumption DEF DeliveryInit
<1>5. <<>> \in Seq(Envelopes) /\ <<>> \in Seq(EventType) /\ <<>> \in Seq(Batches)
      /\ <<>> \in Seq(Envelopes \X Nat) /\ Len(<<>>) = 0
  BY EmptySeq
<1>6. DeliveryTypeOK
  <2>1. /\ commit \in CommitType /\ rpc \in RpcType /\ out \in Batches
        /\ ready \in Seq(EventType) /\ channel \in Seq(Batches) /\ Len(channel) <= Capacity
        /\ buffer \in Seq(Envelopes) /\ deferred \in Seq(Envelopes)
        /\ seen \in Seq(Envelopes \X Nat)
    BY <1>5, DeliveryAssumption DEF DeliveryInit, CommitType, RpcType, Batches
  <2>2. /\ world \in Worlds /\ issued \in 0..Len(History)
        /\ snapshot \in [Scopes -> Nat] /\ baseline \in [Scopes -> Nat]
        /\ stored \subseteq Envelopes /\ faults \in 0..MaxFaults
    BY <1>2, DeliveryAssumption DEF DeliveryInit
  <2> QED
    BY <1>3, <1>4, <2>1, <2>2 DEF DeliveryInit, DeliveryTypeOK
<1>7. NotArrived
  BY DEF DeliveryInit, NotArrived
<1>8. Closed
  BY DEF DeliveryInit, Closed
<1> QED
  BY <1>6, <1>7, <1>8 DEF Typed

\* The state of a session is gone, and what it leaves is well typed.
LEMMA TypedGone ==
    ASSUME Typed, SessionGone, faults' \in 0..MaxFaults
    PROVE  Typed'
<1>1. <<>> \in Seq(Envelopes) /\ <<>> \in Seq(EventType) /\ <<>> \in Seq(Batches)
      /\ Len(<<>>) = 0 /\ 0 <= Capacity
  BY EmptySeq, DeliveryAssumption
<1>2. DeliveryTypeOK'
  BY <1>1 DEF Typed, DeliveryTypeOK, SessionGone, wireVars, diskVars, CommitType, RpcType, Batches,
              History, CursorType
<1>3. NotArrived'
  BY IssuedStays DEF Typed, SessionGone
<1>4. Closed'
  BY DEF SessionGone, Closed, InSession
<1> QED
  BY <1>2, <1>3, <1>4 DEF Typed

\* An action of the environment or the actor leaves the driver's variables alone.
LEMMA TypedOutside ==
    ASSUME Typed,
           Issue \/ AnswerLost \/ LinkDown \/ Leave \/ PreStop \/ Checkpoint \/ Bootstrap
           \/ HandlerReturns \/ Submit \/ CommitSync \/ CommitFails
    PROVE  Typed'
<1> USE DEF Typed
<1>1. CASE Issue \/ AnswerLost
  <2>1. issued < Len(History) /\ issued' = issued + 1 /\ world' = world
    BY <1>1 DEF Issue, AnswerLost, wireVars
  <2>2. Issued' = Issued \union {History[issued + 1]} /\ issued' \in 0..Len(History')
    BY <2>1, IssuedGrows
  <2>3. UNCHANGED <<world, arrived, link, buffer, phase, stop, driverVars, seen, diskVars, faults>>
    BY <1>1 DEF Issue, AnswerLost
  <2>4. DeliveryTypeOK'
    BY <2>2, <2>3 DEF DeliveryTypeOK, driverVars, diskVars
  <2>5. NotArrived'
    BY <2>2, <2>3 DEF NotArrived
  <2>6. Closed'
    BY <2>3 DEF Closed, InSession, driverVars
  <2> QED
    BY <2>4, <2>5, <2>6
<1>2. CASE LinkDown
  <2>1. faults + 1 \in 0..MaxFaults
    BY <1>2, DeliveryAssumption DEF LinkDown, DeliveryTypeOK
  <2>2. DeliveryTypeOK'
    BY <1>2, <2>1 DEF LinkDown, DeliveryTypeOK, wireVars, driverVars, diskVars, History
  <2>3. NotArrived' /\ Closed'
    BY <1>2, IssuedStays DEF LinkDown, Closed, InSession, driverVars
  <2> QED
    BY <2>2, <2>3
<1>3. CASE Leave \/ PreStop
  <2>1. DeliveryTypeOK'
    BY <1>3 DEF Leave, PreStop, DeliveryTypeOK, wireVars, driverVars, diskVars, History
  <2>2. NotArrived' /\ Closed'
    BY <1>3, IssuedStays DEF Leave, PreStop, Closed, InSession, driverVars
  <2> QED
    BY <2>1, <2>2
<1>4. CASE Checkpoint
  <2>1. DeliveryTypeOK'
    BY <1>4, CursorsTyped DEF Checkpoint, DeliveryTypeOK, wireVars, diskVars, History
  <2>2. NotArrived' /\ Closed'
    BY <1>4, IssuedStays DEF Checkpoint, Closed, InSession
  <2> QED
    BY <2>1, <2>2
<1>5. CASE Bootstrap
  <2>1. PICK dialogs \in SUBSET (Scopes \ {Account}) :
            /\ cursor' = Bootstrapped(dialogs)
            /\ snapshot' = [s \in Scopes |-> IF s \in dialogs \union {Account} THEN issued
                                             ELSE snapshot[s]]
    BY <1>5 DEF Bootstrap
  <2>2. cursor' \in CursorType /\ snapshot' \in [Scopes -> Nat]
    BY <2>1, CursorsTyped, WorldTyped DEF DeliveryTypeOK
  <2>3. ~InSession
    BY <1>5 DEF Bootstrap, InSession
  <2>4. DeliveryTypeOK'
    BY <1>5, <2>2, <2>3 DEF Bootstrap, Closed, DeliveryTypeOK, wireVars, History
  <2>5. NotArrived' /\ Closed'
    BY <1>5, IssuedStays DEF Bootstrap, Closed, InSession
  <2> QED
    BY <2>4, <2>5
<1>6. CASE HandlerReturns \/ Submit
  <2>1. rpc' \in RpcType
    <3>1. CASE HandlerReturns
      BY <3>1 DEF HandlerReturns, RpcType
    <3>2. CASE Submit
      <4>1. rpc # NoRpc
        BY <3>2 DEF Submit, NoRpc
      <4> QED
        BY <3>2, <4>1 DEF Submit, DeliveryTypeOK, RpcType
    <3> QED
      BY <1>6, <3>1, <3>2
  <2>2. phase' \in {"off", "asking", "live", "leaving"}
    BY <1>6 DEF HandlerReturns, Submit, DeliveryTypeOK
  <2>3. DeliveryTypeOK'
    BY <1>6, <2>1, <2>2 DEF HandlerReturns, Submit, DeliveryTypeOK, wireVars, diskVars, History
  <2>4. rpc # NoRpc
    BY <1>6, RequestsTyped DEF HandlerReturns, Submit, DeliveryTypeOK
  <2>5. NotArrived' /\ Closed'
    BY <1>6, <2>4, IssuedStays DEF HandlerReturns, Submit, Closed, InSession
  <2> QED
    BY <2>3, <2>5
<1>7. CASE CommitSync \/ CommitFails
  <2>1. commit # NoCommit /\ commit' \in CommitType
    <3>1. commit # NoCommit
      BY <1>7 DEF CommitSync, CommitFails, NoCommit
    <3>2. commit \in [state : {"asked", "done", "failed"}, env : Envelopes, shows : BOOLEAN]
      BY <3>1 DEF DeliveryTypeOK, CommitType
    <3>3. commit' = [commit EXCEPT !.state = "done"] \/ commit' = [commit EXCEPT !.state = "failed"]
      BY <1>7 DEF CommitSync, CommitFails
    <3>4. CASE commit' = [commit EXCEPT !.state = "done"]
      BY <3>1, <3>2, <3>4 DEF CommitType
    <3>5. CASE commit' = [commit EXCEPT !.state = "failed"]
      BY <3>1, <3>2, <3>5 DEF CommitType
    <3> QED
      BY <3>3, <3>4, <3>5
  <2>2. faults' \in 0..MaxFaults
    <3>1. faults \in 0..MaxFaults /\ MaxFaults \in Nat
      BY DeliveryAssumption DEF DeliveryTypeOK
    <3>2. faults' = faults \/ (faults < MaxFaults /\ faults' = faults + 1)
      BY <1>7 DEF CommitSync, CommitFails
    <3> QED
      BY <3>1, <3>2
  <2>3. disk' \in CursorType /\ baseline' \in [Scopes -> Nat]
    <3>1. CASE CommitSync
      <4>1. disk' \in CursorType
        BY <3>1 DEF CommitSync, DeliveryTypeOK, CursorType
      <4>2. baseline' = [s \in Scopes |-> IF disk.pts[s] = 0 /\ disk'.pts[s] # 0
                                          THEN disk'.pts[s] ELSE baseline[s]]
        BY <3>1 DEF CommitSync
      <4> QED
        BY <4>1, <4>2 DEF CursorType, DeliveryTypeOK
    <3>2. CASE CommitFails
      BY <3>2 DEF CommitFails, diskVars, DeliveryTypeOK
    <3> QED
      BY <1>7, <3>1, <3>2
  <2>4. stored' \subseteq Envelopes
    BY <1>7, <2>1, CommitTyped DEF CommitSync, CommitFails, diskVars, DeliveryTypeOK
  <2>5. snapshot' = snapshot
    BY <1>7 DEF CommitSync, CommitFails, diskVars
  <2>6. UNCHANGED <<wireVars, link, buffer, phase, stop, driver, out, cursor, deferred, ready,
                    rpc, channel, seen>>
    BY <1>7 DEF CommitSync, CommitFails
  <2>7. DeliveryTypeOK'
    BY <2>1, <2>2, <2>3, <2>4, <2>5, <2>6 DEF DeliveryTypeOK, wireVars, History
  <2>8. NotArrived' /\ Closed'
    BY <2>1, <2>6, IssuedStays DEF Closed, InSession
  <2> QED
    BY <2>7, <2>8
<1> QED
  BY <1>1, <1>2, <1>3, <1>4, <1>5, <1>6, <1>7

\* What arrives, is answered or is received passes through typed queues.
LEMMA TypedQueues ==
    ASSUME Typed, (\E e \in Envelopes : Arrive(e)) \/ Answer \/ Receive
    PROVE  Typed'
<1> USE DEF Typed
<1>1. ASSUME NEW e \in Envelopes, Arrive(e) PROVE Typed'
  <2>1. buffer' \in Seq(Envelopes)
    BY <1>1, AppendProperties DEF Arrive, DeliveryTypeOK
  <2>2. arrived' \in [Envelopes -> 0..(MaxArrivals + 1)]
    <3>1. /\ arrived \in [Envelopes -> 0..(MaxArrivals + 1)] /\ MaxArrivals \in Nat
          /\ arrived[e] < MaxArrivals /\ arrived' = [arrived EXCEPT ![e] = @ + 1]
      BY <1>1, DeliveryAssumption DEF Arrive, DeliveryTypeOK
    <3>2. arrived[e] + 1 \in 0..(MaxArrivals + 1)
      BY <3>1
    <3> QED
      BY <3>1, <3>2
  <2>3. DeliveryTypeOK'
    BY <1>1, <2>1, <2>2 DEF Arrive, DeliveryTypeOK, driverVars, diskVars, History
  <2>4. Issued' = Issued
    BY <1>1 DEF Arrive, Issued, History
  <2>5. NotArrived'
    BY <1>1, <2>4 DEF Arrive, NotArrived, DeliveryTypeOK
  <2>6. Closed'
    BY <1>1 DEF Arrive, Closed, InSession, driverVars
  <2> QED
    BY <2>3, <2>5, <2>6
<1>2. CASE Answer
  <2> DEFINE e == History[issued + 1]
  <2>1. issued < Len(History) /\ issued' = issued + 1 /\ world' = world
    BY <1>2 DEF Answer
  <2>2. /\ Issued' = Issued \union {e} /\ issued' \in 0..Len(History')
        /\ e \in Envelopes /\ e \notin Issued
    BY <2>1, IssuedGrows
  <2>3. buffer' \in Seq(Envelopes)
    BY <1>2, <2>2, AppendProperties DEF Answer, DeliveryTypeOK
  <2>4. arrived[e] = 0
    BY <2>2 DEF NotArrived
  <2>5. arrived' = [arrived EXCEPT ![e] = 1]
    BY <1>2, <2>4 DEF Answer
  <2>6. arrived' \in [Envelopes -> 0..(MaxArrivals + 1)]
    BY <2>2, <2>5, DeliveryAssumption DEF DeliveryTypeOK
  <2>7. rpc' \in RpcType
    <3>1. rpc' = [at |-> "answered", env |-> e, ahead |-> 0, prefix |-> {}]
      BY <1>2 DEF Answer, NoRpc
    <3> QED
      BY <2>2, <3>1 DEF RpcType
  <2>8. UNCHANGED <<world, link, phase, stop, driver, out, cursor, deferred, commit, ready,
                    channel, seen, diskVars, faults>>
    BY <1>2 DEF Answer
  <2>9. DeliveryTypeOK'
    BY <2>2, <2>3, <2>6, <2>7, <2>8 DEF DeliveryTypeOK, diskVars
  <2>10. NotArrived'
    BY <2>2, <2>5 DEF NotArrived, DeliveryTypeOK
  <2>11. Closed'
    BY <1>2, <2>8 DEF Answer, Closed, InSession
  <2> QED
    BY <2>9, <2>10, <2>11
<1>3. CASE Receive
  <2>1. Head(channel) \in Batches /\ channel' \in Seq(Batches) /\ Len(channel') <= Capacity
    BY <1>3, HeadTailProperties, LenProperties, DeliveryAssumption DEF Receive, DeliveryTypeOK
  <2>2. seen' \in Seq(Envelopes \X Nat)
    <3>1. CASE Head(channel).kind = "event"
      <4>1. Head(channel).env \in Envelopes /\ Head(channel).nth \in Nat
        BY <2>1, <3>1 DEF Batches, EventType, Nothing, Failure
      <4> QED
        BY <1>3, <3>1, <4>1, AppendProperties DEF Receive, DeliveryTypeOK
    <3>2. CASE Head(channel).kind # "event"
      BY <1>3, <3>2 DEF Receive, DeliveryTypeOK
    <3> QED
      BY <3>1, <3>2
  <2>3. phase' \in {"live", "leaving"} /\ phase = "live"
    BY <1>3 DEF Receive
  <2>4. UNCHANGED <<wireVars, link, buffer, stop, driver, out, cursor, deferred, commit,
                    ready, rpc, diskVars, faults>>
    BY <1>3 DEF Receive
  <2>5. DeliveryTypeOK'
    BY <2>1, <2>2, <2>3, <2>4 DEF DeliveryTypeOK, wireVars, diskVars, History
  <2>6. NotArrived' /\ Closed'
    BY <2>3, <2>4, IssuedStays DEF Closed, InSession
  <2> QED
    BY <2>5, <2>6
<1> QED
  BY <1>1, <1>2, <1>3

\* An iteration of the driver happens in a session, and leaves the wire, the
\* application and the database alone.
LEMMA DriverConfined ==
    ASSUME Typed, DriverNext
    PROVE  /\ InSession /\ driver # "closed"
           /\ UNCHANGED <<wireVars, link, phase, stop, seen, diskVars, faults>>
<1>1. driver # "closed"
  BY DEF DriverNext, ExposeNext, Committed, CommitRefused, RetryDeferred, PopSubmission,
         CommitSubmission, TakeLive, StreamEnds, GapTimeout, Deliver, DriverStops,
         Polls, Settled, ReadsLive
<1>2. UNCHANGED <<wireVars, link, phase, stop, seen, diskVars, faults>>
  BY DEF DriverNext, ExposeNext, Committed, CommitRefused, RetryDeferred, PopSubmission,
         CommitSubmission, TakeLive, StreamEnds, GapTimeout, Deliver, DriverStops
<1> QED
  BY <1>1, <1>2 DEF Typed, Closed

\* The driver starts a commit of a typed envelope.
LEMMA StartTyped ==
    ASSUME Typed, NEW e \in Envelopes, StartCommit(e)
    PROVE  commit' \in CommitType /\ commit' # NoCommit /\ cursor' \in CursorType
<1>1. Exposes(e) \in BOOLEAN
  BY DEF Exposes
<1>2. commit' = [state |-> "asked", env |-> e, shows |-> Exposes(e)]
  BY DEF StartCommit
<1> QED
  BY <1>1, <1>2, CursorsTyped DEF Typed, StartCommit, CommitType, NoCommit

\* What an iteration of the driver changes is well typed.
LEMMA TypedDriver ==
    ASSUME Typed, DriverNext
    PROVE  Typed'
<1>1. /\ InSession /\ driver # "closed"
      /\ UNCHANGED <<wireVars, link, phase, stop, seen, diskVars, faults>>
  BY DriverConfined
<1>2. NotArrived' /\ Closed'
  BY <1>1, IssuedStays DEF Typed, Closed, InSession
<1> SUFFICES /\ buffer' \in Seq(Envelopes) /\ deferred' \in Seq(Envelopes)
             /\ driver' \in {"polling", "sending", "parked", "closed"}
             /\ out' \in Batches /\ ready' \in Seq(EventType)
             /\ channel' \in Seq(Batches) /\ Len(channel') <= Capacity
             /\ cursor' \in CursorType /\ commit' \in CommitType /\ rpc' \in RpcType
             /\ (driver' = "sending") => (commit' = NoCommit)
             /\ (out' # Nothing) => (driver' = "sending")
  BY <1>1, <1>2 DEF Typed, DeliveryTypeOK, wireVars, diskVars, History
<1> USE DEF Sends
<1>ty. /\ buffer \in Seq(Envelopes) /\ deferred \in Seq(Envelopes)
       /\ driver \in {"polling", "sending", "parked", "closed"}
       /\ out \in Batches /\ ready \in Seq(EventType) /\ channel \in Seq(Batches)
       /\ Len(channel) <= Capacity
       /\ cursor \in CursorType /\ commit \in CommitType /\ rpc \in RpcType
       /\ (driver = "sending") => (commit = NoCommit)
       /\ (out # Nothing) => (driver = "sending")
  BY DEF Typed, DeliveryTypeOK
<1>3. /\ Observed(rpc) \in RpcType /\ AfterClose(rpc) \in RpcType
      /\ \A left : WithLast(left) \in RpcType
      /\ Failure \in Batches /\ Nothing \in Batches /\ EventType \subseteq Batches
  BY <1>ty, RequestsTyped DEF Batches
<1>4. CASE ExposeNext
  <2>1. Head(ready) \in Batches /\ Tail(ready) \in Seq(EventType)
    BY <1>ty, <1>3, <1>4, HeadTailProperties DEF ExposeNext
  <2> QED
    BY <1>ty, <1>3, <1>4, <2>1 DEF ExposeNext
<1>5. CASE Committed
  <2> DEFINE all == ready \o EventsOf(commit)
  <2>1. all \in Seq(EventType)
    BY <1>ty, CommitTyped, ConcatProperties
  <2>2. /\ (IF all = <<>> THEN Nothing ELSE Head(all)) \in Batches
        /\ (IF all = <<>> THEN <<>> ELSE Tail(all)) \in Seq(EventType)
    BY <1>ty, <1>3, <2>1, HeadTailProperties, EmptySeq
  <2>3. NoCommit \in CommitType
    BY <1>ty DEF CommitType
  <2> QED
    BY <1>ty, <1>3, <1>5, <2>2, <2>3 DEF Committed
<1>6. CASE CommitRefused
  <2>1. driver = "polling" /\ out = Nothing
    BY <1>ty, <1>6 DEF CommitRefused, Polls
  <2>2. commit' \in CommitType /\ commit' = NoCommit
    BY <1>ty, <1>6 DEF CommitRefused, CommitType
  <2>3. CASE rpc.at = "owed"
    <3>1. rpc' \in RpcType
      <4>1. rpc # NoRpc
        BY <1>ty, <2>3 DEF NoRpc
      <4> QED
        BY <1>ty, <1>6, <2>3, <4>1 DEF CommitRefused, RpcType
    <3> QED
      BY <1>ty, <1>6, <2>1, <2>2, <2>3, <3>1 DEF CommitRefused
  <2>4. CASE rpc.at # "owed"
    BY <1>ty, <1>3, <1>6, <2>1, <2>2, <2>4 DEF CommitRefused
  <2> QED
    BY <1>ty, <2>3, <2>4
<1>7. CASE RetryDeferred
  <2>1. Head(deferred) \in Envelopes /\ Tail(deferred) \in Seq(Envelopes)
    BY <1>ty, <1>7, HeadTailProperties DEF RetryDeferred, Unblocked
  <2>2. commit' \in CommitType /\ cursor' \in CursorType
    BY <1>ty, <1>7, <2>1, StartTyped DEF RetryDeferred
  <2> QED
    BY <1>ty, <1>3, <1>7, <2>1, <2>2 DEF RetryDeferred, Polls
<1>8. CASE PopSubmission
  <2>1. Preceding \in Nat
    BY <1>ty, LenProperties DEF Preceding
  <2>2. Elements(buffer) \union Elements(deferred) \subseteq Envelopes
    BY <1>ty, ElementsType
  <2>3. rpc # NoRpc
    BY <1>ty, <1>8 DEF PopSubmission, NoRpc
  <2>4. rpc' \in RpcType
    BY <1>ty, <1>8, <2>1, <2>2, <2>3 DEF PopSubmission, RpcType
  <2> QED
    BY <1>ty, <1>8, <2>4 DEF PopSubmission
<1>9. CASE CommitSubmission
  <2>1. rpc # NoRpc
    BY <1>ty, <1>9 DEF CommitSubmission, BarrierReached, NoRpc
  <2>2. rpc.env \in Envelopes
    BY <1>ty, <2>1 DEF RpcType
  <2>3. rpc' \in RpcType
    BY <1>ty, <1>9, <2>1 DEF CommitSubmission, RpcType
  <2>4. /\ UNCHANGED <<buffer, out, deferred, ready, channel>>
        /\ driver = "polling" /\ driver' \in {"polling", "parked"}
    BY <1>ty, <1>9 DEF CommitSubmission, Settled
  <2>5. commit' \in CommitType /\ cursor' \in CursorType
    BY <1>ty, <1>9, <2>2, StartTyped DEF CommitSubmission
  <2> QED
    BY <1>ty, <2>3, <2>4, <2>5
<1>10. CASE TakeLive
  <2>1. Head(buffer) \in Envelopes /\ Tail(buffer) \in Seq(Envelopes)
    BY <1>ty, <1>10, HeadTailProperties DEF TakeLive
  <2>2. driver = "polling" /\ commit = NoCommit /\ out = Nothing
    BY <1>ty, <1>10 DEF TakeLive, ReadsLive, Settled
  <2>3. CASE Verdict(Head(buffer)) = "gap"
    BY <1>ty, <1>3, <1>10, <2>1, <2>2, <2>3 DEF TakeLive
  <2>4. CASE Verdict(Head(buffer)) = "defer"
    <3>1. deferred' \in Seq(Envelopes)
      <4>1. deferred' = Append(deferred, Head(buffer))
        BY <1>10, <2>4 DEF TakeLive
      <4> QED
        BY <1>ty, <2>1, <4>1, AppendProperties
    <3> QED
      BY <1>ty, <1>10, <2>1, <2>2, <2>4, <3>1 DEF TakeLive
  <2>5. CASE Verdict(Head(buffer)) \notin {"gap", "defer"}
    <3>1. StartCommit(Head(buffer)) /\ rpc' = Observed(rpc) /\ UNCHANGED <<driver, out, deferred>>
      BY <1>ty, <1>10, <2>5 DEF TakeLive
    <3>2. commit' \in CommitType /\ cursor' \in CursorType
      BY <1>ty, <2>1, <3>1, StartTyped
    <3> QED
      BY <1>ty, <1>3, <1>10, <2>1, <2>2, <3>1, <3>2 DEF TakeLive
  <2> QED
    BY <1>ty, <2>3, <2>4, <2>5
<1>11. CASE StreamEnds
  BY <1>ty, <1>3, <1>11 DEF StreamEnds, ReadsLive, Settled
<1>12. CASE GapTimeout
  <2>1. Tail(deferred) \in Seq(Envelopes)
    BY <1>ty, <1>12, HeadTailProperties DEF GapTimeout, TimerSet
  <2> QED
    BY <1>ty, <1>3, <1>12, <2>1 DEF GapTimeout, ReadsLive, Settled
<1>13. CASE Deliver
  <2>1. /\ Append(channel, out) \in Seq(Batches)
        /\ Len(Append(channel, out)) = Len(channel) + 1 /\ Len(channel) \in Nat
    BY <1>ty, AppendProperties, LenProperties
  <2>2. Len(Append(channel, out)) <= Capacity
    BY <1>ty, <1>13, <2>1, DeliveryAssumption DEF Deliver, RoomInChannel
  <2> DEFINE told == IF rpc.at = "carried" THEN [rpc EXCEPT !.at = "ok"] ELSE rpc
  <2>3. told \in RpcType
    <3>1. rpc.at = "carried" => rpc # NoRpc
      BY <1>ty DEF NoRpc
    <3> QED
      BY <1>ty, <3>1 DEF RpcType
  <2>4. AfterClose(told) \in RpcType
    <3>1. CASE told = NoRpc
      BY <1>ty, <3>1 DEF AfterClose, NoRpc, RpcType
    <3>2. CASE told # NoRpc
      BY <1>ty, <2>3, <3>2 DEF AfterClose, RpcType
    <3> QED
      BY <1>ty, <3>1, <3>2
  <2>5. rpc' \in RpcType /\ driver' \in {"polling", "closed"}
    BY <1>ty, <1>13, <2>3, <2>4 DEF Deliver
  <2> QED
    BY <1>ty, <1>3, <1>13, <2>1, <2>2, <2>5 DEF Deliver
<1>14. CASE DriverStops
  BY <1>ty, <1>3, <1>14 DEF DriverStops
<1> QED
  BY <1>4, <1>5, <1>6, <1>7, <1>8, <1>9, <1>10, <1>11, <1>12, <1>13, <1>14 DEF DriverNext

\* Every step leaves a well-typed state.
LEMMA TypedStep ==
    ASSUME Typed, [DeliveryNext]_deliveryVars
    PROVE  Typed'
<1>1. CASE UNCHANGED deliveryVars
  <2>1. /\ UNCHANGED <<wireVars, driverVars, diskVars>>
        /\ UNCHANGED <<link, buffer, phase, stop, seen, faults>>
    BY <1>1 DEF deliveryVars, wireVars, driverVars, diskVars
  <2>2. History' = History
    BY <2>1 DEF wireVars, History
  <2>3. DeliveryTypeOK'
    BY <2>1, <2>2 DEF wireVars, driverVars, diskVars, Typed, DeliveryTypeOK
  <2>4. Closed'
    BY <2>1 DEF driverVars, Typed, Closed, InSession
  <2> QED
    BY <2>1, <2>3, <2>4, IssuedStays DEF Typed
<1>2. CASE Joined \/ Crash \/ BootstrapFails
  <2>1. faults \in 0..MaxFaults /\ MaxFaults \in Nat
    BY DeliveryAssumption DEF Typed, DeliveryTypeOK
  <2>2. SessionGone
    BY <1>2 DEF Joined, Crash, BootstrapFails
  <2>3. faults' = faults \/ (faults < MaxFaults /\ faults' = faults + 1)
    BY <1>2 DEF Joined, Crash, BootstrapFails
  <2>4. faults' \in 0..MaxFaults
    BY <2>1, <2>3
  <2> QED
    BY <2>2, <2>4, TypedGone
<1>3. CASE DeliveryNext /\ ~(Joined \/ Crash \/ BootstrapFails)
  BY <1>3, TypedOutside, TypedQueues, TypedDriver DEF DeliveryNext, ActorNext, OpenNext
<1> QED
  BY <1>1, <1>2, <1>3 DEF DeliveryNext, ActorNext, OpenNext

\* Type correctness for every instance: what any reachable state holds, and that
\* the driver never sends a batch while it awaits a commit.
THEOREM DeliveryTypeCorrect == DeliverySpec => []DeliveryTypeOK
<1>1. DeliveryInit => Typed
  BY TypedInit
<1>2. Typed /\ [DeliveryNext]_deliveryVars => Typed'
  BY TypedStep
<1>3. Typed => DeliveryTypeOK
  BY DEF Typed
<1> QED
  BY <1>1, <1>2, <1>3, PTL DEF DeliverySpec

-----------------------------------------------------------------------------
(* The kinds of steps. *)

\* Steps outside the driver that touch neither its commits nor the database.
Quiet == \/ UNCHANGED deliveryVars
         \/ Issue \/ Answer \/ AnswerLost \/ (\E e \in Envelopes : Arrive(e))
         \/ LinkDown \/ Leave \/ PreStop \/ Submit \/ HandlerReturns \/ Receive

Closing == Joined \/ Crash \/ BootstrapFails

\* A commit starts: the driver has nothing else under way.
Starts(e) == /\ StartCommit(e) /\ Verdict(e) = "apply"
             /\ commit = NoCommit /\ ready = <<>> /\ driver = "polling"
             /\ UNCHANGED <<driver, out, ready, channel>>

LEMMA StepKinds ==
    ASSUME [DeliveryNext]_deliveryVars
    PROVE  Quiet \/ Closing \/ Checkpoint \/ Bootstrap \/ DriverNext \/ CommitSync \/ CommitFails
BY DEF DeliveryNext, ActorNext, OpenNext, Quiet, Closing

LEMMA QuietKeeps ==
    ASSUME Typed, Quiet
    PROVE  /\ UNCHANGED <<world, driver, out, cursor, deferred, commit, ready, diskVars>>
           /\ InSession' <=> InSession
<1>1. UNCHANGED <<world, driver, out, cursor, deferred, commit, ready, diskVars>>
  BY DEF Quiet, Issue, Answer, AnswerLost, Arrive, LinkDown, Leave, PreStop, Submit,
         HandlerReturns, Receive, deliveryVars, wireVars, driverVars, diskVars
<1>2. CASE HandlerReturns
  <2>1. rpc # NoRpc
    BY <1>2 DEF HandlerReturns, NoRpc
  <2>2. InSession
    BY <2>1 DEF Typed, Closed
  <2> QED
    BY <1>1, <1>2, <2>2 DEF HandlerReturns, InSession
<1>3. CASE Receive \/ Leave
  BY <1>1, <1>3 DEF Receive, Leave, InSession
<1>4. CASE ~(HandlerReturns \/ Receive \/ Leave)
  <2>1. phase' = phase
    BY <1>4 DEF Quiet, Issue, Answer, AnswerLost, Arrive, LinkDown, PreStop, Submit, deliveryVars
  <2> QED
    BY <1>1, <2>1 DEF InSession
<1> QED
  BY <1>2, <1>3, <1>4

\* More may be issued, and what is issued stays so.
LEMMA QuietIssues ==
    ASSUME Typed, Quiet
    PROVE  /\ Issued \subseteq Issued' /\ History' = History
           /\ issued' = issued \/ (issued < Len(History) /\ issued' = issued + 1)
<1>1. History' = History
  BY QuietKeeps DEF History
<1>2. issued' = issued \/ (issued < Len(History) /\ issued' = issued + 1)
  BY DEF Quiet, Issue, Answer, AnswerLost, Arrive, LinkDown, Leave, PreStop, Submit,
         HandlerReturns, Receive, deliveryVars, wireVars
<1>3. Issued \subseteq Issued'
  <2>1. CASE issued' = issued
    BY <1>1, <2>1 DEF Issued
  <2>2. CASE issued < Len(History) /\ issued' = issued + 1
    BY <2>2, QuietKeeps, IssuedGrows DEF Typed
  <2> QED
    BY <1>2, <2>1, <2>2
<1> QED
  BY <1>1, <1>2, <1>3

\* The driver keeps the envelope of the request, and gives no request of its own.
LEMMA DriverRequest ==
    ASSUME Typed, DriverNext
    PROVE  /\ rpc'.env = rpc.env
           /\ rpc' # NoRpc => rpc # NoRpc
<1> DEFINE Kept(r) == r.env = rpc.env /\ (r # NoRpc => rpc # NoRpc)
<1>1. rpc \in RpcType
  BY DEF Typed, DeliveryTypeOK
<1>2. Kept(rpc) /\ Kept(Observed(rpc)) /\ Kept(AfterClose(rpc)) /\ \A left : Kept(WithLast(left))
  <2>1. CASE rpc = NoRpc
    BY <2>1 DEF NoRpc, Observed, AfterClose, WithLast
  <2>2. CASE rpc # NoRpc
    BY <1>1, <2>2 DEF RpcType, Observed, AfterClose, WithLast
  <2> QED
    BY <2>1, <2>2
<1>4. CASE ExposeNext \/ Committed \/ RetryDeferred \/ StreamEnds \/ GapTimeout \/ DriverStops
  BY <1>2, <1>4 DEF ExposeNext, Committed, RetryDeferred, StreamEnds, GapTimeout, DriverStops
<1>5. CASE CommitRefused
  <2>1. CASE rpc.at = "owed"
    BY <1>1, <1>5, <2>1 DEF CommitRefused, NoRpc, RpcType
  <2>2. CASE rpc.at # "owed"
    BY <1>5, <2>2 DEF CommitRefused
  <2> QED
    BY <2>1, <2>2
<1>6. CASE PopSubmission
  BY <1>1, <1>6 DEF PopSubmission, NoRpc, RpcType
<1>7. CASE CommitSubmission
  BY <1>1, <1>7 DEF CommitSubmission, BarrierReached, NoRpc, RpcType
<1>8. CASE TakeLive
  BY <1>2, <1>8 DEF TakeLive
<1>9. CASE Deliver
  <2> DEFINE told == IF rpc.at = "carried" THEN [rpc EXCEPT !.at = "ok"] ELSE rpc
  <2>1. rpc' = told \/ rpc' = AfterClose(told)
    BY <1>9 DEF Deliver
  <2>2. CASE rpc.at = "carried"
    <3>1. rpc # NoRpc /\ told = [rpc EXCEPT !.at = "ok"]
      BY <2>2 DEF NoRpc
    <3>2. told.env = rpc.env /\ AfterClose(told) = told
      BY <1>1, <3>1 DEF RpcType, AfterClose
    <3> QED
      BY <2>1, <3>1, <3>2
  <2>3. CASE rpc.at # "carried"
    BY <1>2, <2>1, <2>3
  <2> QED
    BY <2>2, <2>3
<1> QED
  BY <1>4, <1>5, <1>6, <1>7, <1>8, <1>9 DEF DriverNext

\* The driver commits only what was buffered, deferred or answered, moves
\* envelopes from the buffer to the deferred ones, and changes its cursors only
\* when a commit starts.
LEMMA DriverCommits ==
    ASSUME Typed, FromIssued, DriverNext
    PROVE  /\ Elements(buffer') \subseteq Elements(buffer)
           /\ Elements(deferred') \subseteq Elements(deferred) \union Elements(buffer)
           /\ \/ \E e \in Issued : Starts(e)
              \/ UNCHANGED cursor /\ (UNCHANGED commit \/ Committed \/ CommitRefused)
<1>1. buffer \in Seq(Envelopes) /\ deferred \in Seq(Envelopes)
  BY DEF Typed, DeliveryTypeOK
<1>2. buffer # <<>> => /\ Head(buffer) \in Elements(buffer)
                       /\ Elements(Tail(buffer)) \subseteq Elements(buffer)
  BY <1>1, ElementsTail
<1>3. deferred # <<>> => /\ Head(deferred) \in Elements(deferred)
                         /\ Elements(Tail(deferred)) \subseteq Elements(deferred)
  BY <1>1, ElementsTail
<1>4. CASE ExposeNext \/ Committed \/ CommitRefused \/ PopSubmission \/ StreamEnds \/ Deliver
           \/ DriverStops
  BY <1>4 DEF ExposeNext, Committed, CommitRefused, PopSubmission, StreamEnds, Deliver, DriverStops
<1>5. CASE GapTimeout
  BY <1>3, <1>5 DEF GapTimeout, TimerSet
<1>6. CASE RetryDeferred
  <2>1. Head(deferred) \in Issued
    BY <1>3, <1>6 DEF RetryDeferred, Unblocked, FromIssued
  <2>2. Starts(Head(deferred))
    BY <1>6 DEF RetryDeferred, Unblocked, Starts, Polls
  <2> QED
    BY <1>3, <1>6, <2>1, <2>2 DEF RetryDeferred, Unblocked
<1>7. CASE CommitSubmission
  <2>1. UNCHANGED <<buffer, deferred>>
    BY <1>7 DEF CommitSubmission
  <2>2. CASE Verdict(rpc.env) = "apply"
    <3>1. rpc # NoRpc
      BY <1>7 DEF CommitSubmission, BarrierReached, NoRpc
    <3>2. Starts(rpc.env) /\ rpc.env \in Issued
      BY <1>7, <2>2, <3>1 DEF CommitSubmission, Starts, Settled, FromIssued
    <3> QED
      BY <2>1, <3>2
  <2>3. CASE Verdict(rpc.env) # "apply"
    BY <1>7, <2>1, <2>3 DEF CommitSubmission
  <2> QED
    BY <2>2, <2>3
<1>8. CASE TakeLive
  <2>1. buffer # <<>> /\ buffer' = Tail(buffer)
    BY <1>8 DEF TakeLive
  <2>2. CASE Verdict(Head(buffer)) = "gap"
    BY <1>2, <1>8, <2>1, <2>2 DEF TakeLive
  <2>3. CASE Verdict(Head(buffer)) = "defer"
    <3>1. deferred' = Append(deferred, Head(buffer)) /\ UNCHANGED <<cursor, commit>>
      BY <1>8, <2>3 DEF TakeLive
    <3>2. Head(buffer) \in Envelopes
      BY <1>1, <1>2, <2>1, ElementsType
    <3>3. Elements(deferred') = Elements(deferred) \union {Head(buffer)}
      BY <1>1, <3>1, <3>2, ElementsAppend
    <3> QED
      BY <1>2, <2>1, <3>1, <3>3
  <2>4. CASE Verdict(Head(buffer)) \notin {"gap", "defer"}
    <3>1. Verdict(Head(buffer)) = "apply"
      BY <2>4 DEF Verdict
    <3>2. Starts(Head(buffer)) /\ UNCHANGED deferred
      BY <1>8, <2>4, <3>1 DEF TakeLive, Starts, ReadsLive, Settled
    <3>3. Head(buffer) \in Issued
      BY <1>2, <2>1 DEF FromIssued
    <3> QED
      BY <1>2, <2>1, <3>2, <3>3
  <2> QED
    BY <2>2, <2>3, <2>4
<1> QED
  BY <1>4, <1>5, <1>6, <1>7, <1>8 DEF DriverNext

\* A driver that has failed never goes on.
LEMMA DriverHealth ==
    ASSUME Typed, DriverNext
    PROVE  /\ Healthy' => Healthy
           /\ CommitRefused => ~Healthy'
<1>1. CASE ExposeNext \/ Committed \/ RetryDeferred \/ PopSubmission
  BY <1>1 DEF ExposeNext, Committed, RetryDeferred, PopSubmission, Polls, Settled, Healthy,
              CommitRefused, NoCommit, Durable
<1>2. CASE CommitRefused
  BY <1>2 DEF CommitRefused, Sends, Healthy, Polls
<1>3. CASE CommitSubmission \/ TakeLive \/ StreamEnds \/ GapTimeout
  BY <1>3 DEF CommitSubmission, TakeLive, StreamEnds, GapTimeout, ReadsLive, Settled, Healthy,
              CommitRefused, NoCommit
<1>4. CASE Deliver \/ DriverStops
  BY <1>4 DEF Deliver, DriverStops, Healthy, CommitRefused, Polls
<1> QED
  BY <1>1, <1>2, <1>3, <1>4 DEF DriverNext

LEMMA FromIssuedStep ==
    ASSUME Typed, FromIssued, [DeliveryNext]_deliveryVars
    PROVE  FromIssued'
<1>1. CASE Quiet
  <2>1. Issued \subseteq Issued' /\ UNCHANGED <<deferred, commit, stored>>
    BY <1>1, QuietKeeps, QuietIssues DEF diskVars
  <2>2. \/ UNCHANGED buffer
        \/ \E e \in Envelopes : e \in Issued' /\ buffer' = Append(buffer, e)
    <3>1. CASE \E e \in Envelopes : Arrive(e)
      BY <2>1, <3>1 DEF Arrive
    <3>2. CASE Answer
      <4>1. issued < Len(History) /\ issued' = issued + 1 /\ world' = world
        BY <3>2 DEF Answer
      <4>2. History[issued + 1] \in Issued' /\ History[issued + 1] \in Envelopes
        BY <4>1, IssuedGrows DEF Typed
      <4> QED
        BY <3>2, <4>2 DEF Answer
    <3>3. CASE ~((\E e \in Envelopes : Arrive(e)) \/ Answer)
      BY <1>1, <3>3 DEF Quiet, Issue, AnswerLost, LinkDown, Leave, PreStop, Submit,
                        HandlerReturns, Receive, deliveryVars
    <3> QED
      BY <3>1, <3>2, <3>3
  <2>3. Elements(buffer') \subseteq Issued'
    <3>1. buffer \in Seq(Envelopes)
      BY DEF Typed, DeliveryTypeOK
    <3>2. ASSUME NEW e \in Envelopes, e \in Issued', buffer' = Append(buffer, e)
          PROVE  Elements(buffer') \subseteq Issued'
      BY <2>1, <3>1, <3>2, ElementsAppend DEF FromIssued
    <3> QED
      BY <2>1, <2>2, <3>2 DEF FromIssued
  <2>4. rpc' # NoRpc => rpc'.env \in Issued'
    <3>1. CASE Answer
      <4>1. issued < Len(History) /\ issued' = issued + 1 /\ world' = world
        BY <3>1 DEF Answer
      <4>2. History[issued + 1] \in Issued'
        BY <4>1, IssuedGrows DEF Typed
      <4>3. rpc'.env = History[issued + 1]
        BY <3>1 DEF Answer, NoRpc
      <4> QED
        BY <4>2, <4>3
    <3>2. CASE Submit
      <4>1. rpc # NoRpc /\ rpc \in RpcType
        BY <3>2 DEF Submit, NoRpc, Typed, DeliveryTypeOK
      <4>2. rpc'.env = rpc.env
        BY <3>2, <4>1 DEF Submit, RpcType
      <4> QED
        BY <2>1, <4>1, <4>2 DEF FromIssued
    <3>3. CASE ~(Answer \/ Submit)
      <4>1. rpc' = rpc \/ rpc' = NoRpc
        BY <1>1, <3>3 DEF Quiet, Issue, AnswerLost, Arrive, LinkDown, Leave, PreStop,
                          HandlerReturns, Receive, deliveryVars, driverVars
      <4> QED
        BY <2>1, <4>1 DEF FromIssued
    <3> QED
      BY <3>1, <3>2, <3>3
  <2> QED
    BY <2>1, <2>3, <2>4 DEF FromIssued
<1>2. CASE Closing
  <2>1. SessionGone
    BY <1>2 DEF Closing, Joined, Crash, BootstrapFails
  <2>2. Elements(<<>>) = {}
    BY ElementsType, EmptySeq
  <2> QED
    BY <2>1, <2>2, IssuedStays DEF SessionGone, FromIssued, diskVars
<1>3. CASE Checkpoint \/ Bootstrap
  BY <1>3, IssuedStays DEF Checkpoint, Bootstrap, FromIssued, diskVars
<1>4. CASE DriverNext
  <2>1. UNCHANGED <<wireVars, diskVars>> /\ Issued' = Issued
    BY <1>4, DriverConfined, IssuedStays
  <2>2. commit' # NoCommit => commit'.env \in Issued
    BY <1>4, DriverCommits DEF FromIssued, Starts, StartCommit, Committed, CommitRefused
  <2> QED
    BY <1>4, <2>1, <2>2, DriverCommits, DriverRequest DEF FromIssued, diskVars
<1>5. CASE CommitSync \/ CommitFails
  <2>1. commit # NoCommit /\ commit \in CommitType
    BY <1>5 DEF CommitSync, CommitFails, NoCommit, Typed, DeliveryTypeOK
  <2>2. commit'.env = commit.env
    BY <1>5, <2>1 DEF CommitSync, CommitFails, CommitType
  <2>3. stored' \subseteq stored \union {commit.env}
    BY <1>5 DEF CommitSync, CommitFails, diskVars
  <2>4. UNCHANGED <<wireVars, buffer, deferred, rpc>>
    BY <1>5 DEF CommitSync, CommitFails
  <2> QED
    BY <2>1, <2>2, <2>3, <2>4, IssuedStays DEF FromIssued
<1> QED
  BY <1>1, <1>2, <1>3, <1>4, <1>5, StepKinds

-----------------------------------------------------------------------------
(* The cursors. *)

\* A commit that starts leads from the durable cursors to the new ones.
LEMMA StartsSynced ==
    ASSUME Typed, Synced, NEW e \in Envelopes, Starts(e), InSession
    PROVE  /\ cursor' = AdvancedFrom(disk, e) /\ cursor = disk
           /\ Applies(disk, e)
           /\ \A s \in Scopes : Content[e].pts[s] > disk.pts[s] => commit'.shows
           /\ \A s \in Scopes : disk.pts[s] <= cursor'.pts[s]
           /\ commit' = [state |-> "asked", env |-> e, shows |-> Exposes(e)]
<1>1. cursor = disk
  BY DEF Starts, Synced, Healthy, NoCommit
<1>2. disk.pts \in [Scopes -> Nat] /\ disk.date \in Nat /\ disk.seq \in Nat
  BY DEF Typed, DeliveryTypeOK, CursorType
<1>3. commit' = [state |-> "asked", env |-> e, shows |-> Exposes(e)] /\ cursor' = Advanced(e)
  BY DEF Starts, StartCommit
<1>4. cursor' = AdvancedFrom(disk, e)
  BY <1>1, <1>3 DEF Advanced, AdvancedFrom
<1>5. \A s \in Scopes : disk.pts[s] <= cursor'.pts[s]
  BY <1>2, <1>4, ContentTyped DEF AdvancedFrom, Larger
<1>6. Applies(disk, e)
  <2>1. \A s \in Scopes : ~AheadInPts(e, s)
    BY DEF Starts, Verdict
  <2> QED
    BY <1>1, <1>2, <2>1, ContentTyped DEF AheadInPts, Applies
<1>7. \A s \in Scopes : Content[e].pts[s] > disk.pts[s] => Exposes(e)
  <2> SUFFICES ASSUME NEW s \in Scopes, Content[e].pts[s] > disk.pts[s] PROVE Exposes(e)
    OBVIOUS
  <2>1. NewInScope(e, s)
    BY <1>1 DEF NewInScope
  <2> QED
    BY <2>1 DEF Exposes
<1> QED
  BY <1>1, <1>3, <1>4, <1>5, <1>6, <1>7

\* The database catches up with the cursors of the committer.
LEMMA DiskCatchesUp ==
    ASSUME Typed, Synced, CommitSync
    PROVE  /\ InSession /\ commit.env \in Envelopes
           /\ disk' = cursor /\ cursor' = cursor
           /\ commit' = [commit EXCEPT !.state = "done"]
           /\ commit'.state = "done" /\ commit'.env = commit.env /\ commit'.shows = commit.shows
           /\ \A s \in Scopes : disk.pts[s] <= disk'.pts[s]
           /\ \A s \in Scopes : Content[commit.env].pts[s] <= disk'.pts[s]
<1> DEFINE c == Content[commit.env]
<1>1. commit.state = "asked" /\ commit # NoCommit /\ InSession
  BY DEF CommitSync, NoCommit, Typed, Closed
<1>2. /\ commit \in [state : {"asked", "done", "failed"}, env : Envelopes, shows : BOOLEAN]
      /\ commit.env \in Envelopes
  BY <1>1 DEF Typed, DeliveryTypeOK, CommitType
<1>3. cursor = AdvancedFrom(disk, commit.env)
  BY <1>1 DEF Synced
<1>4. disk.pts \in [Scopes -> Nat] /\ disk.date \in Nat /\ disk.seq \in Nat
  BY DEF Typed, DeliveryTypeOK, CursorType
<1>5. /\ c.pts \in [Scopes -> Nat] /\ c.date \in Nat /\ c.seq \in Nat
  BY <1>2, ContentTyped
<1>6. disk' = [pts  |-> [s \in Scopes |-> IF Touches(c, s) THEN cursor.pts[s] ELSE disk.pts[s]],
               date |-> IF Touches(c, Account) THEN cursor.date ELSE disk.date,
               seq  |-> IF Touches(c, Account) THEN cursor.seq ELSE disk.seq]
  BY DEF CommitSync
<1>7. \A s \in Scopes : (IF Touches(c, s) THEN cursor.pts[s] ELSE disk.pts[s])
                          = Larger(disk.pts[s], c.pts[s])
  BY <1>3, <1>4, <1>5 DEF AdvancedFrom, Touches, Larger
<1>8. /\ (IF Touches(c, Account) THEN cursor.date ELSE disk.date) = Larger(disk.date, c.date)
      /\ (IF Touches(c, Account) THEN cursor.seq ELSE disk.seq) = Larger(disk.seq, c.seq)
  BY <1>3, <1>4, <1>5 DEF AdvancedFrom, Touches, Larger
<1>9. disk' = cursor
  BY <1>3, <1>6, <1>7, <1>8 DEF AdvancedFrom
<1>10. \A s \in Scopes : disk.pts[s] <= cursor.pts[s] /\ c.pts[s] <= cursor.pts[s]
  BY <1>3, <1>4, <1>5 DEF AdvancedFrom, Larger
<1> QED
  BY <1>1, <1>2, <1>9, <1>10 DEF CommitSync

LEMMA SyncedStep ==
    ASSUME Typed, FromIssued, Rest, Synced, [DeliveryNext]_deliveryVars
    PROVE  Rest' /\ Synced'
<1>1. CASE Quiet
  <2>1. UNCHANGED <<driver, out, cursor, commit, diskVars>> /\ (InSession' <=> InSession)
    BY <1>1, QuietKeeps
  <2>2. Synced'
    BY <2>1 DEF Synced, Healthy, IsDurable, Applies, AdvancedFrom, diskVars
  <2>3. (phase' \in {"off", "asking"}) => (phase' = phase)
    BY <1>1 DEF Quiet, Issue, Answer, AnswerLost, Arrive, LinkDown, Leave, PreStop, Submit,
                HandlerReturns, Receive, deliveryVars
  <2> QED
    BY <2>1, <2>2, <2>3 DEF Rest, diskVars
<1>2. CASE Closing
  <2>1. SessionGone
    BY <1>2 DEF Closing, Joined, Crash, BootstrapFails
  <2> QED
    BY <2>1 DEF SessionGone, Rest, Synced, InSession, diskVars
<1>3. CASE Checkpoint
  <2>1. cursor \in CursorType
    BY DEF Typed, DeliveryTypeOK
  <2>2. phase' = "asking" /\ disk' = disk /\ cursor = disk /\ cursor' = AccountNow
    BY <1>3 DEF Checkpoint, Rest, diskVars
  <2>3. \A s \in Scopes \ {Account} : cursor'.pts[s] = cursor.pts[s]
    BY <2>1, <2>2 DEF AccountNow, CursorType
  <2> QED
    BY <2>2, <2>3 DEF Rest, Synced, InSession
<1>4. CASE Bootstrap
  <2>1. phase' = "live" /\ cursor' = disk' /\ commit' = commit /\ commit = NoCommit
    BY <1>4 DEF Bootstrap, Typed, Closed, InSession
  <2>2. disk' \in CursorType
    BY <1>4, TypedOutside DEF Typed, DeliveryTypeOK
  <2> QED
    BY <2>1, <2>2 DEF Rest, Synced, NoCommit, CursorType
<1>5. CASE DriverNext
  <2>1. InSession /\ phase' = phase /\ UNCHANGED diskVars
    BY <1>5, DriverConfined
  <2>2. Rest'
    BY <2>1 DEF Rest, InSession
  <2>3. ASSUME NEW e \in Issued, Starts(e) PROVE Synced'
    <3>1. e \in Envelopes
      BY WorldTyped DEF Typed
    <3> QED
      BY <2>1, <2>3, <3>1, StartsSynced DEF Synced, diskVars, Applies, AdvancedFrom
  <2>4. ASSUME UNCHANGED cursor, UNCHANGED commit PROVE Synced'
    <3>1. UNCHANGED <<cursor, commit, disk>> /\ (Healthy' => Healthy)
      BY <1>5, <2>1, <2>4, DriverHealth DEF diskVars
    <3> QED
      BY <2>1, <3>1 DEF Synced, Applies, AdvancedFrom, IsDurable
  <2>5. ASSUME UNCHANGED cursor, Committed PROVE Synced'
    <3>1. commit'.state = "none" /\ commit.state = "done"
      BY <2>5 DEF Committed, NoCommit, Durable
    <3>2. UNCHANGED <<cursor, disk>> /\ (Healthy' => Healthy)
      BY <1>5, <2>1, <2>5, DriverHealth DEF diskVars
    <3> QED
      BY <2>1, <3>1, <3>2 DEF Synced
  <2>6. ASSUME UNCHANGED cursor, CommitRefused PROVE Synced'
    <3>1. commit'.state = "none"
      BY <2>6 DEF CommitRefused, NoCommit
    <3>2. UNCHANGED <<cursor, disk>> /\ ~Healthy'
      BY <1>5, <2>1, <2>6, DriverHealth DEF diskVars
    <3> QED
      BY <2>1, <3>1, <3>2 DEF Synced
  <2> QED
    BY <1>5, <2>2, <2>3, <2>4, <2>5, <2>6, DriverCommits
<1>6. CASE CommitSync
  <2>1. phase' = phase
    BY <1>6 DEF CommitSync
  <2>2. disk' \in CursorType
    BY <1>6, TypedOutside DEF Typed, DeliveryTypeOK
  <2>3. /\ InSession /\ disk' = cursor /\ cursor' = cursor /\ commit'.state = "done"
        /\ commit.env \in Envelopes /\ commit'.env = commit.env
        /\ \A s \in Scopes : Content[commit.env].pts[s] <= disk'.pts[s]
    BY <1>6, DiskCatchesUp
  <2>4. \A s \in Scopes : disk'.pts[s] \in Nat /\ Content[commit.env].pts[s] \in Nat
    BY <2>2, <2>3, ContentTyped DEF CursorType
  <2>5. \A s \in Scopes : disk'.pts[s] >= Content[commit.env].pts[s]
    BY <2>3, <2>4
  <2>6. Synced'
    BY <2>3, <2>4, <2>5 DEF Synced, IsDurable
  <2> QED
    BY <2>1, <2>3, <2>6 DEF Rest, InSession
<1>7. CASE CommitFails
  <2>1. commit.state = "asked" /\ commit # NoCommit
    BY <1>7 DEF CommitFails, NoCommit
  <2>2. commit'.state = "failed"
    BY <1>7, <2>1 DEF CommitFails, Typed, DeliveryTypeOK, CommitType
  <2>3. UNCHANGED <<phase, cursor, diskVars>>
    BY <1>7 DEF CommitFails
  <2> QED
    BY <2>2, <2>3 DEF Rest, Synced, InSession, diskVars
<1> QED
  BY <1>1, <1>2, <1>3, <1>4, <1>5, <1>6, <1>7, StepKinds

\* What is issued lies below the counted changes that are yet to be issued.
LEMMA IssuedBelow ==
    ASSUME DeliveryTypeOK, NEW j \in (issued + 1)..Len(History), NEW s \in Scopes,
           Counted(History[j], s)
    PROVE  /\ Content[History[j]].pts[s] \in Nat
           /\ Base[s] < Content[History[j]].pts[s]
           /\ \A e \in Issued : Content[e].pts[s] < Content[History[j]].pts[s]
           /\ ServerPts(s) < Content[History[j]].pts[s]
<1> DEFINE new == Content[History[j]]
<1>1. /\ issued \in Nat /\ Len(History) \in Nat /\ Base[s] \in Nat
      /\ j \in 1..Len(History) /\ History[j] \in Envelopes
      /\ \A i \in 1..issued : History[i] \in Envelopes /\ i \in 1..(j - 1)
  BY WorldTyped
<1>2. new.pts[s] \in Nat /\ new.count[s] \in Nat
  BY <1>1, ContentTyped
<1>3. \A i \in 1..issued : Content[History[i]].pts[s] \in Nat
  BY <1>1, ContentTyped
<1>4. new.count[s] > 0
  BY DEF Counted
<1>5. /\ Base[s] + new.count[s] <= new.pts[s]
      /\ \A i \in 1..(j - 1) : Content[History[i]].pts[s] + new.count[s] <= new.pts[s]
  <2>1. world \in Worlds /\ j \in DOMAIN world.history
    BY <1>1, WorldTyped DEF DeliveryTypeOK, History
  <2> QED
    BY <2>1, <1>4, NumberingAssumption DEF History, Base
<1>6. Base[s] < new.pts[s]
  BY <1>1, <1>2, <1>4, <1>5
<1>7. \A i \in 1..issued : Content[History[i]].pts[s] < new.pts[s]
  <2> SUFFICES ASSUME NEW i \in 1..issued PROVE Content[History[i]].pts[s] < new.pts[s]
    OBVIOUS
  <2>1. Content[History[i]].pts[s] + new.count[s] <= new.pts[s]
    BY <1>1, <1>5
  <2> QED
    BY <1>2, <1>3, <1>4, <2>1
<1> QED
  BY <1>2, <1>6, <1>7, ServerPtsIssued DEF Issued

LEMMA AheadStep ==
    ASSUME Typed, FromIssued, Rest, Synced, Ahead, [DeliveryNext]_deliveryVars
    PROVE  Ahead'
<1>1. /\ issued \in Nat /\ Len(History) \in Nat
      /\ \A s \in Scopes : cursor.pts[s] \in Nat /\ disk.pts[s] \in Nat
  BY WorldTyped DEF Typed, DeliveryTypeOK, CursorType
<1>2. CASE Quiet
  <2>1. UNCHANGED <<cursor, disk>> /\ History' = History
        /\ (issued' = issued \/ issued' = issued + 1)
    BY <1>2, QuietKeeps, QuietIssues DEF diskVars
  <2>2. (issued' + 1)..Len(History) \subseteq (issued + 1)..Len(History)
    BY <1>1, <2>1
  <2> QED
    BY <2>1, <2>2 DEF Ahead, Counted
<1>3. CASE ~Quiet
  <2>1. issued' = issued /\ History' = History
    BY <1>3, StepKinds, DriverConfined
       DEF Closing, Joined, Crash, BootstrapFails, SessionGone, Checkpoint, Bootstrap, CommitSync,
           CommitFails, wireVars, History
  <2> SUFFICES ASSUME NEW j \in (issued + 1)..Len(History), NEW s \in Scopes,
                      Counted(History[j], s)
               PROVE  /\ cursor'.pts[s] < Content[History[j]].pts[s]
                      /\ disk'.pts[s] < Content[History[j]].pts[s]
    BY <2>1 DEF Ahead, Counted
  <2>2. /\ cursor.pts[s] < Content[History[j]].pts[s]
        /\ disk.pts[s] < Content[History[j]].pts[s]
    BY DEF Ahead
  <2>3. /\ Content[History[j]].pts[s] \in Nat
        /\ \A e \in Issued : Content[e].pts[s] < Content[History[j]].pts[s]
        /\ ServerPts(s) < Content[History[j]].pts[s]
    BY IssuedBelow DEF Typed
  <2>4. CASE Closing
    <3>1. SessionGone
      BY <2>4 DEF Closing, Joined, Crash, BootstrapFails
    <3> QED
      BY <2>2, <3>1 DEF SessionGone, diskVars
  <2>5. CASE Checkpoint
    <3>1. cursor.pts \in [Scopes -> Nat]
      BY DEF Typed, DeliveryTypeOK, CursorType
    <3>2. cursor'.pts[s] = cursor.pts[s] \/ cursor'.pts[s] = ServerPts(s)
      BY <2>5, <3>1 DEF Checkpoint, AccountNow
    <3>3. disk' = disk
      BY <2>5 DEF Checkpoint, diskVars
    <3> QED
      BY <2>2, <2>3, <3>2, <3>3
  <2>6. CASE Bootstrap
    <3>1. PICK dialogs \in SUBSET (Scopes \ {Account}) : cursor' = Bootstrapped(dialogs)
      BY <2>6 DEF Bootstrap
    <3>2. cursor \in CursorType
      BY DEF Typed, DeliveryTypeOK
    <3>3. cursor'.pts[s] = cursor.pts[s] \/ cursor'.pts[s] = ServerPts(s)
      BY <3>1, <3>2 DEF Bootstrapped, CursorType
    <3>4. disk' = cursor'
      BY <2>6 DEF Bootstrap
    <3> QED
      BY <2>2, <2>3, <3>3, <3>4
  <2>7. CASE DriverNext
    <3>1. InSession /\ disk' = disk
      BY <2>7, DriverConfined DEF diskVars
    <3>2. ASSUME NEW e \in Issued, Starts(e)
          PROVE  cursor'.pts[s] < Content[History[j]].pts[s]
      <4>1. e \in Envelopes
        BY WorldTyped DEF Typed
      <4>2. cursor' = AdvancedFrom(disk, e)
        BY <3>1, <3>2, <4>1, StartsSynced
      <4>3. cursor'.pts[s] = Larger(disk.pts[s], Content[e].pts[s])
        BY <4>2 DEF AdvancedFrom
      <4> QED
        BY <2>2, <2>3, <4>3 DEF Larger
    <3> QED
      BY <2>2, <2>7, <3>1, <3>2, DriverCommits
  <2>8. CASE CommitSync
    BY <2>2, <2>8, DiskCatchesUp
  <2>9. CASE CommitFails
    BY <2>2, <2>9 DEF CommitFails, diskVars
  <2> QED
    BY <1>3, <2>4, <2>5, <2>6, <2>7, <2>8, <2>9, StepKinds
<1> QED
  BY <1>2, <1>3

-----------------------------------------------------------------------------
(* No cursor passes what is not stored. *)

\* A counted change that the commit under way brings the durable cursor up to
\* is the one that it commits.
LEMMA CommitPassesItself ==
    ASSUME Typed, FromIssued, Synced, InSession, commit.state = "asked",
           NEW i \in 1..issued, NEW s \in Scopes, Counted(History[i], s), disk.pts[s] # 0,
           disk.pts[s] < Content[History[i]].pts[s], Content[History[i]].pts[s] <= cursor.pts[s]
    PROVE  History[i] = commit.env /\ commit.shows
<1>1. /\ cursor = AdvancedFrom(disk, commit.env) /\ Applies(disk, commit.env)
      /\ Content[commit.env].pts[s] > disk.pts[s] => commit.shows
  BY DEF Synced
<1>2. commit.env \in Issued
  BY DEF FromIssued, NoCommit
<1>3. PICK k \in 1..issued : commit.env = History[k]
  BY <1>2 DEF Issued
<1>4. /\ issued \in Nat /\ \A x \in 1..issued : History[x] \in Envelopes /\ x \in DOMAIN History
  BY WorldTyped DEF Typed
<1> DEFINE mine == Content[History[k]]
           other == Content[History[i]]
<1>5. /\ mine.pts[s] \in Nat /\ mine.count[s] \in Nat /\ other.pts[s] \in Nat
      /\ other.count[s] \in Nat /\ disk.pts[s] \in Nat
  BY <1>4, ContentTyped DEF Typed, DeliveryTypeOK, CursorType
<1>6. cursor.pts[s] = Larger(disk.pts[s], mine.pts[s])
  BY <1>1, <1>3 DEF AdvancedFrom
<1>7. other.pts[s] <= mine.pts[s] /\ disk.pts[s] < mine.pts[s]
  BY <1>5, <1>6 DEF Larger
<1>8. mine.pts[s] = disk.pts[s] + mine.count[s]
  BY <1>1, <1>3, <1>5, <1>7 DEF Applies
<1>9. mine.count[s] > 0 /\ other.count[s] > 0
  BY <1>5, <1>7, <1>8 DEF Counted
<1>10. world \in Worlds
  BY DEF Typed, DeliveryTypeOK
<1>11. CASE i < k
  <2>1. i \in 1..(k - 1)
    BY <1>4, <1>11
  <2>2. other.pts[s] + mine.count[s] <= mine.pts[s]
    BY <1>4, <1>9, <1>10, <2>1, NumberingAssumption DEF History
  <2> QED
    BY <1>5, <1>8, <2>2
<1>12. CASE k < i
  <2>1. k \in 1..(i - 1)
    BY <1>4, <1>12
  <2>2. mine.pts[s] + other.count[s] <= other.pts[s]
    BY <1>4, <1>9, <1>10, <2>1, NumberingAssumption DEF History
  <2> QED
    BY <1>5, <1>7, <1>9, <2>2
<1>13. CASE i = k
  BY <1>1, <1>3, <1>5, <1>7, <1>13
<1> QED
  BY <1>4, <1>11, <1>12, <1>13

LEMMA BackedStep ==
    ASSUME Typed, FromIssued, Rest, Synced, Ahead, CursorBackedByRecords,
           [DeliveryNext]_deliveryVars
    PROVE  CursorBackedByRecords'
<1>1. issued \in Nat /\ Len(History) \in Nat /\ issued <= Len(History)
  BY WorldTyped DEF Typed
<1>2. /\ disk.pts \in [Scopes -> Nat] /\ baseline \in [Scopes -> Nat] /\ snapshot \in [Scopes -> Nat]
      /\ \A i \in 1..issued, s \in Scopes : Content[History[i]].pts[s] \in Nat
  <2>1. \A i \in 1..issued : History[i] \in Envelopes
    BY <1>1, WorldTyped DEF Typed
  <2> QED
    BY <2>1, ContentTyped DEF Typed, DeliveryTypeOK, CursorType
<1>3. CASE Quiet
  <2>1. UNCHANGED diskVars /\ History' = History
        /\ (issued' = issued \/ (issued < Len(History) /\ issued' = issued + 1))
    BY <1>3, QuietKeeps, QuietIssues
  <2>2. ASSUME issued < Len(History), NEW s \in Scopes, Content[History[issued + 1]].count[s] > 0
        PROVE  ~(Content[History[issued + 1]].pts[s] <= disk.pts[s])
    <3>1. issued + 1 \in (issued + 1)..Len(History) /\ issued + 1 \in 1..Len(History)
      BY <1>1, <2>2
    <3>2. Content[History[issued + 1]].pts[s] \in Nat
      BY <3>1, WorldTyped, ContentTyped DEF Typed
    <3>3. disk.pts[s] < Content[History[issued + 1]].pts[s]
      BY <2>2, <3>1 DEF Ahead, Counted
    <3> QED
      BY <1>2, <3>2, <3>3
  <2>3. \A i \in 1..issued' : i \in 1..issued \/ (i = issued + 1 /\ issued < Len(History))
    BY <1>1, <2>1
  <2> QED
    BY <2>1, <2>2, <2>3 DEF CursorBackedByRecords, diskVars
<1>4. CASE Closing \/ Checkpoint \/ DriverNext \/ CommitFails
  <2>1. UNCHANGED <<wireVars, diskVars>>
    BY <1>4, DriverConfined DEF Closing, Joined, Crash, BootstrapFails, SessionGone, Checkpoint,
                                CommitFails
  <2> QED
    BY <2>1 DEF CursorBackedByRecords, diskVars, wireVars, History
<1>5. CASE Bootstrap
  <2>1. PICK dialogs \in SUBSET (Scopes \ {Account}) :
            /\ cursor' = Bootstrapped(dialogs)
            /\ snapshot' = [s \in Scopes |-> IF s \in dialogs \union {Account} THEN issued
                                             ELSE snapshot[s]]
    BY <1>5 DEF Bootstrap
  <2>2. /\ issued' = issued /\ History' = History /\ stored' = stored /\ baseline' = baseline
        /\ disk' = cursor' /\ phase = "asking"
    BY <1>5 DEF Bootstrap, wireVars, History
  <2>3. \A s \in Scopes : s \notin dialogs \union {Account} => disk'.pts[s] = disk.pts[s]
    <3>1. cursor \in CursorType
      BY DEF Typed, DeliveryTypeOK
    <3> QED
      BY <2>1, <2>2, <3>1 DEF Bootstrapped, CursorType, Rest
  <2> QED
    BY <1>1, <2>1, <2>2, <2>3 DEF CursorBackedByRecords
<1>6. CASE CommitSync
  <2>1. /\ issued' = issued /\ History' = History /\ snapshot' = snapshot
        /\ stored' = IF commit.shows THEN stored \union {commit.env} ELSE stored
        /\ baseline' = [s \in Scopes |-> IF disk.pts[s] = 0 /\ disk'.pts[s] # 0
                                         THEN disk'.pts[s] ELSE baseline[s]]
        /\ commit.state = "asked"
    BY <1>6 DEF CommitSync, wireVars, History
  <2>2. InSession /\ disk' = cursor
    BY <1>6, DiskCatchesUp
  <2> SUFFICES ASSUME NEW i \in 1..issued, NEW s \in Scopes,
                      Content[History[i]].pts[s] > baseline'[s],
                      Content[History[i]].pts[s] <= disk'.pts[s],
                      Content[History[i]].count[s] > 0
               PROVE  History[i] \in stored' \/ i <= snapshot[s]
    BY <2>1 DEF CursorBackedByRecords
  <2>3. cursor.pts[s] \in Nat /\ disk.pts[s] \in Nat /\ Content[History[i]].pts[s] \in Nat
    BY <1>2 DEF Typed, DeliveryTypeOK, CursorType
  <2>4. disk.pts[s] = 0 => baseline'[s] = disk'.pts[s] \/ disk'.pts[s] = 0
    BY <2>1
  <2>5. disk.pts[s] # 0
    <3> SUFFICES ASSUME disk.pts[s] = 0 PROVE FALSE
      OBVIOUS
    <3>1. disk'.pts[s] = 0
      BY <2>2, <2>3, <2>4
    <3>2. baseline'[s] = baseline[s]
      BY <2>1, <3>1
    <3> QED
      BY <1>2, <2>3, <3>1, <3>2
  <2>6. baseline'[s] = baseline[s]
    BY <2>1, <2>5
  <2>7. CASE Content[History[i]].pts[s] <= disk.pts[s]
    BY <2>1, <2>6, <2>7 DEF CursorBackedByRecords
  <2>8. CASE disk.pts[s] < Content[History[i]].pts[s]
    <3>1. History[i] = commit.env /\ commit.shows
      BY <2>1, <2>2, <2>5, <2>8, CommitPassesItself DEF Counted
    <3> QED
      BY <2>1, <3>1
  <2> QED
    BY <2>3, <2>7, <2>8
<1> QED
  BY <1>3, <1>4, <1>5, <1>6, StepKinds

-----------------------------------------------------------------------------
(* Durable before exposed. *)

\* Beside what the application sees: the records of a finished commit.
Exposure == /\ DurableBeforeExposed
            /\ (commit.state = "done" /\ commit.shows) => commit.env \in stored

\* A batch in a queue is still there after another is taken or put.
LEMMA QueueElements ==
    ASSUME Typed
    PROVE  /\ ready # <<>> => Elements(ready) = {Head(ready)} \union Elements(Tail(ready))
           /\ channel # <<>> => Elements(channel) = {Head(channel)} \union Elements(Tail(channel))
           /\ Elements(Append(channel, out)) = Elements(channel) \union {out}
           /\ Elements(ready \o EventsOf(commit)) = Elements(ready) \union Elements(EventsOf(commit))
           /\ \A e \in Envelopes, n \in Nat : Elements(Append(seen, <<e, n>>))
                                                = Elements(seen) \union {<<e, n>>}
           /\ \A e, n : Event(e, n) \notin {Nothing, Failure}
           /\ Elements(<<>>) = {}
<1>1. /\ ready \in Seq(EventType) /\ channel \in Seq(Batches) /\ out \in Batches
      /\ seen \in Seq(Envelopes \X Nat) /\ EventsOf(commit) \in Seq(EventType)
  BY CommitTyped DEF Typed, DeliveryTypeOK
<1>2. \A e \in Envelopes, n \in Nat : Elements(Append(seen, <<e, n>>))
                                         = Elements(seen) \union {<<e, n>>}
  BY <1>1, ElementsAppend
<1>3. \A e, n : Event(e, n) \notin {Nothing, Failure}
  BY DEF Event, Nothing, Failure
<1>4. Elements(<<>>) = {}
  BY ElementsType, EmptySeq
<1>5. ready # <<>> => Elements(ready) = {Head(ready)} \union Elements(Tail(ready))
  BY <1>1, ElementsTail
<1>6. channel # <<>> => Elements(channel) = {Head(channel)} \union Elements(Tail(channel))
  BY <1>1, ElementsTail
<1>7. Elements(Append(channel, out)) = Elements(channel) \union {out}
  BY <1>1, ElementsAppend
<1>8. Elements(ready \o EventsOf(commit)) = Elements(ready) \union Elements(EventsOf(commit))
  BY <1>1, ElementsConcat
<1> QED
  BY <1>2, <1>3, <1>4, <1>5, <1>6, <1>7, <1>8

\* The queues and the batch after a commit is read off: its events follow those
\* that were ready, and the first of them all is sent.
LEMMA CommittedExposes ==
    ASSUME Typed, Committed, NEW e, NEW n
    PROVE  out' = Event(e, n) \/ Event(e, n) \in Elements(ready')
             <=> Event(e, n) \in Elements(ready) \/ Event(e, n) \in Elements(EventsOf(commit))
<1> DEFINE all == ready \o EventsOf(commit)
<1>1. all \in Seq(EventType)
  BY CommitTyped, ConcatProperties DEF Typed, DeliveryTypeOK
<1>2. /\ out' = IF all = <<>> THEN Nothing ELSE Head(all)
      /\ ready' = IF all = <<>> THEN <<>> ELSE Tail(all)
  BY DEF Committed, Sends
<1>3. Elements(all) = Elements(ready) \union Elements(EventsOf(commit))
  BY QueueElements
<1> HIDE DEF all
<1>4. CASE all = <<>>
  BY <1>2, <1>3, <1>4, QueueElements
<1>5. CASE all # <<>>
  <2>1. Elements(all) = {Head(all)} \union Elements(Tail(all))
    BY <1>1, <1>5, ElementsTail
  <2> QED
    BY <1>2, <1>3, <1>5, <2>1
<1> QED
  BY <1>4, <1>5

\* What is exposed was so before, or comes from the commit that is read off.
LEMMA ExposedFrom ==
    ASSUME Typed, [DeliveryNext]_deliveryVars, NEW e, NEW n, Exposed(e, n)'
    PROVE  \/ Exposed(e, n)
           \/ Committed /\ commit.shows /\ e = commit.env
<1> DEFINE event == Event(e, n)
<1>1. \/ out' = event \/ event \in Elements(ready') \/ event \in Elements(channel')
      \/ <<e, n>> \in Elements(seen')
  BY DEF Exposed, HandedOver, Event
<1> SUFFICES \/ out = event \/ event \in Elements(ready) \/ event \in Elements(channel)
             \/ <<e, n>> \in Elements(seen)
             \/ Committed /\ commit.shows /\ e = commit.env
  BY DEF Exposed, HandedOver
<1>2. event \notin {Nothing, Failure}
  BY QueueElements
<1>3. CASE Quiet
  <2>1. CASE Receive
    <3>1. UNCHANGED <<out, ready>> /\ channel # <<>> /\ channel' = Tail(channel)
      BY <2>1 DEF Receive
    <3>2. Elements(channel) = {Head(channel)} \union Elements(channel')
      BY <3>1, QueueElements
    <3>3. CASE Head(channel).kind = "event"
      <4>1. seen' = Append(seen, <<Head(channel).env, Head(channel).nth>>)
        BY <2>1, <3>3 DEF Receive
      <4>2. Head(channel) \in Batches
        BY <3>1, HeadTailProperties DEF Typed, DeliveryTypeOK
      <4>3. Head(channel) \in EventType
        BY <3>3, <4>2 DEF Batches, Nothing, Failure
      <4>4. Head(channel).env \in Envelopes /\ Head(channel).nth \in Nat
            /\ Head(channel) = Event(Head(channel).env, Head(channel).nth)
        BY <4>3 DEF EventType, Event
      <4>5. Elements(seen') = Elements(seen) \union {<<Head(channel).env, Head(channel).nth>>}
        BY <4>1, <4>4, QueueElements
      <4>6. <<e, n>> = <<Head(channel).env, Head(channel).nth>> => event = Head(channel)
        BY <4>4
      <4> QED
        BY <1>1, <3>1, <3>2, <4>5, <4>6
    <3>4. CASE Head(channel).kind # "event"
      BY <1>1, <2>1, <3>1, <3>2, <3>4 DEF Receive
    <3> QED
      BY <3>3, <3>4
  <2>2. CASE ~Receive
    <3>1. UNCHANGED <<out, ready, channel, seen>>
      BY <1>3, <2>2 DEF Quiet, Issue, Answer, AnswerLost, Arrive, LinkDown, Leave, PreStop, Submit,
                        HandlerReturns, deliveryVars, driverVars
    <3> QED
      BY <1>1, <3>1
  <2> QED
    BY <2>1, <2>2
<1>4. CASE Closing
  <2>1. SessionGone
    BY <1>4 DEF Closing, Joined, Crash, BootstrapFails
  <2> QED
    BY <1>1, <1>2, <2>1, QueueElements DEF SessionGone
<1>5. CASE Checkpoint \/ Bootstrap \/ CommitSync \/ CommitFails
  BY <1>1, <1>5 DEF Checkpoint, Bootstrap, CommitSync, CommitFails
<1>6. CASE DriverNext
  <2>1. seen' = seen
    BY <1>6, DriverConfined
  <2>2. CASE ExposeNext
    <3>1. /\ channel' = channel /\ ready # <<>> /\ out' = Head(ready) /\ ready' = Tail(ready)
      BY <2>2 DEF ExposeNext, Sends
    <3> QED
      BY <1>1, <2>1, <3>1, QueueElements
  <2>3. CASE Committed
    <3>1. channel' = channel
      BY <2>3 DEF Committed
    <3>2. event \in Elements(EventsOf(commit)) => commit.shows /\ e = commit.env
      BY CommitTyped DEF Typed, DeliveryTypeOK
    <3> QED
      BY <1>1, <2>1, <2>3, <3>1, <3>2, CommittedExposes
  <2>4. CASE Deliver
    <3>1. /\ channel' = Append(channel, out) /\ ready' = ready /\ out' = Nothing
      BY <2>4 DEF Deliver
    <3> QED
      BY <1>1, <1>2, <2>1, <3>1, QueueElements
  <2>5. CASE ~(ExposeNext \/ Committed \/ Deliver)
    <3>1. UNCHANGED <<ready, channel>> /\ (out' = out \/ out' \in {Nothing, Failure})
      BY <1>6, <2>5 DEF DriverNext, CommitRefused, RetryDeferred, PopSubmission, CommitSubmission,
                        TakeLive, StreamEnds, GapTimeout, DriverStops, Sends
    <3> QED
      BY <1>1, <1>2, <2>1, <3>1
  <2> QED
    BY <2>2, <2>3, <2>4, <2>5
<1> QED
  BY <1>3, <1>4, <1>5, <1>6, StepKinds

\* What is stored stays stored.
LEMMA StoredGrows ==
    ASSUME Typed, [DeliveryNext]_deliveryVars
    PROVE  stored \subseteq stored'
<1>1. CASE Quiet \/ DriverNext
  BY <1>1, QuietKeeps, DriverConfined DEF diskVars
<1>2. CASE ~(Quiet \/ DriverNext)
  BY <1>2, StepKinds DEF Closing, Joined, Crash, BootstrapFails, SessionGone, Checkpoint, Bootstrap,
                         CommitSync, CommitFails, diskVars
<1> QED
  BY <1>1, <1>2

LEMMA ExposureStep ==
    ASSUME Typed, FromIssued, Synced, Exposure, [DeliveryNext]_deliveryVars
    PROVE  Exposure'
<1>1. ASSUME NEW e \in Envelopes, NEW n \in 1..Content[e].events, Exposed(e, n)'
      PROVE  e \in stored'
  <2>1. CASE Exposed(e, n)
    BY <2>1, StoredGrows DEF Exposure, DurableBeforeExposed
  <2>2. CASE Committed /\ commit.shows /\ e = commit.env
    BY <2>2, StoredGrows DEF Exposure, Committed, Durable
  <2> QED
    BY <1>1, <2>1, <2>2, ExposedFrom
<1>2. ASSUME commit'.state = "done", commit'.shows PROVE commit'.env \in stored'
  <2>1. CASE commit' = commit
    BY <1>2, <2>1, StoredGrows DEF Exposure
  <2>2. CASE CommitSync
    <3>1. stored' = IF commit.shows THEN stored \union {commit.env} ELSE stored
      BY <2>2 DEF CommitSync
    <3> QED
      BY <1>2, <2>2, <3>1, DiskCatchesUp
  <2>3. CASE CommitFails \/ Closing \/ DriverNext
    <3>1. commit'.state # "done" \/ commit' = commit
      <4>1. CASE CommitFails
        BY <4>1 DEF CommitFails, Typed, DeliveryTypeOK, CommitType, NoCommit
      <4>2. CASE Closing
        BY <4>2 DEF Closing, Joined, Crash, BootstrapFails, SessionGone, NoCommit
      <4>3. CASE DriverNext
        BY <4>3, DriverCommits DEF Starts, StartCommit, Committed, CommitRefused, NoCommit
      <4> QED
        BY <2>3, <4>1, <4>2, <4>3
    <3> QED
      BY <1>2, <2>1, <3>1
  <2>4. CASE Quiet \/ Checkpoint \/ Bootstrap
    <3>1. commit' = commit
      BY <2>4, QuietKeeps DEF Checkpoint, Bootstrap
    <3> QED
      BY <2>1, <3>1
  <2> QED
    BY <2>2, <2>3, <2>4, StepKinds
<1> QED
  BY <1>1, <1>2 DEF Exposure, DurableBeforeExposed

-----------------------------------------------------------------------------
(* The barrier before a submission. *)

RequestRecord ==
    [at : {"answered", "submitted", "queued", "owed", "carried", "ok", "failed", "lost"},
     env : Envelopes, ahead : Nat, prefix : SUBSET Envelopes]

LEMMA RequestFields ==
    ASSUME Typed, rpc.at # "none"
    PROVE  rpc \in RequestRecord
BY DEF Typed, DeliveryTypeOK, RpcType, RequestRecord, NoRpc

\* While a session lasts, what is durable stays so.
LEMMA DurableStays ==
    ASSUME Typed, Synced, [DeliveryNext]_deliveryVars, ~Bootstrap, NEW e \in Envelopes, IsDurable(e)
    PROVE  IsDurable(e)'
<1>1. CASE CommitSync
  <2>1. \A s \in Scopes : disk.pts[s] \in Nat /\ disk'.pts[s] \in Nat /\ Content[e].pts[s] \in Nat
    BY <1>1, TypedOutside, ContentTyped DEF Typed, DeliveryTypeOK, CursorType
  <2>2. \A s \in Scopes : disk.pts[s] <= disk'.pts[s]
    BY <1>1, DiskCatchesUp
  <2> QED
    BY <2>1, <2>2 DEF IsDurable
<1>2. CASE ~CommitSync
  <2>1. disk' = disk
    BY <1>2, StepKinds, QuietKeeps, DriverConfined
       DEF Closing, Joined, Crash, BootstrapFails, SessionGone, Checkpoint, CommitFails, diskVars
  <2> QED
    BY <2>1 DEF IsDurable
<1> QED
  BY <1>1, <1>2

\* Outside the driver a queued submission is left alone, and the buffer only
\* grows at its end.
LEMMA BarrierAheadQuiet ==
    ASSUME Typed, BarrierAhead, Quiet
    PROVE  BarrierAhead'
<1> SUFFICES ASSUME rpc'.at = "queued", Healthy', commit'.state # "failed"
             PROVE  /\ Waits' <= Len(buffer')
                    /\ \A e \in rpc'.prefix : \/ IsDurable(e)'
                                              \/ e = commit'.env
                                              \/ e \in Elements(deferred')
                                              \/ \E i \in 1..Waits' : buffer'[i] = e
  BY DEF BarrierAhead
<1>1. UNCHANGED <<driver, out, deferred, commit, disk>>
  BY QuietKeeps DEF diskVars
<1>2. UNCHANGED rpc
  <2>1. CASE Answer
    BY <2>1 DEF Answer, NoRpc
  <2>2. CASE Submit
    <3>1. rpc \in RequestRecord
      BY <2>2, RequestFields DEF Submit
    <3> QED
      BY <2>2, <3>1 DEF Submit, RequestRecord
  <2>3. CASE HandlerReturns
    BY <2>3 DEF HandlerReturns, NoRpc
  <2>4. CASE ~(Answer \/ Submit \/ HandlerReturns)
    BY <2>4 DEF Quiet, Issue, AnswerLost, Arrive, LinkDown, Leave, PreStop, Receive, deliveryVars,
                driverVars
  <2> QED
    BY <2>1, <2>2, <2>3, <2>4
<1>3. rpc \in RequestRecord /\ Waits \in Nat /\ Waits' = Waits
  <2>1. rpc \in RequestRecord
    BY <1>2, RequestFields
  <2>2. Len(deferred) \in Nat
    BY LenProperties DEF Typed, DeliveryTypeOK
  <2> QED
    BY <1>1, <1>2, <2>1, <2>2 DEF Waits, RequestRecord
<1>4. /\ Waits <= Len(buffer)
      /\ \A e \in rpc.prefix : \/ IsDurable(e) \/ e = commit.env \/ e \in Elements(deferred)
                               \/ \E i \in 1..Waits : buffer[i] = e
  BY <1>1, <1>2 DEF BarrierAhead, Healthy
<1>5. /\ buffer \in Seq(Envelopes) /\ Len(buffer) \in Nat
      /\ Len(buffer) <= Len(buffer') /\ Len(buffer') \in Nat
      /\ \A i \in 1..Len(buffer) : buffer'[i] = buffer[i]
  <2>1. buffer \in Seq(Envelopes) /\ Len(buffer) \in Nat
    BY LenProperties DEF Typed, DeliveryTypeOK
  <2>2. buffer' = buffer \/ \E e \in Envelopes : buffer' = Append(buffer, e)
    <3>1. ~Answer
      BY <1>2 DEF Answer, NoRpc
    <3> QED
      BY <3>1 DEF Quiet, Issue, AnswerLost, Arrive, LinkDown, Leave, PreStop, Submit,
                  HandlerReturns, Receive, deliveryVars
  <2>3. ASSUME NEW e \in Envelopes, buffer' = Append(buffer, e)
        PROVE  /\ Len(buffer) <= Len(buffer') /\ Len(buffer') \in Nat
               /\ \A i \in 1..Len(buffer) : buffer'[i] = buffer[i]
    BY <2>1, <2>3, AppendProperties
  <2> QED
    BY <2>1, <2>2, <2>3
<1>6. \A e : IsDurable(e) => IsDurable(e)'
  BY <1>1 DEF IsDurable
<1>7. 1..Waits \subseteq 1..Len(buffer) /\ Waits' <= Len(buffer')
  BY <1>3, <1>4, <1>5
<1> QED
  BY <1>1, <1>2, <1>3, <1>4, <1>5, <1>6, <1>7

\* An envelope that is taken from the queues goes where the submission still
\* waits for it.
LEMMA BarrierAheadTakes ==
    ASSUME Typed, Synced, BarrierAhead, rpc'.at = "queued", Healthy', RetryDeferred \/ TakeLive
    PROVE  BarrierAhead'
<1>1. InSession /\ UNCHANGED diskVars /\ driver = "polling" /\ commit = NoCommit /\ Healthy
  BY DriverConfined DEF DriverNext, RetryDeferred, TakeLive, ReadsLive, Settled, Polls, Healthy
<1>2. rpc' = rpc \/ rpc' = Observed(rpc)
  BY DEF RetryDeferred, TakeLive
<1>3. rpc.at = "queued"
  <2>1. rpc \in RpcType
    BY DEF Typed, DeliveryTypeOK
  <2> QED
    BY <1>2, <2>1 DEF Observed, RpcType, NoRpc
<1>4. rpc \in RequestRecord /\ rpc.ahead \in Nat /\ rpc.prefix \subseteq Envelopes
  BY <1>3, RequestFields DEF RequestRecord
<1>5. Observed(rpc).prefix = rpc.prefix
      /\ Observed(rpc).ahead = IF rpc.ahead > 0 THEN rpc.ahead - 1 ELSE 0
  BY <1>3, <1>4 DEF Observed, RequestRecord
<1>6. /\ buffer \in Seq(Envelopes) /\ Len(buffer) \in Nat
      /\ deferred \in Seq(Envelopes) /\ Len(deferred) \in Nat
  BY LenProperties DEF Typed, DeliveryTypeOK
<1>7. /\ Waits <= Len(buffer) /\ Waits \in Nat
      /\ \A e \in rpc.prefix : \/ IsDurable(e) \/ e \in Elements(deferred)
                               \/ \E i \in 1..Waits : buffer[i] = e
  <2>1. commit.state # "failed" /\ \A e \in rpc.prefix : e # commit.env
    BY <1>1, <1>4, DeliveryAssumption DEF NoCommit
  <2> QED
    BY <1>1, <1>3, <1>4, <1>6, <2>1 DEF BarrierAhead, Waits
<1>8. \A e : IsDurable(e) => IsDurable(e)'
  BY <1>1 DEF IsDurable, diskVars
<1>9. CASE RetryDeferred
  <2>1. /\ deferred # <<>> /\ deferred' = Tail(deferred) /\ buffer' = buffer
        /\ rpc' = Observed(rpc) /\ commit'.env = Head(deferred)
    BY <1>9 DEF RetryDeferred, Unblocked, StartCommit
  <2>2. /\ Len(deferred') = Len(deferred) - 1 /\ Len(deferred) > 0
        /\ Elements(deferred) = {Head(deferred)} \union Elements(deferred')
    BY <1>6, <2>1, HeadTailProperties, EmptySeq, ElementsTail
  <2>3. Waits' = Waits
    BY <1>4, <1>5, <1>6, <2>1, <2>2 DEF Waits
  <2> QED
    BY <1>5, <1>7, <1>8, <2>1, <2>2, <2>3 DEF BarrierAhead
<1>10. CASE TakeLive
  <2>1. buffer # <<>> /\ buffer' = Tail(buffer)
    BY <1>10 DEF TakeLive
  <2>2. /\ Len(buffer') = Len(buffer) - 1 /\ Len(buffer) > 0 /\ Head(buffer) = buffer[1]
        /\ \A i \in 1..(Len(buffer) - 1) : buffer'[i] = buffer[i + 1]
    BY <1>6, <2>1, HeadTailProperties, EmptySeq
  <2>3. (Waits' = IF Waits > 0 THEN Waits - 1 ELSE 0)
        => /\ Waits' <= Len(buffer')
           /\ \A e \in rpc.prefix : \/ IsDurable(e)' \/ e \in Elements(deferred)
                                    \/ e = Head(buffer)
                                    \/ \E i \in 1..Waits' : buffer'[i] = e
    <3> SUFFICES ASSUME Waits' = IF Waits > 0 THEN Waits - 1 ELSE 0
                 PROVE  /\ Waits' <= Len(buffer')
                        /\ \A e \in rpc.prefix : \/ IsDurable(e)' \/ e \in Elements(deferred)
                                                 \/ e = Head(buffer)
                                                 \/ \E i \in 1..Waits' : buffer'[i] = e
      OBVIOUS
    <3>1. Waits' <= Len(buffer') /\ Waits' \in Nat
      BY <1>6, <1>7, <2>2
    <3>2. ASSUME NEW i \in 1..Waits, i # 1
          PROVE  i - 1 \in 1..Waits' /\ buffer'[i - 1] = buffer[i]
      <4>1. i - 1 \in 1..Waits' /\ i - 1 \in 1..(Len(buffer) - 1) /\ (i - 1) + 1 = i
        BY <1>6, <1>7, <3>2
      <4> QED
        BY <2>2, <4>1
    <3>3. \A i \in 1..Waits : buffer[i] = Head(buffer) \/ \E k \in 1..Waits' : buffer'[k] = buffer[i]
      BY <2>2, <3>2
    <3> QED
      BY <1>7, <1>8, <3>1, <3>3
  <2>4. CASE Verdict(Head(buffer)) = "gap"
    BY <1>10, <2>4 DEF TakeLive, Sends, Healthy
  <2>5. CASE Verdict(Head(buffer)) = "defer"
    <3>1. deferred' = Append(deferred, Head(buffer)) /\ rpc' = rpc /\ commit' = commit
      BY <1>10, <2>5 DEF TakeLive
    <3>2. Head(buffer) \in Envelopes
      BY <1>6, <2>1, HeadTailProperties
    <3>3. /\ Len(deferred') = Len(deferred) + 1
          /\ Elements(deferred') = Elements(deferred) \union {Head(buffer)}
      BY <1>6, <3>1, <3>2, AppendProperties, ElementsAppend
    <3>4. Waits' = IF Waits > 0 THEN Waits - 1 ELSE 0
      BY <1>4, <1>6, <3>1, <3>3 DEF Waits
    <3> QED
      BY <2>3, <3>1, <3>3, <3>4 DEF BarrierAhead
  <2>6. CASE Verdict(Head(buffer)) \notin {"gap", "defer"}
    <3>1. deferred' = deferred /\ rpc' = Observed(rpc) /\ commit'.env = Head(buffer)
      BY <1>10, <2>6 DEF TakeLive, StartCommit
    <3>2. Waits' = IF Waits > 0 THEN Waits - 1 ELSE 0
      BY <1>4, <1>5, <1>6, <3>1 DEF Waits
    <3> QED
      BY <1>5, <2>3, <3>1, <3>2 DEF BarrierAhead
  <2> QED
    BY <2>4, <2>5, <2>6
<1> QED
  BY <1>9, <1>10

LEMMA BarrierAheadStep ==
    ASSUME Typed, FromIssued, Synced, BarrierAhead, [DeliveryNext]_deliveryVars
    PROVE  BarrierAhead'
<1>1. CASE Quiet
  BY <1>1, BarrierAheadQuiet
<1>2. CASE Closing \/ Checkpoint \/ Bootstrap
  <2>1. rpc' = NoRpc
    BY <1>2 DEF Closing, Joined, Crash, BootstrapFails, SessionGone, Checkpoint, Bootstrap, Typed,
                Closed, InSession
  <2> QED
    BY <2>1 DEF NoRpc, BarrierAhead
<1>3. CASE CommitSync
  <2>1. /\ UNCHANGED <<buffer, deferred, rpc, driver, out>> /\ commit.state = "asked"
        /\ commit'.env = commit.env
    BY <1>3, DiskCatchesUp DEF CommitSync
  <2>2. rpc.at = "queued" => \A e \in rpc.prefix : IsDurable(e) => IsDurable(e)'
    BY <1>3, RequestFields, DurableStays DEF CommitSync, Bootstrap, Typed, Closed, InSession,
                                             RequestRecord, NoCommit
  <2> QED
    BY <2>1, <2>2 DEF BarrierAhead, Waits, Healthy
<1>4. CASE CommitFails
  BY <1>4 DEF CommitFails, BarrierAhead, Typed, DeliveryTypeOK, CommitType, NoCommit
<1>5. CASE DriverNext
  <2> SUFFICES ASSUME rpc'.at = "queued", Healthy' PROVE BarrierAhead'
    BY DEF BarrierAhead
  <2>1. InSession /\ disk' = disk /\ Healthy
    BY <1>5, DriverConfined, DriverHealth DEF diskVars
  <2>2. \A e : IsDurable(e) => IsDurable(e)'
    BY <2>1 DEF IsDurable
  <2>3. CASE RetryDeferred \/ TakeLive
    BY <2>3, BarrierAheadTakes
  <2>4. CASE CommitRefused \/ StreamEnds \/ GapTimeout \/ DriverStops
    BY <2>4 DEF CommitRefused, StreamEnds, GapTimeout, DriverStops, Sends, Healthy
  <2>5. CASE PopSubmission
    <3>1. /\ rpc \in RequestRecord /\ UNCHANGED <<buffer, deferred>>
          /\ rpc'.ahead = Preceding
          /\ rpc'.prefix = Elements(buffer) \union Elements(deferred)
      <4>1. rpc \in RequestRecord
        BY <2>5, RequestFields DEF PopSubmission
      <4> QED
        BY <2>5, <4>1 DEF PopSubmission, RequestRecord
    <3>2. /\ Len(buffer) \in Nat /\ Len(deferred) \in Nat /\ DOMAIN buffer = 1..Len(buffer)
      BY LenProperties DEF Typed, DeliveryTypeOK
    <3>3. Waits' = Len(buffer)
      BY <3>1, <3>2 DEF Waits, Preceding
    <3> QED
      BY <3>1, <3>2, <3>3 DEF BarrierAhead, Elements
  <2>6. CASE CommitSubmission
    <3>1. rpc \in RequestRecord
      BY <2>6, RequestFields DEF CommitSubmission, BarrierReached
    <3> QED
      BY <2>6, <3>1 DEF CommitSubmission, RequestRecord
  <2>7. CASE ExposeNext \/ Committed \/ Deliver
    <3>1. UNCHANGED <<buffer, deferred>>
      BY <2>7 DEF ExposeNext, Committed, Deliver
    <3>2. rpc' = rpc
      <4>1. rpc \in RpcType
        BY DEF Typed, DeliveryTypeOK
      <4>2. CASE ExposeNext \/ Committed
        BY <2>7, <4>1, <4>2 DEF ExposeNext, Committed, WithLast, RpcType, NoRpc
      <4>3. CASE Deliver
        BY <2>7, <4>1, <4>3 DEF Deliver, Healthy, RpcType, NoRpc
      <4> QED
        BY <2>7, <4>2, <4>3
    <3>3. \/ commit' = commit
          \/ commit.state = "done" /\ commit' = NoCommit /\ IsDurable(commit.env)
      BY <2>1, <2>7 DEF ExposeNext, Committed, Deliver, Durable, Synced
    <3> QED
      BY <2>1, <2>2, <3>1, <3>2, <3>3 DEF BarrierAhead, Waits
  <2> QED
    BY <1>5, <2>3, <2>4, <2>5, <2>6, <2>7 DEF DriverNext
<1> QED
  BY <1>1, <1>2, <1>3, <1>4, <1>5, StepKinds

\* How a request comes to be owed, carried and acknowledged.
LEMMA LateRequest ==
    ASSUME Typed, [DeliveryNext]_deliveryVars, rpc'.at \in {"owed", "carried", "ok"}
    PROVE  /\ rpc \in RequestRecord /\ rpc'.env = rpc.env /\ rpc'.prefix = rpc.prefix
           /\ \/ rpc' = rpc
              \/ /\ CommitSubmission /\ Starts(rpc.env) /\ UNCHANGED deferred
                 /\ rpc.at = "queued" /\ rpc'.at = "owed"
              \/ /\ ExposeNext \/ Committed
                 /\ ready' = <<>> /\ rpc.at = "owed" /\ rpc'.at = "carried"
              \/ Deliver /\ rpc.at = "carried" /\ rpc'.at = "ok"
<1>1. rpc \in RpcType
  BY DEF Typed, DeliveryTypeOK
<1>2. rpc.at = "none" => rpc = NoRpc
  BY <1>1, RequestsTyped
<1>3. rpc' = rpc => rpc \in RequestRecord
  BY RequestFields
<1>4. CASE Quiet
  <2>1. rpc' = rpc
    <3>1. CASE Answer
      BY <3>1 DEF Answer, NoRpc
    <3>2. CASE Submit
      <4>1. rpc \in RequestRecord
        BY <3>2, RequestFields DEF Submit
      <4> QED
        BY <3>2, <4>1 DEF Submit, RequestRecord
    <3>3. CASE HandlerReturns
      BY <3>3 DEF HandlerReturns, NoRpc
    <3>4. CASE ~(Answer \/ Submit \/ HandlerReturns)
      BY <1>4, <3>4 DEF Quiet, Issue, AnswerLost, Arrive, LinkDown, Leave, PreStop, Receive,
                        deliveryVars, driverVars
    <3> QED
      BY <3>1, <3>2, <3>3, <3>4
  <2> QED
    BY <1>3, <2>1
<1>5. CASE Closing \/ Checkpoint \/ Bootstrap \/ CommitSync \/ CommitFails
  BY <1>3, <1>5 DEF Closing, Joined, Crash, BootstrapFails, SessionGone, Checkpoint, Bootstrap,
                    CommitSync, CommitFails, NoRpc
<1>6. CASE DriverNext
  <2>1. CASE rpc = NoRpc
    BY <1>6, <2>1, DriverRequest DEF NoRpc
  <2>2. rpc # NoRpc => rpc \in RequestRecord
    BY <1>2, RequestFields
  <2>3. ASSUME rpc \in RequestRecord, ExposeNext \/ Committed
        PROVE  \/ rpc' = rpc
               \/ /\ ready' = <<>> /\ rpc.at = "owed" /\ rpc'.at = "carried"
                  /\ rpc'.env = rpc.env /\ rpc'.prefix = rpc.prefix
    <3>1. rpc' = WithLast(ready')
      BY <2>3 DEF ExposeNext, Committed
    <3> QED
      BY <2>3, <3>1 DEF WithLast, RequestRecord
  <2>4. ASSUME rpc \in RequestRecord, CommitRefused \/ RetryDeferred \/ TakeLive \/ StreamEnds
                                      \/ GapTimeout \/ PopSubmission \/ DriverStops
        PROVE  rpc' = rpc
    <3>1. CASE CommitRefused
      BY <2>4, <3>1 DEF CommitRefused, RequestRecord
    <3>2. CASE RetryDeferred \/ TakeLive
      <4>1. rpc' = rpc \/ rpc' = Observed(rpc)
        BY <3>2 DEF RetryDeferred, TakeLive
      <4> QED
        BY <2>4, <4>1 DEF Observed, RequestRecord
    <3>3. CASE StreamEnds \/ GapTimeout
      BY <3>3 DEF StreamEnds, GapTimeout
    <3>4. CASE PopSubmission
      BY <2>4, <3>4 DEF PopSubmission, RequestRecord
    <3>5. CASE DriverStops
      BY <2>4, <3>5 DEF DriverStops, AfterClose, RequestRecord
    <3> QED
      BY <2>4, <3>1, <3>2, <3>3, <3>4, <3>5
  <2>5. ASSUME rpc \in RequestRecord, CommitSubmission
        PROVE  /\ Starts(rpc.env) /\ UNCHANGED deferred /\ rpc.at = "queued"
               /\ rpc'.at = "owed" /\ rpc'.env = rpc.env /\ rpc'.prefix = rpc.prefix
    <3>1. Verdict(rpc.env) = "apply"
      BY <2>5 DEF CommitSubmission, RequestRecord
    <3> QED
      BY <2>5, <3>1 DEF CommitSubmission, BarrierReached, Settled, Starts, RequestRecord
  <2>6. ASSUME rpc \in RequestRecord, Deliver
        PROVE  \/ rpc' = rpc
               \/ /\ rpc.at = "carried" /\ rpc'.at = "ok"
                  /\ rpc'.env = rpc.env /\ rpc'.prefix = rpc.prefix
    <3> DEFINE told == IF rpc.at = "carried" THEN [rpc EXCEPT !.at = "ok"] ELSE rpc
    <3>1. told \in RequestRecord /\ told.env = rpc.env /\ told.prefix = rpc.prefix
      BY <2>6 DEF RequestRecord
    <3>2. rpc' = told \/ rpc' = AfterClose(told)
      BY <2>6 DEF Deliver
    <3>3. rpc' = told
      BY <3>1, <3>2 DEF AfterClose, RequestRecord
    <3> QED
      BY <2>6, <3>1, <3>3 DEF RequestRecord
  <2> QED
    BY <1>6, <2>1, <2>2, <2>3, <2>4, <2>5, <2>6 DEF DriverNext
<1> QED
  BY <1>4, <1>5, <1>6, StepKinds

LEMMA PrefixStep ==
    ASSUME Typed, FromIssued, Synced, BarrierAhead, BarrierKeepsPrefix,
           [DeliveryNext]_deliveryVars
    PROVE  BarrierKeepsPrefix'
<1> SUFFICES ASSUME rpc'.at \in {"owed", "carried", "ok"}, NEW e \in rpc'.prefix
             PROVE  IsDurable(e)'
  BY DEF BarrierKeepsPrefix, IsDurable
<1>1. rpc \in RequestRecord /\ rpc'.prefix = rpc.prefix /\ e \in rpc.prefix /\ e \in Envelopes
  BY LateRequest DEF RequestRecord
<1>2. rpc # NoRpc /\ ~Bootstrap
  BY <1>1 DEF RequestRecord, NoRpc, Bootstrap, Typed, Closed, InSession
<1>3. IsDurable(e)
  <2>1. CASE rpc.at \in {"owed", "carried", "ok"}
    BY <1>1, <2>1 DEF BarrierKeepsPrefix, IsDurable
  <2>2. CASE rpc.at = "queued" /\ CommitSubmission
    <3>1. /\ rpc.ahead = 0 /\ deferred = <<>> /\ commit = NoCommit /\ Healthy
      BY <2>2 DEF CommitSubmission, BarrierReached, Settled, Healthy
    <3>2. commit.state # "failed" /\ e # commit.env
      BY <1>1, <3>1, DeliveryAssumption DEF NoCommit
    <3>3. Elements(deferred) = {} /\ Waits = 0
      <4>1. rpc.ahead = 0 /\ Len(deferred) = 0
        BY <3>1, EmptySeq
      <4>2. Elements(deferred) = {}
        BY <3>1, ElementsType, EmptySeq
      <4> QED
        BY <4>1, <4>2 DEF Waits
    <3> QED
      BY <1>1, <2>2, <3>1, <3>2, <3>3 DEF BarrierAhead
  <2> QED
    BY <2>1, <2>2, LateRequest
<1> QED
  BY <1>1, <1>2, <1>3, DurableStays

\* A commit that is read off leaves its envelope durable.
LEMMA ReadOffDurable ==
    ASSUME Typed, Synced, Committed
    PROVE  IsDurable(commit.env) /\ commit.state = "done" /\ commit' = NoCommit /\ InSession
<1>1. commit # NoCommit /\ commit.state = "done" /\ commit' = NoCommit
  BY DEF Committed, Durable
<1> QED
  BY <1>1 DEF Typed, Closed, Synced

LEMMA ProgressStep ==
    ASSUME Typed, FromIssued, Synced, Progress, [DeliveryNext]_deliveryVars
    PROVE  Progress'
<1> SUFFICES ASSUME rpc'.at \in {"owed", "carried", "ok"} PROVE Progress'
  BY DEF Progress
<1>1. rpc \in RequestRecord /\ rpc'.env = rpc.env /\ rpc.env \in Envelopes /\ rpc # NoRpc
  BY LateRequest DEF RequestRecord, NoRpc
<1>2. InSession /\ ~Closing /\ ~Checkpoint /\ ~Bootstrap
  BY <1>1 DEF Typed, Closed, Closing, Joined, Crash, BootstrapFails, SessionGone, Checkpoint,
              Bootstrap, InSession, NoRpc
<1>3. IsDurable(rpc.env) => IsDurable(rpc.env)'
  <2> SUFFICES ASSUME NEW e \in Envelopes, e = rpc.env, IsDurable(e) PROVE IsDurable(e)'
    BY <1>1 DEF IsDurable
  <2> QED
    BY <1>2, DurableStays
<1>4. CASE rpc' = rpc /\ rpc.at = "owed"
  <2>1. /\ deferred = <<>>
        /\ (commit = NoCommit) => ready # <<>> /\ IsDurable(rpc.env)
        /\ (commit # NoCommit) => commit.env = rpc.env
    BY <1>4 DEF Progress
  <2>2. CASE Quiet \/ CommitSync \/ CommitFails
    <3>1. UNCHANGED <<deferred, ready>>
      BY <2>2, QuietKeeps DEF CommitSync, CommitFails
    <3>2. /\ commit' = NoCommit <=> commit = NoCommit
          /\ commit # NoCommit => commit'.env = commit.env
      <4>1. CASE Quiet
        BY <4>1, QuietKeeps
      <4>2. CASE CommitSync \/ CommitFails
        BY <4>2 DEF CommitSync, CommitFails, Typed, DeliveryTypeOK, CommitType, NoCommit
      <4> QED
        BY <2>2, <4>1, <4>2
    <3> QED
      BY <1>1, <1>3, <1>4, <2>1, <3>1, <3>2 DEF Progress
  <2>3. CASE DriverNext
    <3>1. ~RetryDeferred /\ ~PopSubmission /\ ~CommitSubmission /\ ~TakeLive /\ ~StreamEnds
          /\ ~GapTimeout
      BY <1>4, <2>1 DEF RetryDeferred, PopSubmission, CommitSubmission, BarrierReached, TakeLive,
                        StreamEnds, GapTimeout, ReadsLive, Settled
    <3>2. ~CommitRefused /\ ~DriverStops
      BY <1>1, <1>4 DEF CommitRefused, DriverStops, AfterClose, RequestRecord
    <3>3. CASE ExposeNext \/ Committed
      <4>1. rpc' = WithLast(ready') /\ UNCHANGED deferred /\ commit' = NoCommit
        BY <3>3 DEF ExposeNext, Committed
      <4>2. ready' # <<>>
        BY <1>1, <1>4, <4>1 DEF WithLast, RequestRecord
      <4>3. IsDurable(rpc.env)
        BY <2>1, <3>3, ReadOffDurable DEF ExposeNext, Committed
      <4> QED
        BY <1>3, <1>4, <2>1, <4>1, <4>2, <4>3 DEF Progress
    <3>4. CASE Deliver
      BY <1>1, <1>3, <1>4, <2>1, <3>4 DEF Deliver, Progress
    <3> QED
      BY <2>3, <3>1, <3>2, <3>3, <3>4 DEF DriverNext
  <2> QED
    BY <1>2, <2>2, <2>3, StepKinds
<1>5. CASE rpc' = rpc /\ rpc.at = "carried"
  <2>1. driver = "sending" /\ ready = <<>> /\ out # Failure /\ IsDurable(rpc.env)
    BY <1>5 DEF Progress
  <2>2. ~DriverNext
    <3>1. ~Deliver /\ ~DriverStops
      BY <1>1, <1>5, <2>1 DEF Deliver, DriverStops, AfterClose, RequestRecord
    <3> QED
      BY <2>1, <3>1 DEF DriverNext, ExposeNext, Committed, CommitRefused, RetryDeferred,
                        PopSubmission, CommitSubmission, TakeLive, StreamEnds, GapTimeout, Polls,
                        ReadsLive, Settled
  <2>3. UNCHANGED <<driver, ready, out>>
    BY <1>2, <2>2, StepKinds, QuietKeeps DEF CommitSync, CommitFails
  <2> QED
    BY <1>3, <1>5, <2>1, <2>3 DEF Progress
<1>6. CASE rpc' = rpc /\ rpc.at = "ok"
  BY <1>3, <1>6 DEF Progress
<1>7. CASE CommitSubmission /\ Starts(rpc.env) /\ UNCHANGED deferred /\ rpc'.at = "owed"
  <2>1. deferred = <<>>
    BY <1>7 DEF CommitSubmission, BarrierReached
  <2>2. commit' # NoCommit /\ commit'.env = rpc.env
    BY <1>7 DEF Starts, StartCommit, NoCommit
  <2> QED
    BY <1>1, <1>7, <2>1, <2>2 DEF Progress
<1>8. CASE /\ ExposeNext \/ Committed
           /\ ready' = <<>> /\ rpc.at = "owed" /\ rpc'.at = "carried"
  <2>1. /\ (commit = NoCommit) => IsDurable(rpc.env)
        /\ (commit # NoCommit) => commit.env = rpc.env
    BY <1>8 DEF Progress
  <2>2. IsDurable(rpc.env)
    BY <1>8, <2>1, ReadOffDurable DEF ExposeNext, Committed
  <2>3. driver' = "sending" /\ out' # Failure
    <3>1. CASE ExposeNext
      <4>1. Head(ready) \in EventType
        BY <3>1, HeadTailProperties DEF ExposeNext, Typed, DeliveryTypeOK
      <4> QED
        BY <3>1, <4>1 DEF ExposeNext, Sends, EventType, Failure
    <3>2. CASE Committed
      <4> DEFINE all == ready \o EventsOf(commit)
      <4>1. all \in Seq(EventType)
        BY CommitTyped, ConcatProperties DEF Typed, DeliveryTypeOK
      <4>2. all # <<>> => Head(all) \in EventType
        BY <4>1, HeadTailProperties
      <4>3. driver' = "sending" /\ out' = IF all = <<>> THEN Nothing ELSE Head(all)
        BY <3>2 DEF Committed, Sends
      <4> QED
        BY <4>2, <4>3 DEF EventType, Failure, Nothing
    <3> QED
      BY <1>8, <3>1, <3>2
  <2> QED
    BY <1>3, <1>8, <2>2, <2>3 DEF Progress
<1>9. CASE Deliver /\ rpc.at = "carried" /\ rpc'.at = "ok"
  BY <1>3, <1>9 DEF Progress
<1> QED
  BY <1>4, <1>5, <1>6, <1>7, <1>8, <1>9, LateRequest

-----------------------------------------------------------------------------
(* Acknowledged when delivered. *)

\* What had nothing new for the cursors has nothing new for later ones.
LEMMA HiddenStays ==
    ASSUME Typed, NEW e \in Envelopes, ~Exposes(e),
           cursor' = cursor \/ \E x \in Envelopes : cursor' = Advanced(x)
    PROVE  ~Exposes(e)'
<1>1. CASE cursor' = cursor
  BY <1>1 DEF Exposes, NewInScope, HasCursor
<1>2. ASSUME NEW x \in Envelopes, cursor' = Advanced(x)
      PROVE  ~Exposes(e)'
  <2>1. /\ cursor.pts \in [Scopes -> Nat] /\ cursor.date \in Nat /\ cursor.seq \in Nat
    BY DEF Typed, DeliveryTypeOK, CursorType
  <2>2. /\ Content[e].pts \in [Scopes -> Nat] /\ Content[e].count \in [Scopes -> Nat]
        /\ Content[e].date \in Nat /\ Content[e].seq \in Nat
        /\ Content[x].pts \in [Scopes -> Nat] /\ Content[x].date \in Nat /\ Content[x].seq \in Nat
    BY ContentTyped
  <2>3. /\ HasCursor(e) /\ \A s \in Scopes : ~NewInScope(e, s)
        /\ Content[e].date <= cursor.date /\ Content[e].seq <= cursor.seq
    BY <2>1, <2>2 DEF Exposes
  <2>4. /\ \A s \in Scopes : cursor'.pts[s] \in Nat /\ cursor.pts[s] <= cursor'.pts[s]
        /\ cursor'.date \in Nat /\ cursor.date <= cursor'.date
        /\ cursor'.seq \in Nat /\ cursor.seq <= cursor'.seq
    BY <1>2, <2>1, <2>2 DEF Advanced, Larger
  <2>5. \A s \in Scopes : ~NewInScope(e, s)'
    BY <2>1, <2>2, <2>3, <2>4 DEF NewInScope
  <2>6. HasCursor(e)'
    BY <2>3 DEF HasCursor
  <2> QED
    BY <2>1, <2>2, <2>3, <2>4, <2>5, <2>6 DEF Exposes
<1> QED
  BY <1>1, <1>2

\* What the application received or will receive stays so while a session lasts.
LEMMA HandedOverStays ==
    ASSUME Typed, [DeliveryNext]_deliveryVars, ~Closing, NEW e, NEW n, HandedOver(e, n)
    PROVE  HandedOver(e, n)'
<1>1. CASE Receive
  <2>1. /\ channel # <<>> /\ channel' = Tail(channel)
        /\ seen' = IF Head(channel).kind = "event"
                   THEN Append(seen, <<Head(channel).env, Head(channel).nth>>) ELSE seen
    BY <1>1 DEF Receive
  <2>2. Elements(channel) = {Head(channel)} \union Elements(channel')
    BY <2>1, QueueElements
  <2>3. Elements(seen) \subseteq Elements(seen')
        /\ (Head(channel) = Event(e, n) => <<e, n>> \in Elements(seen'))
    <3>1. CASE Head(channel).kind = "event"
      <4>1. Head(channel) \in Batches
        BY <2>1, HeadTailProperties DEF Typed, DeliveryTypeOK
      <4>2. Head(channel).env \in Envelopes /\ Head(channel).nth \in Nat
        BY <3>1, <4>1 DEF Batches, EventType, Nothing, Failure
      <4>3. Elements(seen') = Elements(seen) \union {<<Head(channel).env, Head(channel).nth>>}
        BY <2>1, <3>1, <4>2, QueueElements
      <4> QED
        BY <4>3 DEF Event
    <3>2. CASE Head(channel).kind # "event"
      BY <2>1, <3>2 DEF Event
    <3> QED
      BY <3>1, <3>2
  <2> QED
    BY <2>2, <2>3 DEF HandedOver
<1>2. CASE Deliver
  <2>1. Elements(channel') = Elements(channel) \union {out} /\ seen' = seen
    BY <1>2, QueueElements DEF Deliver
  <2> QED
    BY <2>1 DEF HandedOver
<1>3. CASE ~(Receive \/ Deliver)
  <2>1. UNCHANGED <<channel, seen>>
    <3>1. CASE Quiet
      BY <1>3, <3>1 DEF Quiet, Issue, Answer, AnswerLost, Arrive, LinkDown, Leave, PreStop, Submit,
                        HandlerReturns, deliveryVars, driverVars
    <3>2. CASE DriverNext
      BY <1>3, <3>2 DEF DriverNext, ExposeNext, Committed, CommitRefused, RetryDeferred,
                        PopSubmission, CommitSubmission, TakeLive, StreamEnds, GapTimeout, DriverStops
    <3>3. CASE Checkpoint \/ Bootstrap \/ CommitSync \/ CommitFails
      BY <3>3 DEF Checkpoint, Bootstrap, CommitSync, CommitFails
    <3> QED
      BY <3>1, <3>2, <3>3, StepKinds
  <2> QED
    BY <2>1 DEF HandedOver
<1> QED
  BY <1>1, <1>2, <1>3

\* What is exposed stays so while the driver runs.
LEMMA ExposedStays ==
    ASSUME Typed, [DeliveryNext]_deliveryVars, driver' # "closed", ~Closing, NEW e, NEW n,
           Exposed(e, n)
    PROVE  Exposed(e, n)'
<1> DEFINE event == Event(e, n)
<1>1. CASE HandedOver(e, n)
  BY <1>1, HandedOverStays DEF Exposed
<1> SUFFICES ASSUME out = event \/ event \in Elements(ready)
             PROVE  \/ out' = event \/ event \in Elements(ready') \/ event \in Elements(channel')
  BY <1>1 DEF Exposed, HandedOver, Event
<1>2. event \notin {Nothing, Failure}
  BY QueueElements
<1>3. driver # "sending" => out = Nothing
  BY DEF Typed, DeliveryTypeOK
<1>4. CASE DriverNext
  <2>1. CASE Deliver
    <3>1. Elements(channel') = Elements(channel) \union {out} /\ ready' = ready
      BY <2>1, QueueElements DEF Deliver
    <3> QED
      BY <3>1
  <2>2. ~DriverStops
    BY DEF DriverStops
  <2>3. CASE ~Deliver
    <3>1. driver = "polling" /\ out = Nothing
      BY <1>3, <1>4, <2>2, <2>3 DEF DriverNext, ExposeNext, Committed, CommitRefused, RetryDeferred,
                        PopSubmission, CommitSubmission, TakeLive, StreamEnds, GapTimeout, Polls,
                        ReadsLive, Settled
    <3>2. event \in Elements(ready)
      BY <1>2, <3>1
    <3>3. CASE ExposeNext
      <4>1. ready # <<>> /\ out' = Head(ready) /\ ready' = Tail(ready)
        BY <3>3 DEF ExposeNext, Sends
      <4> QED
        BY <3>2, <4>1, QueueElements
    <3>4. CASE Committed
      BY <3>2, <3>4, CommittedExposes
    <3>5. CASE ~(ExposeNext \/ Committed)
      <4>1. ready' = ready
        BY <1>4, <2>2, <2>3, <3>5 DEF DriverNext, CommitRefused, RetryDeferred, PopSubmission,
                          CommitSubmission, TakeLive, StreamEnds, GapTimeout
      <4> QED
        BY <3>2, <4>1
    <3> QED
      BY <3>3, <3>4, <3>5
  <2> QED
    BY <2>1, <2>3
<1>5. CASE ~DriverNext
  <2>1. UNCHANGED <<out, ready>>
    BY <1>5, StepKinds, QuietKeeps DEF Checkpoint, Bootstrap, CommitSync, CommitFails
  <2> QED
    BY <2>1
<1> QED
  BY <1>4, <1>5

\* How the cursors of the committer move in a session.
LEMMA CursorMoves ==
    ASSUME Typed, FromIssued, Synced, [DeliveryNext]_deliveryVars, InSession, ~Closing
    PROVE  /\ cursor' = cursor \/ \E x \in Envelopes : cursor' = Advanced(x)
           /\ \/ UNCHANGED <<cursor, commit>> \/ Committed \/ CommitRefused
              \/ CommitSync \/ CommitFails
              \/ \E x \in Issued : Starts(x)
<1>1. ~Checkpoint /\ ~Bootstrap
  BY DEF Checkpoint, Bootstrap, InSession
<1>2. \/ UNCHANGED <<cursor, commit>> \/ Committed \/ CommitRefused
      \/ CommitSync \/ CommitFails \/ \E x \in Issued : Starts(x)
  BY <1>1, StepKinds, QuietKeeps, DriverCommits
<1>3. \A x \in Issued : x \in Envelopes
  BY WorldTyped DEF Typed
<1>4. Committed \/ CommitRefused \/ CommitSync \/ CommitFails => cursor' = cursor
  BY DEF Committed, CommitRefused, CommitSync, CommitFails
<1>5. \A x : Starts(x) => cursor' = Advanced(x)
  BY DEF Starts, StartCommit
<1> QED
  BY <1>2, <1>3, <1>4, <1>5

LEMMA NothingNewStep ==
    ASSUME Typed, FromIssued, Synced, Exposure, Progress, NothingNew, [DeliveryNext]_deliveryVars
    PROVE  NothingNew'
<1>1. ASSUME commit' # NoCommit \/ rpc' # NoRpc
      PROVE  InSession /\ ~Closing
  <2>1. ~Closing
    BY <1>1 DEF Closing, Joined, Crash, BootstrapFails, SessionGone
  <2>2. CASE InSession
    BY <2>1, <2>2
  <2>3. CASE ~InSession
    <3>1. driver = "closed" /\ commit = NoCommit /\ rpc = NoRpc
      BY <2>3 DEF Typed, Closed
    <3>2. ~DriverNext /\ ~CommitSync /\ ~CommitFails
      BY <2>3, <3>1, DriverConfined DEF CommitSync, CommitFails, NoCommit
    <3>3. ~Answer /\ ~Submit
      BY <2>3, <3>1 DEF Answer, Submit, InSession, NoRpc
    <3>4. rpc' = NoRpc /\ commit' = NoCommit
      BY <2>1, <3>1, <3>2, <3>3, StepKinds
         DEF Quiet, Issue, AnswerLost, Arrive, LinkDown, Leave, PreStop, HandlerReturns, Receive,
             Checkpoint, Bootstrap, deliveryVars, driverVars
    <3> QED
      BY <1>1, <3>4
  <2> QED
    BY <2>2, <2>3
<1>2. ASSUME commit'.state \in {"asked", "done"}, ~commit'.shows
      PROVE  ~Exposes(commit.env)'
  <2>1. commit' # NoCommit
    BY <1>2 DEF NoCommit
  <2>2. InSession /\ ~Closing
    BY <1>1, <2>1
  <2> SUFFICES ASSUME NEW e \in Envelopes, e = commit'.env PROVE ~Exposes(e)'
    <3>1. commit'.env \in Envelopes
      BY <2>1, TypedStep, CommitTyped DEF Typed, DeliveryTypeOK, CommitType
    <3> QED
      BY <3>1 DEF Exposes, HasCursor, NewInScope
  <2>3. ~Exposes(e)
    <3>1. CASE commit' = commit
      BY <1>2, <3>1 DEF NothingNew
    <3>2. CASE CommitSync
      BY <1>2, <3>2, DiskCatchesUp DEF NothingNew, CommitSync
    <3>3. ASSUME NEW x \in Issued, Starts(x) PROVE ~Exposes(e)
      BY <1>2, <3>3 DEF Starts, StartCommit
    <3>4. CASE Committed \/ CommitRefused \/ CommitFails
      BY <1>2, <3>4 DEF Committed, CommitRefused, CommitFails, NoCommit, Typed, DeliveryTypeOK,
                        CommitType
    <3> QED
      BY <2>2, <3>1, <3>2, <3>3, <3>4, CursorMoves
  <2> QED
    BY <2>2, <2>3, CursorMoves, HiddenStays
<1>3. ASSUME Settles', rpc'.env \notin stored'
      PROVE  /\ ~Exposes(rpc.env)'
             /\ ~(commit'.state = "asked" /\ commit'.shows /\ commit'.env = rpc'.env)
  <2>1. rpc'.at \in {"owed", "carried", "ok"}
    BY <1>3 DEF Settles
  <2>2. rpc' # NoRpc
    BY <2>1 DEF NoRpc
  <2>3. InSession /\ ~Closing
    BY <1>1, <2>2
  <2>4. rpc \in RequestRecord /\ rpc'.env = rpc.env
    BY <2>1, LateRequest
  <2>5. rpc.env \notin stored /\ rpc.env \in Envelopes
    BY <1>3, <2>4, StoredGrows DEF RequestRecord
  <2> SUFFICES ASSUME NEW e \in Envelopes, e = rpc.env
               PROVE  /\ ~Exposes(e)'
                      /\ ~(commit'.state = "asked" /\ commit'.shows /\ commit'.env = e)
    BY <2>4, <2>5 DEF Exposes, HasCursor, NewInScope
  <2>6. ASSUME Committed, rpc.at = "owed" PROVE ~Exposes(e) /\ commit' = NoCommit
    <3>1. commit.env = rpc.env /\ commit.state = "done" /\ commit' = NoCommit
      BY <2>6, ReadOffDurable DEF Progress, Committed
    <3>2. ~commit.shows
      BY <2>5, <3>1 DEF Exposure
    <3> QED
      BY <3>1, <3>2 DEF NothingNew
  <2>7. CASE Settles
    <3>1. ~Exposes(e) /\ ~(commit.state = "asked" /\ commit.shows /\ commit.env = e)
      BY <2>5, <2>7 DEF NothingNew
    <3>2. ~(commit'.state = "asked" /\ commit'.shows /\ commit'.env = e)
      <4>1. CASE commit' = commit
        BY <3>1, <4>1
      <4>2. ASSUME NEW x \in Issued, Starts(x)
            PROVE  ~(commit'.state = "asked" /\ commit'.shows /\ commit'.env = e)
        BY <3>1, <4>2 DEF Starts, StartCommit
      <4>3. CASE Committed \/ CommitRefused \/ CommitFails \/ CommitSync
        BY <4>3, DiskCatchesUp DEF Committed, CommitRefused, CommitFails, NoCommit, Typed,
                                   DeliveryTypeOK, CommitType
      <4> QED
        BY <2>3, <4>1, <4>2, <4>3, CursorMoves
    <3> QED
      BY <2>3, <3>1, <3>2, CursorMoves, HiddenStays
  <2>8. CASE ~Settles
    <3>1. rpc.at \notin {"carried", "ok"} /\ (rpc.at = "owed" => commit # NoCommit)
      BY <2>8 DEF Settles
    <3>2. rpc.at = "owed" /\ Committed
      <4>1. CASE rpc' = rpc
        <5>1. rpc.at = "owed" /\ commit # NoCommit /\ commit' = NoCommit
          BY <1>3, <2>1, <3>1, <4>1 DEF Settles
        <5>2. ~CommitRefused
          BY <2>4, <4>1, <5>1 DEF CommitRefused, RequestRecord
        <5>3. ~CommitSync /\ ~CommitFails
          BY <5>1 DEF CommitSync, CommitFails, NoCommit, Typed, DeliveryTypeOK, CommitType
        <5> QED
          BY <2>3, <5>1, <5>2, <5>3, CursorMoves DEF Starts
      <4>2. CASE CommitSubmission /\ Starts(rpc.env) /\ rpc'.at = "owed"
        BY <1>3, <4>2 DEF Settles, Starts, StartCommit, NoCommit
      <4>3. CASE (ExposeNext \/ Committed) /\ rpc.at = "owed"
        BY <3>1, <4>3 DEF ExposeNext
      <4>4. CASE Deliver /\ rpc.at = "carried"
        BY <3>1, <4>4
      <4> QED
        BY <2>1, <4>1, <4>2, <4>3, <4>4, LateRequest
    <3>3. ~Exposes(e) /\ commit' = NoCommit
      BY <2>6, <3>2
    <3> QED
      BY <2>3, <3>3, CursorMoves, HiddenStays DEF NoCommit
  <2> QED
    BY <2>7, <2>8
<1> QED
  BY <1>2, <1>3 DEF NothingNew

\* How a request comes to stand where its events may be under way.
LEMMA EarlyRequest ==
    ASSUME Typed, [DeliveryNext]_deliveryVars,
           rpc'.at \in {"answered", "submitted", "queued", "owed", "carried"}
    PROVE  \/ Answer /\ rpc'.env = History[issued + 1]
           \/ /\ rpc'.env = rpc.env /\ ~Closing /\ ~Bootstrap /\ InSession
              /\ rpc.at \in {"answered", "submitted", "queued", "owed", "carried"}
<1>1. rpc' # NoRpc /\ ~Closing
  BY DEF NoRpc, Closing, Joined, Crash, BootstrapFails, SessionGone
<1>2. CASE Answer
  BY <1>2 DEF Answer, NoRpc
<1>3. CASE Submit
  <2>1. rpc \in RequestRecord /\ InSession
    BY <1>3, RequestFields DEF Submit, Typed, Closed, NoRpc
  <2> QED
    BY <1>1, <1>3, <2>1 DEF Submit, RequestRecord, Bootstrap, InSession
<1>4. CASE rpc' = rpc
  <2>1. rpc # NoRpc
    BY <1>1, <1>4
  <2> QED
    BY <1>1, <1>4, <2>1 DEF Typed, Closed, Bootstrap, InSession
<1>5. CASE DriverNext
  <2>1. rpc'.env = rpc.env /\ rpc # NoRpc /\ rpc \in RequestRecord /\ InSession
    BY <1>1, <1>5, DriverRequest, DriverConfined DEF Typed, DeliveryTypeOK, RpcType, RequestRecord
  <2>2. rpc.at \in {"answered", "submitted", "queued", "owed", "carried"}
    <3>1. CASE ExposeNext \/ Committed
      BY <2>1, <3>1 DEF ExposeNext, Committed, WithLast, RequestRecord
    <3>2. CASE RetryDeferred \/ TakeLive
      <4>1. rpc' = rpc \/ rpc' = Observed(rpc)
        BY <3>2 DEF RetryDeferred, TakeLive
      <4> QED
        BY <2>1, <4>1 DEF Observed, RequestRecord
    <3>3. CASE CommitRefused \/ PopSubmission \/ CommitSubmission \/ StreamEnds \/ GapTimeout
      BY <2>1, <3>3 DEF CommitRefused, PopSubmission, CommitSubmission, BarrierReached, StreamEnds,
                        GapTimeout, RequestRecord
    <3>4. CASE DriverStops
      BY <2>1, <3>4 DEF DriverStops, AfterClose, RequestRecord
    <3>5. CASE Deliver
      <4> DEFINE told == IF rpc.at = "carried" THEN [rpc EXCEPT !.at = "ok"] ELSE rpc
      <4>1. told \in RequestRecord /\ (rpc' = told \/ rpc' = AfterClose(told))
        BY <2>1, <3>5 DEF Deliver, RequestRecord
      <4>2. rpc'.at = told.at
        BY <4>1 DEF AfterClose, RequestRecord
      <4> QED
        BY <2>1, <4>2 DEF RequestRecord
    <3> QED
      BY <1>5, <3>1, <3>2, <3>3, <3>4, <3>5 DEF DriverNext
  <2> QED
    BY <1>1, <2>1, <2>2 DEF Bootstrap, InSession
<1>6. CASE ~(Answer \/ Submit \/ DriverNext)
  <2>1. rpc' = rpc \/ rpc' = NoRpc
    BY <1>1, <1>6, StepKinds
       DEF Quiet, Issue, AnswerLost, Arrive, LinkDown, Leave, PreStop, HandlerReturns, Receive,
           Checkpoint, Bootstrap, CommitSync, CommitFails, deliveryVars, driverVars
  <2> QED
    BY <1>1, <1>4, <2>1
<1> QED
  BY <1>2, <1>3, <1>5, <1>6

LEMMA OnTheirWayStep ==
    ASSUME Typed, FromIssued, Synced, OnTheirWay, [DeliveryNext]_deliveryVars
    PROVE  OnTheirWay'
<1> SUFFICES ASSUME driver' # "closed", rpc'.env \in stored',
                    rpc'.at \in {"answered", "submitted", "queued", "owed", "carried"},
                    NEW e \in Envelopes, e = rpc'.env, NEW n \in 1..Content[e].events
             PROVE  \/ Exposed(e, n)'
                    \/ commit'.state = "done" /\ commit'.shows /\ commit'.env = e
  <2>1. rpc'.env \in stored' => rpc'.env \in Envelopes
    BY TypedStep DEF Typed, DeliveryTypeOK
  <2> QED
    BY <2>1 DEF OnTheirWay, Exposed, HandedOver
<1>1. ~Answer
  <2> SUFFICES ASSUME Answer PROVE FALSE
    OBVIOUS
  <2>1. issued < Len(History) /\ issued' = issued + 1 /\ world' = world /\ stored' = stored
        /\ rpc'.env = History[issued + 1]
    BY DEF Answer, diskVars, NoRpc
  <2> QED
    BY <2>1, IssuedGrows DEF Typed, FromIssued
<1>2. /\ rpc.env = e /\ ~Closing /\ ~Bootstrap /\ InSession
      /\ rpc.at \in {"answered", "submitted", "queued", "owed", "carried"}
  BY <1>1, EarlyRequest
<1>3. driver # "closed"
  <2>1. CASE DriverNext
    BY <2>1, DriverConfined
  <2>2. CASE ~DriverNext
    BY <1>2, <2>2, StepKinds, QuietKeeps DEF Checkpoint, InSession, CommitSync, CommitFails
  <2> QED
    BY <2>1, <2>2
<1>4. CASE e \in stored
  <2>1. \/ Exposed(e, n)
        \/ commit.state = "done" /\ commit.shows /\ commit.env = e
    BY <1>2, <1>3, <1>4 DEF OnTheirWay
  <2>2. CASE Exposed(e, n)
    BY <1>2, <2>2, ExposedStays
  <2>3. CASE commit.state = "done" /\ commit.shows /\ commit.env = e
    <3>1. CASE Committed
      <4>1. Event(e, n) \in Elements(EventsOf(commit))
        BY <2>3, CommitTyped DEF Typed, DeliveryTypeOK
      <4> QED
        BY <3>1, <4>1, CommittedExposes DEF Exposed
    <3>2. CASE ~Committed
      <4>1. commit' = commit
        BY <1>2, <2>3, <3>2, CursorMoves DEF CommitRefused, CommitSync, CommitFails, Starts, NoCommit
      <4> QED
        BY <2>3, <4>1
    <3> QED
      BY <3>1, <3>2
  <2> QED
    BY <2>1, <2>2, <2>3
<1>5. CASE e \notin stored
  <2>1. CommitSync
    <3> SUFFICES ASSUME ~CommitSync PROVE stored' = stored
      BY <1>5
    <3> QED
      BY StepKinds, QuietKeeps, DriverConfined
         DEF Closing, Joined, Crash, BootstrapFails, SessionGone, Checkpoint, Bootstrap, CommitFails,
             diskVars
  <2>2. stored' = IF commit.shows THEN stored \union {commit.env} ELSE stored
    BY <2>1 DEF CommitSync
  <2> QED
    BY <1>5, <2>1, <2>2, DiskCatchesUp
<1> QED
  BY <1>4, <1>5

LEMMA AcknowledgedStep ==
    ASSUME Typed, FromIssued, Synced, Progress, NothingNew, OnTheirWay, AcknowledgedWhenDelivered,
           [DeliveryNext]_deliveryVars
    PROVE  AcknowledgedWhenDelivered'
<1> SUFFICES ASSUME rpc'.at = "ok" PROVE AcknowledgedWhenDelivered'
  BY DEF AcknowledgedWhenDelivered
<1>1. rpc \in RequestRecord /\ rpc'.env = rpc.env
  BY LateRequest
<1>2. IsDurable(rpc.env)'
  BY ProgressStep DEF Progress
<1> SUFFICES ASSUME NEW e \in Envelopes, e = rpc.env, e \in stored', NEW n \in 1..Content[e].events
             PROVE  HandedOver(e, n)'
  BY <1>1, <1>2 DEF AcknowledgedWhenDelivered, IsDurable, HandedOver, RequestRecord
<1>3. ~Closing
  BY DEF Closing, Joined, Crash, BootstrapFails, SessionGone, NoRpc
<1>4. CASE rpc' = rpc
  <2>1. e \in stored
    <3> SUFFICES ASSUME e \notin stored PROVE FALSE
      OBVIOUS
    <3>1. CommitSync
      <4> SUFFICES ASSUME ~CommitSync PROVE stored' = stored
        OBVIOUS
      <4> QED
        BY StepKinds, QuietKeeps, DriverConfined
           DEF Closing, Joined, Crash, BootstrapFails, SessionGone, Checkpoint, Bootstrap,
               CommitFails, diskVars
    <3>2. commit.state = "asked" /\ commit.shows /\ commit.env = e
      BY <3>1 DEF CommitSync
    <3> QED
      BY <1>4, <3>2 DEF NothingNew, Settles
  <2>2. HandedOver(e, n)
    BY <1>4, <2>1 DEF AcknowledgedWhenDelivered
  <2> QED
    BY <1>3, <2>2, HandedOverStays
<1>5. CASE Deliver /\ rpc.at = "carried"
  <2>1. driver = "sending" /\ ready = <<>> /\ commit = NoCommit /\ stored' = stored
    BY <1>5 DEF Progress, Typed, DeliveryTypeOK, Deliver, diskVars
  <2>2. Exposed(e, n)
    BY <1>5, <2>1 DEF OnTheirWay, NoCommit
  <2>3. out = Event(e, n) \/ HandedOver(e, n)
    BY <2>1, <2>2, QueueElements DEF Exposed
  <2>4. Elements(channel') = Elements(channel) \union {out}
    BY <1>5, QueueElements DEF Deliver
  <2> QED
    BY <1>3, <2>3, <2>4, HandedOverStays DEF HandedOver, Event
<1> QED
  BY <1>4, <1>5, LateRequest

-----------------------------------------------------------------------------
(* The theorems. *)

\* The inductive invariant.
DeliveryInv == /\ Typed /\ FromIssued /\ Rest /\ Synced /\ Ahead
               /\ CursorBackedByRecords /\ Exposure
               /\ BarrierAhead /\ BarrierKeepsPrefix
               /\ Progress /\ NothingNew /\ OnTheirWay /\ AcknowledgedWhenDelivered

LEMMA DeliveryInvInit ==
    ASSUME DeliveryInit
    PROVE  DeliveryInv
<1>1. Typed
  BY TypedInit
<1>2. Elements(<<>>) = {}
  BY ElementsType, EmptySeq
<1>3. /\ buffer = <<>> /\ deferred = <<>> /\ ready = <<>> /\ channel = <<>> /\ seen = <<>>
      /\ out = Nothing /\ rpc = NoRpc /\ commit = NoCommit /\ stored = {} /\ issued = 0
      /\ phase = "off" /\ cursor = disk /\ disk.pts = Base /\ baseline = Base /\ driver = "closed"
  BY DEF DeliveryInit, NoCursor
<1>4. FromIssued
  BY <1>2, <1>3 DEF FromIssued
<1>5. Rest /\ Synced
  BY <1>3 DEF Rest, Synced, InSession
<1>6. Ahead
  BY <1>1, <1>3, IssuedBelow DEF Ahead, Typed
<1>7. CursorBackedByRecords
  BY <1>3 DEF CursorBackedByRecords
<1>8. Exposure
  <2>1. \A e, n : ~Exposed(e, n)
    BY <1>2, <1>3 DEF Exposed, HandedOver, Event, Nothing
  <2> QED
    BY <1>3, <2>1 DEF Exposure, DurableBeforeExposed, NoCommit
<1>9. BarrierAhead /\ BarrierKeepsPrefix /\ Progress /\ NothingNew /\ OnTheirWay
      /\ AcknowledgedWhenDelivered
  BY <1>3 DEF BarrierAhead, BarrierKeepsPrefix, Progress, NothingNew, Settles, OnTheirWay,
              AcknowledgedWhenDelivered, NoRpc, NoCommit
<1> QED
  BY <1>1, <1>4, <1>5, <1>6, <1>7, <1>8, <1>9 DEF DeliveryInv

LEMMA DeliveryInvStep ==
    ASSUME DeliveryInv, [DeliveryNext]_deliveryVars
    PROVE  DeliveryInv'
<1> USE DEF DeliveryInv
<1>1. Typed' /\ FromIssued'
  BY TypedStep, FromIssuedStep
<1>2. Rest' /\ Synced' /\ Ahead'
  BY SyncedStep, AheadStep
<1>3. CursorBackedByRecords' /\ Exposure'
  BY BackedStep, ExposureStep
<1>4. BarrierAhead' /\ BarrierKeepsPrefix'
  BY BarrierAheadStep, PrefixStep
<1>5. Progress' /\ NothingNew'
  BY ProgressStep, NothingNewStep
<1>6. OnTheirWay' /\ AcknowledgedWhenDelivered'
  BY OnTheirWayStep, AcknowledgedStep
<1> QED
  BY <1>1, <1>2, <1>3, <1>4, <1>5, <1>6

LEMMA DeliveryInvHolds == DeliverySpec => []DeliveryInv
<1>1. DeliveryInit => DeliveryInv
  BY DeliveryInvInit
<1>2. DeliveryInv /\ [DeliveryNext]_deliveryVars => DeliveryInv'
  BY DeliveryInvStep
<1> QED
  BY <1>1, <1>2, PTL DEF DeliverySpec

\* However the network reorders, repeats and loses envelopes, and whatever
\* commit fails: an event the application, its channel or the driver holds is of
\* an envelope whose records are durable.
THEOREM DurableBeforeExposedAlways == DeliverySpec => []DurableBeforeExposed
<1>1. DeliveryInv => DurableBeforeExposed
  BY DEF DeliveryInv, Exposure
<1> QED
  BY <1>1, DeliveryInvHolds, PTL

\* No durable cursor passes a counted change that is neither stored nor part of
\* a bootstrap, for any numbering by Telegram and any crashes.
THEOREM CursorBackedByRecordsAlways == DeliverySpec => []CursorBackedByRecords
<1>1. DeliveryInv => CursorBackedByRecords
  BY DEF DeliveryInv
<1> QED
  BY <1>1, DeliveryInvHolds, PTL

\* A submission is committed only after every envelope that preceded it.
THEOREM BarrierKeepsPrefixAlways == DeliverySpec => []BarrierKeepsPrefix
<1>1. DeliveryInv => BarrierKeepsPrefix
  BY DEF DeliveryInv
<1> QED
  BY <1>1, DeliveryInvHolds, PTL

\* A submission is acknowledged only when it is durable and all its events are
\* in the application's channel or beyond.
THEOREM AcknowledgedWhenDeliveredAlways == DeliverySpec => []AcknowledgedWhenDelivered
<1>1. DeliveryInv => AcknowledgedWhenDelivered
  BY DEF DeliveryInv
<1> QED
  BY <1>1, DeliveryInvHolds, PTL

-----------------------------------------------------------------------------
(* How far the cursors have come, in every component. *)

\* No component of the first cursor is beyond the second's.
Within(c, d) == /\ \A s \in Scopes : c.pts[s] <= d.pts[s]
                /\ c.date <= d.date /\ c.seq <= d.seq

ServerCursor == [pts |-> [s \in Scopes |-> ServerPts(s)], date |-> ServerDate, seq |-> ServerSeq]

\* No cursor is beyond Telegram's; while a session opens, the one it has read is
\* not behind the durable one.
Bounds == /\ Within(cursor, ServerCursor) /\ Within(disk, ServerCursor)
          /\ phase = "asking" => Within(disk, cursor)

\* A cursor that has passed a change of the account has passed its date and its
\* sequence number as well.
Abreast(c) == /\ c.pts[Account] # 0
              /\ \A i \in 1..Len(History) :
                    LET e == History[i]
                    IN Counted(e, Account) /\ Content[e].pts[Account] <= c.pts[Account]
                         => Content[e].date <= c.date /\ Content[e].seq <= c.seq

AccountAbreast == Base[Account] # 0 => Abreast(cursor) /\ Abreast(disk)

LEMMA WithinTrans ==
    ASSUME NEW b \in CursorType, NEW c \in CursorType, NEW d \in CursorType,
           Within(b, c), Within(c, d)
    PROVE  Within(b, d)
BY DEF Within, CursorType

LEMMA WithinSelf ==
    ASSUME NEW c \in CursorType
    PROVE  Within(c, c)
BY DEF Within, CursorType

LEMMA ServerReaches ==
    ASSUME DeliveryTypeOK
    PROVE  /\ ServerCursor \in CursorType
           /\ \A e \in Issued : Within(Content[e], ServerCursor)
           /\ \A s \in Scopes : ServerPts(s) \in Nat /\ Base[s] <= ServerPts(s)
BY ServerPtsIssued, ServerCommonTyped DEF ServerCursor, CursorType, Within

\* One more number does not lower the highest.
LEMMA HighestGrows ==
    ASSUME NEW values, values \subseteq Nat, NEW h \in values, \A v \in values : v <= h,
           NEW n \in Nat
    PROVE  Highest(values \union {n}) \in Nat /\ h <= Highest(values \union {n})
<1> DEFINE all == values \union {n}
<1>1. all \subseteq Nat /\ all # {} /\ h \in all /\ \A v \in all : v <= h + n
  OBVIOUS
<1>2. h + n \in Nat
  OBVIOUS
<1> HIDE DEF all
<1>3. Highest(all) \in all /\ h <= Highest(all)
  BY <1>1, <1>2, HighestOf
<1> QED
  BY <1>1, <1>3 DEF all

\* Telegram's numbers only grow.
LEMMA ServerGrows ==
    ASSUME DeliveryTypeOK, Base' = Base,
           Issued' = Issued \/ \E x \in Envelopes : Issued' = Issued \union {x}
    PROVE  ServerCursor' \in CursorType /\ Within(ServerCursor, ServerCursor')
<1>1. ServerCursor \in CursorType /\ ServerDate \in Nat /\ ServerSeq \in Nat
  BY ServerReaches, ServerCommonTyped
<1>2. CASE Issued' = Issued
  <2>1. ServerCursor' = ServerCursor
    BY <1>2 DEF ServerCursor, ServerPts, ServerDate, ServerSeq
  <2> QED
    BY <1>1, <2>1, WithinSelf
<1>3. ASSUME NEW x \in Envelopes, Issued' = Issued \union {x}
      PROVE  ServerCursor' \in CursorType /\ Within(ServerCursor, ServerCursor')
  <2> DEFINE c == Content[x]
             dates == {0} \union {Content[e].date : e \in Issued}
             seqs == {0} \union {Content[e].seq : e \in Issued}
  <2>1. \A e \in Envelopes : Content[e].date \in Nat /\ Content[e].seq \in Nat
    BY ContentTyped
  <2>2. Issued \subseteq Envelopes
    BY WorldTyped
  <2>3. ASSUME NEW s \in Scopes PROVE ServerPts(s)' \in Nat /\ ServerPts(s) <= ServerPts(s)'
    <3> DEFINE values == {Base[s]} \union {Content[e].pts[s] : e \in Issued}
    <3>1. Base[s] \in Nat /\ \A e \in Envelopes : Content[e].pts[s] \in Nat
      BY ContentTyped, WorldTyped
    <3>2. values \subseteq Nat
      BY <2>2, <3>1
    <3>3. ServerPts(s) \in values /\ \A v \in values : v <= ServerPts(s)
      BY ServerPtsIssued DEF Issued
    <3>4. ServerPts(s)' = Highest(values \union {c.pts[s]})
      <4>1. {Base'[s]} \union {Content[e].pts[s] : e \in Issued'} = values \union {c.pts[s]}
        BY <1>3
      <4> QED
        BY <4>1 DEF ServerPts
    <3>5. c.pts[s] \in Nat
      BY <3>1
    <3> DEFINE h == ServerPts(s)
               n == c.pts[s]
    <3>6. Highest(values \union {n}) \in Nat /\ h <= Highest(values \union {n})
      <4> HIDE DEF values, h, n
      <4>1. h \in values /\ (\A v \in values : v <= h) /\ n \in Nat
        BY <3>3, <3>5 DEF h, n
      <4> QED
        BY <3>2, <4>1, HighestGrows
    <3> QED
      BY <3>4, <3>6
  <2>4. ServerDate' \in Nat /\ ServerDate <= ServerDate'
    <3>1. dates \subseteq Nat /\ ServerDate \in dates /\ \A v \in dates : v <= ServerDate
      BY <1>1, <2>1, <2>2, ServerCommonTyped
    <3>2. {0} \union {Content[e].date : e \in Issued'} = dates \union {c.date}
      BY <1>3
    <3>3. ServerDate' = Highest(dates \union {c.date}) /\ c.date \in Nat
      BY <2>1, <3>2 DEF ServerDate
    <3> HIDE DEF dates
    <3> QED
      BY <3>1, <3>3, HighestGrows
  <2>5. ServerSeq' \in Nat /\ ServerSeq <= ServerSeq'
    <3>1. seqs \subseteq Nat /\ ServerSeq \in seqs /\ \A v \in seqs : v <= ServerSeq
      BY <1>1, <2>1, <2>2, ServerCommonTyped
    <3>2. {0} \union {Content[e].seq : e \in Issued'} = seqs \union {c.seq}
      BY <1>3
    <3>3. ServerSeq' = Highest(seqs \union {c.seq}) /\ c.seq \in Nat
      BY <2>1, <3>2 DEF ServerSeq
    <3> HIDE DEF seqs
    <3> QED
      BY <3>1, <3>3, HighestGrows
  <2> QED
    BY <2>3, <2>4, <2>5 DEF Within, ServerCursor, CursorType
<1> QED
  BY <1>2, <1>3

\* An advanced cursor is the least beyond the cursor and the envelope.
LEMMA AdvancedWithin ==
    ASSUME NEW d \in CursorType, NEW e \in Envelopes
    PROVE  /\ AdvancedFrom(d, e) \in CursorType
           /\ Within(d, AdvancedFrom(d, e)) /\ Within(Content[e], AdvancedFrom(d, e))
           /\ \A c \in CursorType :
                 Within(d, c) /\ Within(Content[e], c) => Within(AdvancedFrom(d, e), c)
<1> DEFINE a == AdvancedFrom(d, e)
<1>1. d.pts \in [Scopes -> Nat] /\ d.date \in Nat /\ d.seq \in Nat
  BY DEF CursorType
<1>2. Content[e].pts \in [Scopes -> Nat] /\ Content[e].date \in Nat /\ Content[e].seq \in Nat
  BY ContentTyped
<1>3. \A s \in Scopes : a.pts[s] = Larger(d.pts[s], Content[e].pts[s]) /\ a.pts[s] \in Nat
  BY <1>1, <1>2 DEF AdvancedFrom, Larger
<1>4. a.date = Larger(d.date, Content[e].date) /\ a.seq = Larger(d.seq, Content[e].seq)
  BY DEF AdvancedFrom
<1>5. a \in CursorType
  BY <1>1, <1>2 DEF AdvancedFrom, Larger, CursorType
<1> HIDE DEF a
<1>6. Within(d, a) /\ Within(Content[e], a)
  BY <1>1, <1>2, <1>3, <1>4 DEF Within, Larger
<1>7. ASSUME NEW c \in CursorType, Within(d, c), Within(Content[e], c)
      PROVE  Within(a, c)
  BY <1>1, <1>2, <1>3, <1>4, <1>7 DEF Within, Larger
<1> QED
  BY <1>5, <1>6, <1>7 DEF a

\* What a session reads when it opens.
LEMMA OpeningWithin ==
    ASSUME Typed, Rest, Bounds
    PROVE  /\ Checkpoint => /\ Within(disk, cursor') /\ Within(cursor', ServerCursor)
                            /\ cursor'.pts[Account] = ServerPts(Account)
                            /\ cursor'.date = ServerDate /\ cursor'.seq = ServerSeq
                            /\ disk' = disk
           /\ Bootstrap => /\ Within(disk, disk') /\ Within(disk', ServerCursor)
                           /\ cursor' = disk'
                           /\ disk'.pts[Account] = cursor.pts[Account]
                           /\ disk'.date = cursor.date /\ disk'.seq = cursor.seq
<1>1. cursor \in CursorType /\ disk \in CursorType /\ Account \in Scopes
  BY DeliveryAssumption DEF Typed, DeliveryTypeOK
<1>2. \A s \in Scopes : cursor.pts[s] \in Nat /\ disk.pts[s] \in Nat
  BY <1>1 DEF CursorType
<1>3. /\ \A s \in Scopes : /\ cursor.pts[s] <= ServerPts(s) /\ disk.pts[s] <= ServerPts(s)
                           /\ ServerPts(s) \in Nat
      /\ cursor.date <= ServerDate /\ disk.date <= ServerDate
      /\ cursor.seq <= ServerSeq /\ disk.seq <= ServerSeq
  BY ServerReaches DEF Bounds, Within, ServerCursor, Typed
<1>4. ServerDate \in Nat /\ ServerSeq \in Nat
  BY ServerCommonTyped DEF Typed
<1>5. ASSUME Checkpoint
      PROVE  /\ Within(disk, cursor') /\ Within(cursor', ServerCursor)
             /\ cursor'.pts[Account] = ServerPts(Account)
             /\ cursor'.date = ServerDate /\ cursor'.seq = ServerSeq
             /\ disk' = disk
  <2>1. cursor' = AccountNow /\ cursor = disk /\ disk' = disk
    BY <1>5 DEF Checkpoint, Rest, diskVars
  <2>2. /\ cursor'.pts = [cursor.pts EXCEPT ![Account] = ServerPts(Account)]
        /\ cursor'.date = ServerDate /\ cursor'.seq = ServerSeq
    BY <2>1 DEF AccountNow
  <2>3. cursor.pts \in [Scopes -> Nat]
    BY <1>1 DEF CursorType
  <2>4. /\ \A s \in Scopes : cursor'.pts[s] = IF s = Account THEN ServerPts(s) ELSE cursor.pts[s]
    BY <2>2, <2>3
  <2>5. \A s \in Scopes : disk.pts[s] <= cursor'.pts[s] /\ cursor'.pts[s] <= ServerPts(s)
    BY <1>2, <1>3, <2>1, <2>4
  <2> QED
    BY <1>1, <1>3, <1>4, <2>1, <2>2, <2>4, <2>5 DEF Within, ServerCursor
<1>6. ASSUME Bootstrap
      PROVE  /\ Within(disk, disk') /\ Within(disk', ServerCursor)
             /\ cursor' = disk'
             /\ disk'.pts[Account] = cursor.pts[Account]
             /\ disk'.date = cursor.date /\ disk'.seq = cursor.seq
  <2>1. PICK dialogs \in SUBSET (Scopes \ {Account}) : cursor' = Bootstrapped(dialogs)
    BY <1>6 DEF Bootstrap
  <2>2. disk' = cursor' /\ Within(disk, cursor)
    BY <1>6 DEF Bootstrap, Bounds
  <2>3. /\ cursor'.date = cursor.date /\ cursor'.seq = cursor.seq
        /\ \A s \in Scopes : cursor'.pts[s] = IF s \in dialogs THEN ServerPts(s) ELSE cursor.pts[s]
    BY <1>1, <2>1 DEF Bootstrapped, CursorType
  <2>4. \A s \in Scopes : disk.pts[s] <= cursor.pts[s]
    BY <2>2 DEF Within
  <2>5. \A s \in Scopes : disk.pts[s] <= cursor'.pts[s] /\ cursor'.pts[s] <= ServerPts(s)
    BY <1>2, <1>3, <2>3, <2>4
  <2>6. cursor'.pts[Account] = cursor.pts[Account]
    BY <1>1, <2>3
  <2> QED
    BY <1>3, <2>2, <2>3, <2>5, <2>6 DEF Within, ServerCursor
<1> QED
  BY <1>5, <1>6
\* A step issues one envelope or none.
LEMMA IssuesOne ==
    ASSUME Typed, [DeliveryNext]_deliveryVars
    PROVE  /\ world' = world /\ Base' = Base /\ History' = History
           /\ Issued' = Issued \/ \E x \in Envelopes : Issued' = Issued \union {x}
<1>1. CASE Quiet
  <2>1. world' = world
    BY <1>1, QuietKeeps
  <2>2. issued' = issued \/ (issued < Len(History) /\ issued' = issued + 1)
    BY <1>1, QuietIssues
  <2>3. CASE issued' = issued
    BY <2>1, <2>3 DEF Base, History, Issued
  <2>4. CASE issued < Len(History) /\ issued' = issued + 1
    BY <2>1, <2>4, IssuedGrows DEF Base, Typed
  <2> QED
    BY <2>2, <2>3, <2>4
<1>2. CASE ~Quiet
  <2>1. UNCHANGED wireVars
    BY <1>2, StepKinds, DriverConfined
       DEF Closing, Joined, Crash, BootstrapFails, SessionGone, Checkpoint, Bootstrap, CommitSync,
           CommitFails, wireVars
  <2> QED
    BY <2>1, IssuedStays DEF wireVars
<1> QED
  BY <1>1, <1>2

\* The durable cursor never goes back.
LEMMA BoundsStep ==
    ASSUME Typed, FromIssued, Rest, Synced, Bounds, [DeliveryNext]_deliveryVars
    PROVE  Bounds' /\ Within(disk, disk')
<1>1. cursor \in CursorType /\ disk \in CursorType /\ ServerCursor \in CursorType
  BY ServerReaches DEF Typed, DeliveryTypeOK
<1>2. cursor' \in CursorType /\ disk' \in CursorType
  BY TypedStep DEF Typed, DeliveryTypeOK
<1>3. ServerCursor' \in CursorType /\ Within(ServerCursor, ServerCursor')
  BY IssuesOne, ServerGrows DEF Typed
<1>4. Within(cursor, ServerCursor) /\ Within(disk, ServerCursor)
  BY DEF Bounds
<1>5. \A c \in CursorType : Within(c, ServerCursor) => Within(c, ServerCursor')
  BY <1>1, <1>3, WithinTrans
<1> SUFFICES /\ Within(cursor', ServerCursor) /\ Within(disk', ServerCursor)
             /\ phase' = "asking" => Within(disk', cursor')
             /\ Within(disk, disk')
  BY <1>2, <1>5 DEF Bounds
<1>6. Within(disk, disk)
  BY <1>1, WithinSelf
<1>7. CASE Quiet
  <2>1. UNCHANGED <<cursor, disk>>
    BY <1>7, QuietKeeps DEF diskVars
  <2>2. phase' = "asking" => phase = "asking"
    BY <1>7 DEF Quiet, Issue, Answer, AnswerLost, Arrive, LinkDown, Leave, PreStop, Submit,
                HandlerReturns, Receive, deliveryVars
  <2> QED
    BY <1>4, <1>6, <2>1, <2>2 DEF Bounds
<1>8. CASE Closing
  <2>1. SessionGone
    BY <1>8 DEF Closing, Joined, Crash, BootstrapFails
  <2> QED
    BY <1>4, <1>6, <2>1 DEF SessionGone, diskVars
<1>9. CASE Checkpoint
  BY <1>4, <1>6, <1>9, OpeningWithin
<1>10. CASE Bootstrap
  BY <1>10, OpeningWithin DEF Bootstrap
<1>11. CASE DriverNext
  <2>1. InSession /\ UNCHANGED <<disk, phase>>
    BY <1>11, DriverConfined DEF diskVars
  <2>2. ASSUME NEW e \in Issued, Starts(e) PROVE Within(cursor', ServerCursor)
    <3>1. e \in Envelopes /\ Within(Content[e], ServerCursor)
      BY WorldTyped, ServerReaches DEF Typed
    <3>2. cursor' = AdvancedFrom(disk, e)
      BY <2>1, <2>2, <3>1, StartsSynced
    <3> QED
      BY <1>1, <1>4, <3>1, <3>2, AdvancedWithin
  <2>3. Within(cursor', ServerCursor)
    BY <1>4, <1>11, <2>2, DriverCommits
  <2> QED
    BY <1>4, <1>6, <2>1, <2>3 DEF InSession
<1>12. CASE CommitSync
  <2>1. /\ InSession /\ commit.env \in Envelopes /\ disk' = cursor /\ cursor' = cursor
        /\ cursor = AdvancedFrom(disk, commit.env)
    BY <1>12, DiskCatchesUp DEF CommitSync, Synced
  <2>2. Within(disk, cursor)
    BY <1>1, <2>1, AdvancedWithin
  <2>3. phase' = phase
    BY <1>12 DEF CommitSync
  <2> QED
    BY <1>4, <2>1, <2>2, <2>3 DEF InSession
<1>13. CASE CommitFails
  BY <1>4, <1>6, <1>13 DEF CommitFails, diskVars, Bounds
<1> QED
  BY <1>7, <1>8, <1>9, <1>10, <1>11, <1>12, <1>13, StepKinds

\* The envelope that follows a cursor takes it past no other change.
LEMMA AbreastAdvances ==
    ASSUME Typed, NEW e \in Issued, Abreast(disk), Applies(disk, e)
    PROVE  Abreast(AdvancedFrom(disk, e))
<1> DEFINE a == AdvancedFrom(disk, e)
<1>1. PICK k \in 1..issued : e = History[k]
  BY DEF Issued
<1>2. /\ Account \in Scopes /\ e \in Envelopes /\ k \in DOMAIN History /\ k \in Nat
      /\ \A i \in 1..Len(History) : History[i] \in Envelopes /\ i \in DOMAIN History /\ i \in Nat
  BY <1>1, WorldTyped, DeliveryAssumption DEF Typed
<1>3. /\ disk \in CursorType /\ a \in CursorType
      /\ Within(disk, a) /\ Within(Content[e], a)
      /\ a.pts[Account] = Larger(disk.pts[Account], Content[e].pts[Account])
  BY <1>2, AdvancedWithin DEF AdvancedFrom, Typed, DeliveryTypeOK
<1>4. /\ disk.pts[Account] \in Nat /\ disk.date \in Nat /\ disk.seq \in Nat
      /\ a.pts[Account] \in Nat /\ a.date \in Nat /\ a.seq \in Nat
      /\ disk.date <= a.date /\ disk.seq <= a.seq
      /\ Content[e].date <= a.date /\ Content[e].seq <= a.seq
      /\ disk.pts[Account] <= a.pts[Account]
  BY <1>2, <1>3 DEF Within, CursorType
<1>5. world \in Worlds
  BY DEF Typed, DeliveryTypeOK
<1> HIDE DEF a
<1>6. ASSUME NEW i \in 1..Len(History), Counted(History[i], Account),
             Content[History[i]].pts[Account] <= a.pts[Account]
      PROVE  Content[History[i]].date <= a.date /\ Content[History[i]].seq <= a.seq
  <2> DEFINE x == Content[History[i]]
             y == Content[e]
  <2>1. /\ x.pts[Account] \in Nat /\ x.count[Account] \in Nat /\ x.date \in Nat /\ x.seq \in Nat
        /\ y.pts[Account] \in Nat /\ y.count[Account] \in Nat
    BY <1>2, ContentTyped
  <2>2. CASE x.pts[Account] <= disk.pts[Account]
    <3>1. x.date <= disk.date /\ x.seq <= disk.seq
      BY <1>6, <2>2 DEF Abreast
    <3> QED
      BY <1>4, <2>1, <3>1
  <2>3. CASE disk.pts[Account] < x.pts[Account]
    <3>1. x.pts[Account] <= y.pts[Account] /\ disk.pts[Account] < y.pts[Account]
      <4>1. a.pts[Account] = disk.pts[Account] \/ a.pts[Account] = y.pts[Account]
        BY <1>3 DEF Larger
      <4>2. /\ x.pts[Account] \in Nat /\ y.pts[Account] \in Nat /\ disk.pts[Account] \in Nat
            /\ x.pts[Account] <= a.pts[Account] /\ disk.pts[Account] < x.pts[Account]
        BY <1>4, <1>6, <2>1, <2>3
      <4> HIDE DEF x, y
      <4> QED
        BY <4>1, <4>2
    <3>2. y.pts[Account] = disk.pts[Account] + y.count[Account]
      BY <1>2, <1>4, <2>1, <3>1 DEF Abreast, Applies
    <3>3. y.count[Account] > 0 /\ x.count[Account] > 0
      BY <1>4, <1>6, <2>1, <3>1, <3>2 DEF Counted
    <3>4. CASE i < k
      <4>1. i \in 1..(k - 1)
        BY <1>2, <3>4
      <4>2. x.pts[Account] + y.count[Account] <= y.pts[Account]
        BY <1>1, <1>2, <1>5, <3>3, <4>1, NumberingAssumption DEF History
      <4> QED
        BY <1>4, <2>1, <2>3, <3>2, <4>2
    <3>5. CASE k < i
      <4>1. k \in 1..(i - 1)
        BY <1>2, <3>5
      <4>2. y.pts[Account] + x.count[Account] <= x.pts[Account]
        BY <1>1, <1>2, <1>5, <3>3, <4>1, NumberingAssumption DEF History
      <4> QED
        BY <2>1, <3>1, <3>3, <4>2
    <3>6. CASE i = k
      BY <1>1, <1>4, <3>6
    <3> QED
      BY <1>2, <3>4, <3>5, <3>6
  <2> QED
    BY <1>4, <2>1, <2>2, <2>3
<1>7. a.pts[Account] # 0
  BY <1>4 DEF Abreast
<1> QED
  BY <1>6, <1>7 DEF Abreast, a

LEMMA AbreastStep ==
    ASSUME Typed, FromIssued, Rest, Synced, Bounds, AccountAbreast, [DeliveryNext]_deliveryVars
    PROVE  AccountAbreast'
<1>1. Base' = Base /\ History' = History
  BY IssuesOne
<1> SUFFICES ASSUME Base[Account] # 0
             PROVE  Abreast(cursor') /\ Abreast(disk')
  BY <1>1 DEF AccountAbreast, Abreast, Counted
<1>2. Abreast(cursor) /\ Abreast(disk)
  BY DEF AccountAbreast
<1>3. CASE Quiet \/ CommitFails
  <2>1. UNCHANGED <<cursor, disk>>
    BY <1>3, QuietKeeps DEF CommitFails, diskVars
  <2> QED
    BY <1>2, <2>1
<1>4. CASE Closing
  <2>1. SessionGone
    BY <1>4 DEF Closing, Joined, Crash, BootstrapFails
  <2> QED
    BY <1>2, <2>1 DEF SessionGone, diskVars
<1>5. CASE Checkpoint
  <2>1. /\ cursor'.pts[Account] = ServerPts(Account)
        /\ cursor'.date = ServerDate /\ cursor'.seq = ServerSeq /\ disk' = disk
    BY <1>5, OpeningWithin
  <2>2. /\ Account \in Scopes /\ Base[Account] \in Nat /\ issued \in Nat /\ Len(History) \in Nat
    BY WorldTyped, DeliveryAssumption DEF Typed
  <2>3. ServerPts(Account) \in Nat /\ Base[Account] <= ServerPts(Account)
    BY <2>2, ServerReaches DEF Typed
  <2>4. ASSUME NEW i \in 1..Len(History), Counted(History[i], Account),
               Content[History[i]].pts[Account] <= ServerPts(Account)
        PROVE  Content[History[i]].date <= ServerDate /\ Content[History[i]].seq <= ServerSeq
    <3>1. CASE i \in (issued + 1)..Len(History)
      <4>1. /\ Content[History[i]].pts[Account] \in Nat
            /\ ServerPts(Account) < Content[History[i]].pts[Account]
        BY <2>2, <2>4, <3>1, IssuedBelow DEF Typed
      <4> QED
        BY <2>3, <2>4, <4>1
    <3>2. CASE i \in 1..issued
      BY <3>2, ServerCommonTyped DEF Typed, Issued
    <3> QED
      BY <2>2, <3>1, <3>2
  <2>5. Abreast(cursor')
    BY <2>1, <2>2, <2>3, <2>4 DEF Abreast
  <2> QED
    BY <1>2, <2>1, <2>5
<1>6. CASE Bootstrap
  <2>1. /\ cursor' = disk' /\ disk'.pts[Account] = cursor.pts[Account]
        /\ disk'.date = cursor.date /\ disk'.seq = cursor.seq
    BY <1>6, OpeningWithin
  <2> QED
    BY <1>2, <2>1 DEF Abreast
<1>7. CASE DriverNext
  <2>1. InSession /\ disk' = disk
    BY <1>7, DriverConfined DEF diskVars
  <2>2. ASSUME NEW e \in Issued, Starts(e) PROVE Abreast(cursor')
    <3>1. e \in Envelopes
      BY WorldTyped DEF Typed
    <3>2. cursor' = AdvancedFrom(disk, e) /\ Applies(disk, e)
      BY <2>1, <2>2, <3>1, StartsSynced
    <3> QED
      BY <1>2, <3>2, AbreastAdvances
  <2> QED
    BY <1>2, <1>7, <2>1, <2>2, DriverCommits
<1>8. CASE CommitSync
  BY <1>2, <1>8, DiskCatchesUp
<1> QED
  BY <1>3, <1>4, <1>5, <1>6, <1>7, <1>8, StepKinds

-----------------------------------------------------------------------------
(* The order of events. *)

Known == Base[Account] # 0

\* What ChangesInOrderOnce asks of event m of envelope f and event n of e, which
\* comes after it; known: the account's cursor was known at first.
Follows(known, f, m, e, n) ==
    \A s \in Scopes :
        /\ Counted(f, s) /\ Counted(e, s) /\ Alone(e, s)
        /\ (s = Account /\ known) \/ KeepsPace(e, f, s)
        => \/ Content[f].pts[s] < Content[e].pts[s]
           \/ f = e /\ m < n

Precedes(known, x, y) ==
    x.kind = "event" /\ y.kind = "event" => Follows(known, x.env, x.nth, y.env, y.nth)

InOrder(known, q) == \A i, j \in DOMAIN q : i < j => Precedes(known, q[i], q[j])

Before(known, A, B) == \A x \in A, y \in B : Precedes(known, x, y)

SeenEvents == [i \in DOMAIN seen |-> Event(seen[i][1], seen[i][2])]

\* The application, the channel, the driver and the ready events, in this order.
Queues == /\ InOrder(Known, SeenEvents) /\ InOrder(Known, channel) /\ InOrder(Known, ready)
          /\ Before(Known, Elements(SeenEvents), Elements(channel) \union {out} \union Elements(ready))
          /\ Before(Known, Elements(channel), {out} \union Elements(ready))
          /\ Before(Known, {out}, Elements(ready))

\* A commit starts when all ready events are sent.
Lean == commit # NoCommit => ready = <<>>

\* The durable cursors are past all that is exposed or about to be.
Shown == /\ \A e, n : Exposed(e, n) => e \in Issued /\ Within(Content[e], disk)
         /\ commit.state = "done" => Within(Content[commit.env], disk)

\* The events of the commit under way follow all that is exposed.
Fresh == (commit.state \in {"asked", "done"} /\ commit.shows)
           => \A f, m, n : Exposed(f, m) => Follows(Known, f, m, commit.env, n)

LEMMA InOrderAppend ==
    ASSUME NEW S, NEW q \in Seq(S), NEW x \in S, NEW known, InOrder(known, q),
           Before(known, Elements(q), {x})
    PROVE  InOrder(known, Append(q, x))
<1>1. DOMAIN q = 1..Len(q) /\ DOMAIN Append(q, x) = 1..(Len(q) + 1) /\ Len(q) \in Nat
  BY LenProperties, AppendProperties
<1>2. /\ \A i \in 1..Len(q) : Append(q, x)[i] = q[i]
      /\ Append(q, x)[Len(q) + 1] = x
  BY AppendProperties
<1> SUFFICES ASSUME NEW i \in 1..(Len(q) + 1), NEW j \in 1..(Len(q) + 1), i < j
             PROVE  Precedes(known, Append(q, x)[i], Append(q, x)[j])
  BY <1>1 DEF InOrder
<1>3. i \in 1..Len(q)
  BY <1>1
<1>4. CASE j = Len(q) + 1
  <2>1. q[i] \in Elements(q)
    BY <1>1, <1>3 DEF Elements
  <2> QED
    BY <1>2, <1>3, <1>4, <2>1 DEF Before
<1>5. CASE j # Len(q) + 1
  <2>1. j \in 1..Len(q)
    BY <1>1, <1>5
  <2> QED
    BY <1>1, <1>2, <1>3, <2>1 DEF InOrder
<1> QED
  BY <1>4, <1>5

LEMMA InOrderTail ==
    ASSUME NEW S, NEW q \in Seq(S), q # <<>>, NEW known, InOrder(known, q)
    PROVE  InOrder(known, Tail(q)) /\ Before(known, {Head(q)}, Elements(Tail(q)))
<1>1. /\ DOMAIN q = 1..Len(q) /\ DOMAIN Tail(q) = 1..(Len(q) - 1)
      /\ Len(q) \in Nat \ {0}
  BY LenProperties, HeadTailProperties, EmptySeq
<1>2. /\ \A i \in 1..(Len(q) - 1) : Tail(q)[i] = q[i + 1]
      /\ Head(q) = q[1]
  BY <1>1, HeadTailProperties
<1>3. 1 \in DOMAIN q /\ \A i \in DOMAIN Tail(q) : i + 1 \in DOMAIN q /\ 1 < i + 1
  BY <1>1
<1>4. \A i, j \in DOMAIN Tail(q) : i < j => i + 1 < j + 1
  BY <1>1
<1>5. InOrder(known, Tail(q))
  BY <1>1, <1>2, <1>3, <1>4 DEF InOrder
<1>6. Before(known, {Head(q)}, Elements(Tail(q)))
  BY <1>1, <1>2, <1>3 DEF InOrder, Before, Elements
<1> QED
  BY <1>5, <1>6

LEMMA InOrderEmpty ==
    ASSUME NEW known
    PROVE  InOrder(known, <<>>) /\ Elements(<<>>) = {}
<1>1. Elements(<<>>) = {}
  BY ElementsType, EmptySeq
<1>2. DOMAIN <<>> = {}
  BY <1>1 DEF Elements
<1> QED
  BY <1>1, <1>2 DEF InOrder

\* The events of one envelope are in order.
LEMMA EventsInOrder ==
    ASSUME Typed, NEW known
    PROVE  InOrder(known, EventsOf(commit))
<1>1. CASE commit.shows /\ commit # NoCommit
  <2> DEFINE k == Content[commit.env].events
  <2>1. EventsOf(commit) = [n \in 1..k |-> Event(commit.env, n)]
    BY <1>1 DEF EventsOf
  <2> SUFFICES ASSUME NEW i \in 1..k, NEW j \in 1..k, i < j
               PROVE  Precedes(known, Event(commit.env, i), Event(commit.env, j))
    BY <2>1 DEF InOrder
  <2> QED
    BY DEF Precedes, Follows, Event
<1>2. CASE ~commit.shows
  BY <1>2, InOrderEmpty DEF EventsOf
<1> QED
  BY <1>1, <1>2 DEF NoCommit

\* What the application sees after it takes a batch.
LEMMA SeenGrows ==
    ASSUME Typed, Receive
    PROVE  /\ SeenEvents \in Seq(EventType)
           /\ \/ Head(channel) \in EventType /\ SeenEvents' = Append(SeenEvents, Head(channel))
              \/ Head(channel).kind # "event" /\ SeenEvents' = SeenEvents
<1>1. seen \in Seq(Envelopes \X Nat) /\ channel \in Seq(Batches) /\ channel # <<>>
  BY DEF Typed, DeliveryTypeOK, Receive
<1>2. DOMAIN seen = 1..Len(seen) /\ Len(seen) \in Nat
  BY <1>1, LenProperties
<1>3. \A i \in 1..Len(seen) : SeenEvents[i] \in EventType
  <2>1. \A i \in 1..Len(seen) : seen[i] \in Envelopes \X Nat
    BY <1>1
  <2> QED
    BY <1>2, <2>1 DEF SeenEvents, Event, EventType
<1>4. SeenEvents \in Seq(EventType) /\ Len(SeenEvents) = Len(seen)
  <2>1. SeenEvents = [i \in 1..Len(seen) |-> SeenEvents[i]]
    BY <1>2 DEF SeenEvents
  <2> QED
    BY <1>2, <1>3, <2>1
<1>5. Head(channel) \in Batches
  BY <1>1, HeadTailProperties
<1>6. CASE Head(channel).kind = "event"
  <2> DEFINE x == <<Head(channel).env, Head(channel).nth>>
  <2>1. Head(channel) \in EventType
    BY <1>5, <1>6 DEF Batches, Nothing, Failure
  <2>2. x \in Envelopes \X Nat /\ Head(channel) = Event(x[1], x[2])
    BY <2>1 DEF EventType, Event
  <2>3. seen' = Append(seen, x)
    BY <1>6 DEF Receive
  <2> HIDE DEF x
  <2>4. /\ DOMAIN seen' = 1..(Len(seen) + 1)
        /\ \A i \in 1..Len(seen) : seen'[i] = seen[i]
        /\ seen'[Len(seen) + 1] = x
    BY <1>1, <2>2, <2>3, AppendProperties
  <2>5. SeenEvents' = [i \in 1..(Len(seen) + 1) |->
                         IF i = Len(seen) + 1 THEN Head(channel) ELSE SeenEvents[i]]
    <3>1. SeenEvents' = [i \in 1..(Len(seen) + 1) |-> Event(seen'[i][1], seen'[i][2])]
      BY <2>4 DEF SeenEvents
    <3>2. \A i \in 1..(Len(seen) + 1) : i = Len(seen) + 1 \/ i \in 1..Len(seen)
      BY <1>2
    <3>3. \A i \in 1..(Len(seen) + 1) : Event(seen'[i][1], seen'[i][2])
             = IF i = Len(seen) + 1 THEN Head(channel) ELSE SeenEvents[i]
      BY <1>2, <2>2, <2>4, <3>2 DEF SeenEvents
    <3> QED
      BY <3>1, <3>3
  <2>6. /\ Append(SeenEvents, Head(channel)) \in Seq(EventType)
        /\ Len(Append(SeenEvents, Head(channel))) = Len(seen) + 1
        /\ \A i \in 1..Len(seen) : Append(SeenEvents, Head(channel))[i] = SeenEvents[i]
        /\ Append(SeenEvents, Head(channel))[Len(seen) + 1] = Head(channel)
    BY <1>4, <2>1, AppendProperties
  <2>7. /\ \A i \in 1..(Len(seen) + 1) : i = Len(seen) + 1 \/ i \in 1..Len(seen)
        /\ \A i \in 1..Len(seen) : i # Len(seen) + 1
    BY <1>2
  <2>8. SeenEvents' \in Seq(EventType) /\ Len(SeenEvents') = Len(seen) + 1
    BY <1>2, <1>3, <2>1, <2>5, <2>7
  <2>9. \A i \in 1..(Len(seen) + 1) : SeenEvents'[i] = Append(SeenEvents, Head(channel))[i]
    BY <2>5, <2>6, <2>7
  <2>10. SeenEvents' = Append(SeenEvents, Head(channel))
    BY <2>6, <2>8, <2>9, SeqEqual
  <2> QED
    BY <1>4, <2>1, <2>10
<1>7. CASE Head(channel).kind # "event"
  BY <1>4, <1>7 DEF Receive, SeenEvents
<1> QED
  BY <1>6, <1>7

\* What leaves the driver unchanged but for a batch that is no event.
Silent == \/ UNCHANGED <<seen, channel, out, ready>>
          \/ UNCHANGED <<seen, channel, ready>> /\ out' \in {Nothing, Failure}
          \/ seen' = seen /\ channel' = <<>> /\ out' = Nothing /\ ready' = <<>>

LEMMA BatchSteps ==
    ASSUME Typed, [DeliveryNext]_deliveryVars
    PROVE  Receive \/ ExposeNext \/ Committed \/ Deliver \/ Silent
<1>1. CASE Quiet /\ ~Receive
  BY <1>1 DEF Quiet, Issue, Answer, AnswerLost, Arrive, LinkDown, Leave, PreStop, Submit,
              HandlerReturns, deliveryVars, driverVars, Silent
<1>2. CASE Closing
  BY <1>2 DEF Closing, Joined, Crash, BootstrapFails, SessionGone, Silent
<1>3. CASE Checkpoint \/ Bootstrap \/ CommitSync \/ CommitFails
  BY <1>3 DEF Checkpoint, Bootstrap, CommitSync, CommitFails, Silent
<1>4. CASE DriverNext /\ ~(ExposeNext \/ Committed \/ Deliver)
  <2>1. seen' = seen
    BY <1>4, DriverConfined
  <2>2. UNCHANGED <<ready, channel>> /\ (out' = out \/ out' \in {Nothing, Failure})
    BY <1>4 DEF DriverNext, CommitRefused, RetryDeferred, PopSubmission, CommitSubmission,
                TakeLive, StreamEnds, GapTimeout, DriverStops, Sends
  <2> QED
    BY <2>1, <2>2 DEF Silent
<1> QED
  BY <1>1, <1>2, <1>3, <1>4, StepKinds

\* A commit starts and ends while no event is ready.
LEMMA LeanStep ==
    ASSUME Typed, FromIssued, Lean, [DeliveryNext]_deliveryVars
    PROVE  Lean'
<1>1. CASE Quiet
  BY <1>1, QuietKeeps DEF Lean
<1>2. CASE Closing
  BY <1>2 DEF Closing, Joined, Crash, BootstrapFails, SessionGone, Lean
<1>3. CASE Checkpoint \/ Bootstrap
  BY <1>3 DEF Checkpoint, Bootstrap, Lean
<1>4. CASE CommitSync \/ CommitFails
  BY <1>4 DEF CommitSync, CommitFails, Lean, NoCommit
<1>5. CASE DriverNext
  <2>1. CASE \E e \in Issued : Starts(e)
    BY <2>1 DEF Starts, Lean
  <2>2. CASE Committed
    BY <2>2 DEF Committed, Lean
  <2>3. CASE CommitRefused
    BY <2>3 DEF CommitRefused, Lean
  <2>4. CASE UNCHANGED commit /\ ~Committed
    <3>1. ready' = ready \/ ExposeNext
      BY <1>5, <2>4 DEF DriverNext, CommitRefused, RetryDeferred, PopSubmission, CommitSubmission,
                        TakeLive, StreamEnds, GapTimeout, DriverStops, Deliver
    <3> QED
      BY <2>4, <3>1 DEF Lean, ExposeNext
  <2> QED
    BY <1>5, <2>1, <2>2, <2>3, <2>4, DriverCommits
<1> QED
  BY <1>1, <1>2, <1>3, <1>4, <1>5, StepKinds

LEMMA ShownStep ==
    ASSUME Typed, FromIssued, Rest, Synced, Bounds, Shown, [DeliveryNext]_deliveryVars
    PROVE  Shown'
<1>1. Within(disk, disk') /\ disk \in CursorType /\ disk' \in CursorType
  BY BoundsStep, TypedStep DEF Typed, DeliveryTypeOK
<1>2. \A e \in Envelopes : Content[e].pts \in [Scopes -> Nat] /\ Content[e].date \in Nat
                           /\ Content[e].seq \in Nat
  BY ContentTyped
<1>3. \A e \in Envelopes : Within(Content[e], disk) => Within(Content[e], disk')
  BY <1>1, <1>2 DEF Within, CursorType
<1>4. Issued \subseteq Issued' /\ Issued \subseteq Envelopes
  BY IssuesOne, WorldTyped DEF Typed
<1>5. commit # NoCommit => commit.env \in Issued
  BY DEF FromIssued
<1>6. ASSUME NEW e, NEW n, Exposed(e, n)'
      PROVE  e \in Issued' /\ Within(Content[e], disk')
  <2>1. CASE Exposed(e, n)
    BY <1>3, <1>4, <2>1 DEF Shown
  <2>2. CASE Committed /\ e = commit.env
    BY <1>3, <1>4, <1>5, <2>2 DEF Shown, Committed, Durable
  <2> QED
    BY <1>6, <2>1, <2>2, ExposedFrom
<1>7. ASSUME commit'.state = "done" PROVE Within(Content[commit'.env], disk')
  <2>1. CASE commit' = commit
    <3>1. commit.env \in Envelopes
      BY <1>4, <1>5, <1>7, <2>1 DEF NoCommit
    <3> QED
      BY <1>3, <1>7, <2>1, <3>1 DEF Shown
  <2>2. CASE CommitSync
    <3>1. /\ commit.env \in Envelopes /\ disk' = cursor /\ cursor = AdvancedFrom(disk, commit.env)
          /\ commit'.env = commit.env
      BY <2>2, DiskCatchesUp DEF CommitSync, Synced
    <3> QED
      BY <1>1, <3>1, AdvancedWithin
  <2>3. CASE CommitFails \/ Closing \/ DriverNext
    <3>1. commit'.state # "done" \/ commit' = commit
      <4>1. CASE CommitFails
        BY <4>1 DEF CommitFails, Typed, DeliveryTypeOK, CommitType, NoCommit
      <4>2. CASE Closing
        BY <4>2 DEF Closing, Joined, Crash, BootstrapFails, SessionGone, NoCommit
      <4>3. CASE DriverNext
        BY <4>3, DriverCommits DEF Starts, StartCommit, Committed, CommitRefused, NoCommit
      <4> QED
        BY <2>3, <4>1, <4>2, <4>3
    <3> QED
      BY <1>7, <2>1, <3>1
  <2>4. CASE Quiet \/ Checkpoint \/ Bootstrap
    <3>1. commit' = commit
      BY <2>4, QuietKeeps DEF Checkpoint, Bootstrap
    <3> QED
      BY <2>1, <3>1
  <2> QED
    BY <2>2, <2>3, <2>4, StepKinds
<1> QED
  BY <1>6, <1>7 DEF Shown

\* What shows an envelope again is none of what ChangesInOrderOnce is about.
LEMMA StartsFresh ==
    ASSUME Typed, Synced, InSession, AccountAbreast, Shown,
           NEW e \in Issued, Starts(e), Exposes(e), NEW f, NEW m, NEW n, Exposed(f, m)
    PROVE  Follows(Known, f, m, e, n)
<1>1. PICK j \in 1..issued : e = History[j]
  BY DEF Issued
<1>2. f \in Issued /\ Within(Content[f], disk)
  BY DEF Shown
<1>3. PICK i \in 1..issued : f = History[i]
  BY <1>2 DEF Issued
<1>4. /\ issued \in Nat /\ Len(History) \in Nat /\ issued <= Len(History)
      /\ e \in Envelopes /\ f \in Envelopes /\ Base \in [Scopes -> Nat]
      /\ i \in DOMAIN History /\ j \in DOMAIN History /\ i \in Nat /\ j \in Nat
      /\ j \in 1..Len(History) /\ world \in Worlds
  BY <1>1, <1>2, <1>3, WorldTyped DEF Typed, DeliveryTypeOK
<1>5. cursor = disk /\ disk \in CursorType
  BY <1>4, StartsSynced DEF Typed, DeliveryTypeOK
<1> DEFINE x == Content[f]
           y == Content[e]
<1> SUFFICES ASSUME NEW s \in Scopes, Counted(f, s), Counted(e, s), Alone(e, s),
                    (s = Account /\ Known) \/ KeepsPace(e, f, s),
                    ~(x.pts[s] < y.pts[s])
             PROVE  FALSE
  BY DEF Follows
<1>6. /\ x.pts[s] \in Nat /\ y.pts[s] \in Nat /\ x.count[s] \in Nat /\ y.count[s] \in Nat
      /\ x.count[s] > 0 /\ y.count[s] > 0
      /\ x.date \in Nat /\ y.date \in Nat /\ x.seq \in Nat /\ y.seq \in Nat
      /\ \A t \in Scopes : disk.pts[t] \in Nat
      /\ disk.date \in Nat /\ disk.seq \in Nat
  BY <1>4, <1>5, ContentTyped DEF Counted, CursorType
<1>7. x.pts[s] <= disk.pts[s] /\ x.date <= disk.date /\ x.seq <= disk.seq
  BY <1>2 DEF Within
<1>8. y.pts[s] <= disk.pts[s]
  BY <1>6, <1>7
<1>9. Base[s] + y.count[s] <= y.pts[s]
  BY <1>1, <1>4, <1>6, NumberingAssumption DEF History, Base
<1>10. y.pts[s] # 0
  BY <1>4, <1>6, <1>9
<1>11. y.date <= disk.date /\ y.seq <= disk.seq
  <2>1. CASE s = Account /\ Known
    <3>1. Abreast(disk)
      BY <2>1 DEF AccountAbreast, Known
    <3> QED
      BY <1>1, <1>4, <1>8, <2>1, <3>1 DEF Abreast
  <2>2. CASE KeepsPace(e, f, s) /\ y.pts[s] < x.pts[s]
    BY <1>6, <1>7, <2>2 DEF KeepsPace
  <2>3. CASE y.pts[s] = x.pts[s]
    <3>1. i = j
      <4>1. CASE i < j
        <5>1. i \in 1..(j - 1)
          BY <1>4, <4>1
        <5>2. x.pts[s] + y.count[s] <= y.pts[s]
          BY <1>1, <1>3, <1>4, <1>6, <5>1, NumberingAssumption DEF History
        <5> QED
          BY <1>6, <2>3, <5>2
      <4>2. CASE j < i
        <5>1. j \in 1..(i - 1)
          BY <1>4, <4>2
        <5>2. y.pts[s] + x.count[s] <= x.pts[s]
          BY <1>1, <1>3, <1>4, <1>6, <5>1, NumberingAssumption DEF History
        <5> QED
          BY <1>6, <2>3, <5>2
      <4> QED
        BY <1>4, <4>1, <4>2
    <3> QED
      BY <1>1, <1>3, <1>7, <3>1
  <2> QED
    BY <1>6, <2>1, <2>2, <2>3
<1>12. \A t \in Scopes : ~NewInScope(e, t)
  <2> SUFFICES ASSUME NEW t \in Scopes PROVE ~NewInScope(e, t)
    OBVIOUS
  <2>1. CASE t = s
    BY <1>5, <1>6, <1>8, <2>1 DEF NewInScope
  <2>2. CASE t # s
    <3>1. y.pts[t] = 0
      BY <2>2 DEF Alone
    <3> QED
      BY <1>5, <1>6, <3>1 DEF NewInScope
  <2> QED
    BY <2>1, <2>2
<1>13. HasCursor(e)
  BY <1>10 DEF HasCursor
<1> QED
  BY <1>5, <1>6, <1>11, <1>12, <1>13 DEF Exposes

LEMMA FreshStep ==
    ASSUME Typed, FromIssued, Synced, AccountAbreast, Shown, Fresh, [DeliveryNext]_deliveryVars
    PROVE  Fresh'
<1>1. Known' = Known
  BY IssuesOne DEF Known
<1> SUFFICES ASSUME commit'.state \in {"asked", "done"}, commit'.shows,
                    NEW f, NEW m, NEW n, Exposed(f, m)'
             PROVE  Follows(Known, f, m, commit'.env, n)
  BY <1>1 DEF Fresh, Follows, Counted, Alone, KeepsPace
<1>2. ~Committed
  BY DEF Committed, NoCommit
<1>3. Exposed(f, m)
  BY <1>2, ExposedFrom
<1>4. CASE commit' = commit
  BY <1>3, <1>4 DEF Fresh
<1>5. CASE CommitSync
  BY <1>3, <1>5, DiskCatchesUp DEF Fresh, CommitSync
<1>6. CASE DriverNext /\ commit' # commit
  <2>1. CommitRefused => commit' = NoCommit
    BY DEF CommitRefused
  <2>2. PICK e \in Issued : Starts(e)
    BY <1>2, <1>6, <2>1, DriverCommits DEF NoCommit
  <2>3. InSession /\ e \in Envelopes
    BY <1>6, DriverConfined, WorldTyped DEF Typed
  <2>4. commit' = [state |-> "asked", env |-> e, shows |-> Exposes(e)]
    BY <2>2, <2>3, StartsSynced
  <2>5. commit'.env = e /\ Exposes(e)
    BY <2>4
  <2> QED
    BY <1>3, <2>2, <2>3, <2>5, StartsFresh
<1>7. CASE Quiet \/ Checkpoint \/ Bootstrap
  <2>1. commit' = commit
    BY <1>7, QuietKeeps DEF Checkpoint, Bootstrap
  <2> QED
    BY <1>4, <2>1
<1>8. ~Closing
  BY DEF Closing, Joined, Crash, BootstrapFails, SessionGone, NoCommit
<1>9. ~CommitFails
  BY DEF CommitFails, Typed, DeliveryTypeOK, CommitType, NoCommit
<1> QED
  BY <1>4, <1>5, <1>6, <1>7, <1>8, <1>9, StepKinds

\* The batches are records of the kinds they say.
LEMMA BatchElements ==
    ASSUME Typed
    PROVE  /\ \A x \in Elements(SeenEvents) : \E e, n : x = Event(e, n) /\ <<e, n>> \in Elements(seen)
           /\ \A x \in Elements(channel) : x.kind = "event" => \E e, n : x = Event(e, n)
<1>1. ASSUME NEW i \in DOMAIN seen
      PROVE  \E e, n : SeenEvents[i] = Event(e, n) /\ <<e, n>> \in Elements(seen)
  <2>1. seen \in Seq(Envelopes \X Nat)
    BY DEF Typed, DeliveryTypeOK
  <2>2. seen[i] \in Envelopes \X Nat
    BY <2>1
  <2>3. seen[i] = <<seen[i][1], seen[i][2]>> /\ seen[i] \in Elements(seen)
    BY <2>2 DEF Elements
  <2> QED
    BY <2>3 DEF SeenEvents
<1>2. Elements(SeenEvents) = {SeenEvents[i] : i \in DOMAIN seen}
  BY DEF Elements, SeenEvents
<1>3. Elements(channel) \subseteq Batches
  BY ElementsType DEF Typed, DeliveryTypeOK
<1>4. \A x \in Batches : x.kind = "event" => x = Event(x.env, x.nth)
  BY DEF Batches, Nothing, Failure, EventType, Event
<1> QED
  BY <1>1, <1>2, <1>3, <1>4

\* Nothing and Failure stand in no order.
LEMMA NoEventAnywhere ==
    ASSUME NEW known, NEW x, x.kind # "event", NEW S
    PROVE  Before(known, S, {x}) /\ Before(known, {x}, S)
BY DEF Before, Precedes

LEMMA BeforeUnion ==
    ASSUME NEW known, NEW A, NEW B, NEW C
    PROVE  /\ Before(known, A \union B, C) <=> Before(known, A, C) /\ Before(known, B, C)
           /\ Before(known, A, B \union C) <=> Before(known, A, B) /\ Before(known, A, C)
BY DEF Before

LEMMA QueuesStep ==
    ASSUME Typed, Synced, Lean, Fresh, Queues, [DeliveryNext]_deliveryVars
    PROVE  Queues'
<1> DEFINE k == Known
           S == Elements(SeenEvents)
           C == Elements(channel)
           R == Elements(ready)
<1>1. Known' = Known
  BY IssuesOne DEF Known
<1>2. /\ InOrder(k, SeenEvents) /\ InOrder(k, channel) /\ InOrder(k, ready)
      /\ Before(k, S, C) /\ Before(k, S, {out}) /\ Before(k, S, R)
      /\ Before(k, C, {out}) /\ Before(k, C, R) /\ Before(k, {out}, R)
  <2>1. /\ Before(k, S, C \union {out} \union R) /\ Before(k, C, {out} \union R)
        /\ InOrder(k, SeenEvents) /\ InOrder(k, channel) /\ InOrder(k, ready)
        /\ Before(k, {out}, R)
    BY DEF Queues
  <2> HIDE DEF k, S, C, R
  <2> QED
    BY <2>1 DEF Before
<1> SUFFICES /\ InOrder(k, SeenEvents') /\ InOrder(k, channel') /\ InOrder(k, ready')
             /\ Before(k, S', C') /\ Before(k, S', {out'}) /\ Before(k, S', R')
             /\ Before(k, C', {out'}) /\ Before(k, C', R') /\ Before(k, {out'}, R')
  <2>1. /\ Before(k, S', C' \union {out'} \union R') /\ Before(k, C', {out'} \union R')
    BY BeforeUnion
  <2>2. /\ InOrder(Known, SeenEvents') /\ InOrder(Known, channel') /\ InOrder(Known, ready')
        /\ Before(Known, {out'}, R')
    OBVIOUS
  <2> QED
    BY <1>1, <2>1, <2>2 DEF Queues, InOrder, Before, Precedes, Follows, Counted, Alone, KeepsPace
<1> HIDE DEF k
<1>3. Nothing.kind # "event" /\ Failure.kind # "event"
  BY DEF Nothing, Failure
<1>4. /\ ready \in Seq(EventType) /\ channel \in Seq(Batches) /\ out \in Batches
      /\ InOrder(k, <<>>) /\ Elements(<<>>) = {}
  BY InOrderEmpty DEF Typed, DeliveryTypeOK
<1>5. CASE Silent
  <2>1. SeenEvents' = SeenEvents
    BY <1>5 DEF Silent, SeenEvents
  <2>2. CASE UNCHANGED <<seen, channel, out, ready>>
    BY <1>2, <2>1, <2>2
  <2>3. CASE UNCHANGED <<seen, channel, ready>> /\ out' \in {Nothing, Failure}
    <3>1. out'.kind # "event"
      BY <1>3, <2>3
    <3> QED
      BY <1>2, <2>1, <2>3, <3>1, NoEventAnywhere
  <2>4. CASE seen' = seen /\ channel' = <<>> /\ out' = Nothing /\ ready' = <<>>
    BY <1>2, <1>3, <1>4, <2>1, <2>4 DEF Before, Precedes
  <2> QED
    BY <1>5, <2>2, <2>3, <2>4 DEF Silent
<1>6. CASE Receive
  <2>1. channel # <<>> /\ channel' = Tail(channel) /\ UNCHANGED <<out, ready>>
    BY <1>6 DEF Receive
  <2>2. C = {Head(channel)} \union C'
    BY <1>4, <2>1, ElementsTail
  <2>3. InOrder(k, channel') /\ Before(k, {Head(channel)}, C')
    BY <1>2, <1>4, <2>1, InOrderTail
  <2>4. /\ Before(k, S, {Head(channel)}) /\ Before(k, S, C')
        /\ Before(k, {Head(channel)}, {out}) /\ Before(k, {Head(channel)}, R)
        /\ Before(k, C', {out}) /\ Before(k, C', R)
    BY <1>2, <2>2 DEF Before
  <2>5. CASE Head(channel) \in EventType /\ SeenEvents' = Append(SeenEvents, Head(channel))
    <3>1. SeenEvents \in Seq(EventType)
      BY <1>6, SeenGrows
    <3>2. S' = S \union {Head(channel)}
      BY <2>5, <3>1, ElementsAppend
    <3>3. InOrder(k, SeenEvents')
      BY <1>2, <2>4, <2>5, <3>1, InOrderAppend
    <3>4. Before(k, S', C') /\ Before(k, S', {out}) /\ Before(k, S', R)
      BY <1>2, <2>3, <2>4, <3>2 DEF Before
    <3> QED
      BY <1>2, <2>1, <2>3, <2>4, <3>3, <3>4
  <2>6. CASE SeenEvents' = SeenEvents
    BY <1>2, <2>1, <2>3, <2>4, <2>6
  <2> QED
    BY <1>6, <2>5, <2>6, SeenGrows
<1>7. CASE ExposeNext
  <2>1. /\ UNCHANGED <<seen, channel>> /\ SeenEvents' = SeenEvents
        /\ ready # <<>> /\ out' = Head(ready) /\ ready' = Tail(ready)
    BY <1>7 DEF ExposeNext, Sends, SeenEvents
  <2>2. R = {out'} \union R'
    BY <1>4, <2>1, ElementsTail
  <2>3. InOrder(k, ready') /\ Before(k, {out'}, R')
    BY <1>2, <1>4, <2>1, InOrderTail
  <2>4. Before(k, S, {out'}) /\ Before(k, S, R') /\ Before(k, C, {out'}) /\ Before(k, C, R')
    BY <1>2, <2>2 DEF Before
  <2> QED
    BY <1>2, <2>1, <2>3, <2>4
<1>8. CASE Committed
  <2> DEFINE all == EventsOf(commit)
  <2>1. /\ UNCHANGED <<seen, channel>> /\ SeenEvents' = SeenEvents /\ ready = <<>>
        /\ commit.state = "done"
    BY <1>8 DEF Committed, Durable, Lean, SeenEvents
  <2>2. all \in Seq(EventType) /\ InOrder(k, all)
    BY CommitTyped, EventsInOrder DEF Typed, DeliveryTypeOK
  <2>3. /\ out' = IF all = <<>> THEN Nothing ELSE Head(all)
        /\ ready' = IF all = <<>> THEN <<>> ELSE Tail(all)
    <3>1. ready \o all = all
      BY <2>1, <2>2, ConcatEmptySeq
    <3> QED
      BY <1>8, <3>1 DEF Committed, Sends
  <2>4. \A x, y : x \in S \union C /\ y \in Elements(all) => Precedes(k, x, y)
    <3> SUFFICES ASSUME NEW x \in S \union C, NEW y \in Elements(all), x.kind = "event"
                 PROVE  Follows(k, x.env, x.nth, y.env, y.nth)
      BY DEF Precedes
    <3>1. PICK f, m : x = Event(f, m) /\ Exposed(f, m)
      BY BatchElements DEF Exposed, HandedOver
    <3>2. commit.shows /\ y.env = commit.env
      <4>1. Elements(all) \subseteq EventType
        BY <2>2, ElementsType
      <4>2. y = Event(y.env, y.nth)
        BY <4>1 DEF EventType, Event
      <4> QED
        BY <4>2, CommitTyped DEF Typed, DeliveryTypeOK
    <3>3. Follows(Known, f, m, commit.env, y.nth)
      BY <2>1, <3>1, <3>2 DEF Fresh
    <3> QED
      BY <3>1, <3>2, <3>3 DEF k, Event
  <2>5. CASE all = <<>>
    BY <1>2, <1>3, <1>4, <2>1, <2>3, <2>5 DEF Before, Precedes
  <2>6. CASE all # <<>>
    <3>1. out' = Head(all) /\ ready' = Tail(all)
      BY <2>3, <2>6
    <3>2. Elements(all) = {out'} \union R'
      BY <2>2, <2>6, <3>1, ElementsTail
    <3>3. InOrder(k, ready') /\ Before(k, {out'}, R')
      BY <2>2, <2>6, <3>1, InOrderTail
    <3>4. Before(k, S, {out'}) /\ Before(k, S, R') /\ Before(k, C, {out'}) /\ Before(k, C, R')
      <4> HIDE DEF all
      <4> QED
        BY <2>4, <3>2 DEF Before
    <3> QED
      BY <1>2, <2>1, <3>3, <3>4
  <2> QED
    BY <2>5, <2>6
<1>9. CASE Deliver
  <2>1. /\ UNCHANGED <<seen, ready>> /\ SeenEvents' = SeenEvents
        /\ channel' = Append(channel, out) /\ out' = Nothing
    BY <1>9 DEF Deliver, SeenEvents
  <2>2. C' = C \union {out}
    BY <1>4, <2>1, ElementsAppend
  <2>3. InOrder(k, channel')
    BY <1>2, <1>4, <2>1, InOrderAppend
  <2>4. Before(k, S, C') /\ Before(k, C', R)
    BY <1>2, <2>2 DEF Before
  <2>5. Before(k, S, {out'}) /\ Before(k, C', {out'}) /\ Before(k, {out'}, R)
    BY <1>3, <2>1, NoEventAnywhere
  <2> QED
    BY <1>2, <2>1, <2>3, <2>4, <2>5
<1> QED
  BY <1>5, <1>6, <1>7, <1>8, <1>9, BatchSteps

\* The inductive invariant of the order.
OrderInv == /\ Bounds /\ AccountAbreast
            /\ Lean /\ Shown /\ Fresh /\ Queues

LEMMA OrderInvInit ==
    ASSUME DeliveryInit
    PROVE  OrderInv
<1>1. Typed /\ Elements(<<>>) = {}
  BY TypedInit, InOrderEmpty
<1>2. /\ ready = <<>> /\ channel = <<>> /\ seen = <<>> /\ out = Nothing /\ commit = NoCommit
      /\ phase = "off" /\ cursor = disk /\ disk = [NoCursor EXCEPT !.pts = Base]
  BY DEF DeliveryInit
<1>3. disk.pts = Base /\ disk.date = 0 /\ disk.seq = 0
  BY <1>2 DEF NoCursor
<1>4. /\ \A s \in Scopes : Base[s] \in Nat /\ Base[s] <= ServerPts(s)
      /\ ServerDate \in Nat /\ ServerSeq \in Nat
  BY <1>1, WorldTyped, ServerReaches, ServerCommonTyped DEF Typed
<1>5. Bounds
  BY <1>2, <1>3, <1>4 DEF Bounds, Within, ServerCursor
<1>6. AccountAbreast
  <2>1. ASSUME NEW i \in 1..Len(History), Counted(History[i], Account)
        PROVE  ~(Content[History[i]].pts[Account] <= Base[Account])
    <3>1. i \in (issued + 1)..Len(History) /\ Account \in Scopes
      BY DeliveryAssumption DEF DeliveryInit
    <3>2. /\ Content[History[i]].pts[Account] \in Nat
          /\ Base[Account] < Content[History[i]].pts[Account]
      BY <1>1, <2>1, <3>1, IssuedBelow DEF Typed
    <3> QED
      BY <1>4, <3>1, <3>2
  <2> QED
    BY <1>2, <1>3, <2>1 DEF AccountAbreast, Abreast
<1>7. \A e, n : ~Exposed(e, n)
  BY <1>1, <1>2 DEF Exposed, HandedOver, Event, Nothing
<1>8. Lean /\ Shown /\ Fresh
  BY <1>2, <1>7 DEF Lean, Shown, Fresh, NoCommit
<1>9. Queues
  <2>1. SeenEvents = <<>>
    BY <1>2 DEF SeenEvents
  <2> QED
    BY <1>1, <1>2, <2>1, InOrderEmpty DEF Queues, Before
<1> QED
  BY <1>5, <1>6, <1>8, <1>9 DEF OrderInv

LEMMA OrderInvStep ==
    ASSUME DeliveryInv, OrderInv, [DeliveryNext]_deliveryVars
    PROVE  OrderInv'
<1> USE DEF DeliveryInv, OrderInv
<1>1. Bounds' /\ AccountAbreast'
  BY BoundsStep, AbreastStep
<1>2. Lean' /\ Shown' /\ Fresh'
  BY LeanStep, ShownStep, FreshStep
<1>3. Queues'
  BY QueuesStep
<1> QED
  BY <1>1, <1>2, <1>3

\* However updates are reordered, repeated, deferred and lost, and however often
\* the session is reopened: the application sees the counted changes of a scope
\* in Telegram's order, each of their events once.
THEOREM ChangesInOrderOnceAlways == DeliverySpec => []ChangesInOrderOnce
<1>1. DeliveryInit => OrderInv
  BY OrderInvInit
<1>2. DeliveryInv /\ OrderInv /\ [DeliveryNext]_deliveryVars => OrderInv'
  BY OrderInvStep
<1>3. DeliveryInv /\ OrderInv => ChangesInOrderOnce
  <2> SUFFICES ASSUME OrderInv, NEW i \in DOMAIN seen, NEW j \in DOMAIN seen, i < j
               PROVE  Follows(Known, seen[i][1], seen[i][2], seen[j][1], seen[j][2])
    BY DEF ChangesInOrderOnce, Follows, Known
  <2>1. Precedes(Known, SeenEvents[i], SeenEvents[j])
    BY DEF OrderInv, Queues, InOrder, SeenEvents
  <2> QED
    BY <2>1 DEF Precedes, SeenEvents, Event
<1> QED
  BY <1>1, <1>2, <1>3, DeliveryInvHolds, PTL DEF DeliverySpec
===============================================================================
