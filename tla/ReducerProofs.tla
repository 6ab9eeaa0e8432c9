------------------------------ MODULE ReducerProofs ------------------------------
(* The reducer's two models, each for every value of its constants.           *)
(*                                                                            *)
(* OptimisticSends: an accepted message stays stored until its item is        *)
(* resolved (OptimisticKept), what is under way is shown (UnderwayShown), and *)
(* an entry with an identity of Telegram says what Telegram's message says    *)
(* (ServerEntriesTrue).  OptimisticKept alone is not inductive.  A completion *)
(* removes the stored message of one local identity, so the sends under way   *)
(* must go by different ones (LocalsDiffer); a live message, a page and an    *)
(* acknowledgement write under identities of Telegram, so those must be       *)
(* positive and the local ones negative; and the next local identity is one   *)
(* below the least stored one only if a least one exists, which the number of *)
(* sends bounds (SendsTyped).  The other two stand on layers of their own     *)
(* above it: WorldInv, TrueInv and ShownInv.                                  *)
(*                                                                            *)
(* HistoryLoads: what a history was told to hold stays in it (LiveKept), and  *)
(* what the reducer waits for is on the control lane (LoadHasRequest).  A     *)
(* page is compared with the baseline taken when its load began, so the       *)
(* invariant says what an answered page on the lane covers: everything that   *)
(* still exists of the baseline it will be compared with (LaneGood), and that *)
(* the lane holds one load of this connection, the one that is waited for.    *)
(* The reducer's operators are taken at their word: each either asks for a    *)
(* history, when none was waited for, or goes on waiting (Asks).              *)
EXTENDS OptimisticSends, HistoryLoads, SequenceTheorems, FiniteSetTheorems, WellFoundedInduction, TLAPS

Rows == {"none", "dismissed", "completed"} \cup Waiting \cup Held

SendRecord == [text : Bodies, local : Int, row : Rows]

Post == [text : Bodies, send : Nat]

Update == [kind : {"added", "read"}, id : Nat \ {0}]

\* Telegram's side: its messages, and what refers to them.
ServerTyped ==
    /\ server \in Seq(Post)
    /\ wire \subseteq DOMAIN sends
    /\ live \in Seq(Update)
    /\ load = [pc |-> load.pc, baseline |-> load.baseline, page |-> load.page]
    /\ load.page \in Nat

\* The reducer's side: local identities are negative, and no lower than the
\* number of sends.
SendsTyped ==
    /\ sends \in Seq(SendRecord)
    /\ \A s \in DOMAIN sends : sends[s].local < 0 /\ -Len(sends) <= sends[s].local
    /\ nextLocal \in Int /\ nextLocal <= 0 /\ -Len(sends) <= nextLocal
    /\ lane \in Seq(Nat)
    /\ \A i \in DOMAIN lane : lane[i] \in DOMAIN sends

\* A stored message of any identity the process can know.
StoredMessage(id, n) == /\ id \in Int /\ -n <= id
                        /\ disk[id] = Stored(disk[id].text, disk[id].delivery)

DiskTyped == \A id \in DOMAIN disk : StoredMessage(id, Len(sends))

\* As long as no identity was given out twice, sends under way differ in theirs.
LocalsDiffer ==
    ~clashed => \A s, t \in DOMAIN sends :
                    /\ Underway(s) /\ Underway(t) /\ sends[s].local = sends[t].local
                    => s = t

KeptInv == ServerTyped /\ SendsTyped /\ DiskTyped /\ LocalsDiffer /\ OptimisticKept

-----------------------------------------------------------------------------
(* Operators. *)

\* The least of a bounded set of identities is one of them, or 0.
LEMMA LeastLocalBounds ==
    ASSUME NEW ids, NEW n \in Nat, \A id \in ids : id \in Int /\ -n <= id
    PROVE  LeastLocal(ids) \in Int /\ LeastLocal(ids) <= 0 /\ -n <= LeastLocal(ids)
<1> DEFINE local == { id \in ids : id < 0 }
           shifted == { id + n : id \in local }
<1>1. CASE local = {}
  BY <1>1 DEF LeastLocal
<1>2. CASE local # {}
  <2>1. shifted \subseteq Nat /\ shifted # {}
    BY <1>2
  <2>2. PICK x \in shifted : \A y \in shifted : ~(<<y, x>> \in OpToRel(<, Nat))
    BY <2>1, WFMin, NatLessThanWellFounded
  <2>3. PICK least \in local : x = least + n
    OBVIOUS
  <2>4. \A o \in local : least <= o
    <3> SUFFICES ASSUME NEW o \in local PROVE least <= o
      OBVIOUS
    <3>1. o + n \in shifted /\ o + n \in Nat /\ x \in Nat
      BY <2>1
    <3>2. ~(o + n < x)
      BY <2>2, <3>1 DEF OpToRel
    <3> QED
      BY <2>3, <3>1, <3>2
  <2>5. LeastLocal(ids) = CHOOSE id \in local : \A o \in local : id <= o
    BY <1>2 DEF LeastLocal
  <2>6. LeastLocal(ids) \in local
    BY <2>3, <2>4, <2>5
  <2> QED
    BY <2>6
<1> QED
  BY <1>1, <1>2

\* What Telegram gives a message that landed is one of its identities.
LEMMA ServerIdOfLanded ==
    ASSUME ServerTyped, NEW s, Landed(s)
    PROVE  ServerId(s) \in Nat \ {0} /\ ServerId(s) \in DOMAIN server
BY DEF ServerTyped, Landed, ServerId

\* Interrupted sends return to the queue; nothing else of them changes.
LEMMA RecoveredKeeps ==
    ASSUME sends \in Seq(SendRecord)
    PROVE  /\ Recovered \in Seq(SendRecord)
           /\ Len(Recovered) = Len(sends) /\ DOMAIN Recovered = DOMAIN sends
           /\ \A s \in DOMAIN sends :
                 /\ Recovered[s].text = sends[s].text
                 /\ Recovered[s].local = sends[s].local
                 /\ Recovered[s].row \in Waiting \cup Held
                    <=> sends[s].row \in Waiting \cup Held
<1>1. \A s \in DOMAIN sends :
          /\ Recovered[s] \in SendRecord
          /\ Recovered[s].text = sends[s].text
          /\ Recovered[s].local = sends[s].local
          /\ Recovered[s].row \in Waiting \cup Held <=> sends[s].row \in Waiting \cup Held
  <2> SUFFICES ASSUME NEW s \in DOMAIN sends
               PROVE  /\ Recovered[s] \in SendRecord
                      /\ Recovered[s].text = sends[s].text
                      /\ Recovered[s].local = sends[s].local
                      /\ Recovered[s].row \in Waiting \cup Held <=> sends[s].row \in Waiting \cup Held
    OBVIOUS
  <2>1. sends[s] \in SendRecord
    BY LenProperties
  <2>2. CASE sends[s].row = "in_flight"
    <3>1. Recovered[s] = [sends[s] EXCEPT !.row = "ready"]
      BY <2>2 DEF Recovered
    <3> QED
      BY <2>1, <2>2, <3>1 DEF SendRecord, Rows, Waiting, Held
  <2>3. CASE sends[s].row # "in_flight"
    BY <2>1, <2>3 DEF Recovered
  <2> QED
    BY <2>2, <2>3
<1>2. DOMAIN Recovered = 1..Len(sends) /\ Len(sends) \in Nat /\ DOMAIN sends = 1..Len(sends)
  BY LenProperties DEF Recovered
<1>3. Recovered \in [1..Len(sends) -> SendRecord]
  BY <1>1, <1>2 DEF Recovered
<1>4. Recovered \in Seq(SendRecord)
  BY <1>2, <1>3
<1>5. Len(Recovered) = Len(sends)
  BY <1>2, <1>4, LenProperties
<1> QED
  BY <1>1, <1>2, <1>4, <1>5

\* The row of one send changes.
LEMMA RowChanges ==
    ASSUME sends \in Seq(SendRecord), NEW s \in DOMAIN sends, NEW row \in Rows,
           sends' = [sends EXCEPT ![s].row = row]
    PROVE  /\ sends' \in Seq(SendRecord)
           /\ Len(sends') = Len(sends) /\ DOMAIN sends' = DOMAIN sends
           /\ \A t \in DOMAIN sends : /\ sends'[t].text = sends[t].text
                                      /\ sends'[t].local = sends[t].local
                                      /\ sends'[t].row = IF t = s THEN row ELSE sends[t].row
<1>1. Len(sends) \in Nat /\ DOMAIN sends = 1..Len(sends) /\ sends \in [1..Len(sends) -> SendRecord]
  BY LenProperties
<1>2. \A t \in DOMAIN sends :
          /\ sends'[t] \in SendRecord
          /\ sends'[t].text = sends[t].text
          /\ sends'[t].local = sends[t].local
          /\ sends'[t].row = IF t = s THEN row ELSE sends[t].row
  BY <1>1 DEF SendRecord
<1>3. sends' \in [1..Len(sends) -> SendRecord]
  BY <1>1, <1>2
<1>4. sends' \in Seq(SendRecord)
  BY <1>1, <1>3
<1> QED
  BY <1>1, <1>2, <1>3, <1>4, LenProperties

-----------------------------------------------------------------------------
(* Ascending and Picked: every member once, in its order.                    *)

LEMMA LeastNumber ==
    ASSUME NEW T \in SUBSET Nat, T # {}
    PROVE  \E x \in T : \A y \in T : x <= y
<1> DEFINE R == OpToRel(<, Nat)
<1>1. PICK x \in T : \A y \in T : ~ (<<y, x>> \in R)
  BY WFMin, NatLessThanWellFounded
<1>2. ASSUME NEW y \in T PROVE x <= y
  <2>1. ~(y < x)
    BY <1>1 DEF OpToRel
  <2> QED
    BY <2>1
<1> QED
  BY <1>2

LEMMA Greatest ==
    ASSUME NEW T \in SUBSET Int, IsFiniteSet(T), T # {}
    PROVE  \E x \in T : \A y \in T : y <= x
<1> DEFINE Above(x) == { y \in T : y >= x }
           counts == { Cardinality(Above(x)) : x \in T }
<1>1. ASSUME NEW x \in T PROVE IsFiniteSet(Above(x)) /\ Cardinality(Above(x)) \in Nat
  <2>1. Above(x) \in SUBSET T
    OBVIOUS
  <2> QED
    BY <2>1, FS_Subset, FS_CardinalityType
<1>2. counts \in SUBSET Nat /\ counts # {}
  BY <1>1
<1>3. PICK x \in T : \A y \in T : Cardinality(Above(x)) <= Cardinality(Above(y))
  <2>1. PICK c \in counts : \A d \in counts : c <= d
    BY <1>2, LeastNumber
  <2> QED
    BY <2>1
<1>4. ASSUME NEW y \in T, ~(y <= x) PROVE FALSE
  <2>0. x \in Int /\ y \in Int /\ x < y /\ \A v \in T : v \in Int
    BY <1>4
  <2>1. Above(y) \in SUBSET Above(x) /\ x \in Above(x) /\ x \notin Above(y)
    <3>1. \A v \in Int : v >= y => v >= x
      BY <2>0
    <3>2. x >= x /\ ~(x >= y)
      BY <2>0
    <3> QED
      BY <2>0, <3>1, <3>2
  <2>2. Cardinality(Above(y)) <= Cardinality(Above(x)) /\ Cardinality(Above(x)) # Cardinality(Above(y))
    BY <1>1, <2>1, FS_Subset
  <2> QED
    BY <1>1, <1>3, <2>2
<1> QED
  BY <1>3, <1>4

\* How many members stand no later than x.
Rank(S, x) == Cardinality({ y \in S : y <= x })

LEMMA RankTyped ==
    ASSUME NEW S \in SUBSET Int, IsFiniteSet(S), NEW x \in S
    PROVE  Rank(S, x) \in 1..Cardinality(S) /\ Cardinality(S) \in Nat
<1> DEFINE below == { y \in S : y <= x }
<1>1. below \in SUBSET S /\ x \in below
  OBVIOUS
<1>2. IsFiniteSet(below) /\ Cardinality(below) <= Cardinality(S) /\ Cardinality(below) \in Nat
      /\ Cardinality(S) \in Nat
  BY <1>1, FS_Subset, FS_CardinalityType
<1>3. Cardinality(below) # 0
  BY <1>1, <1>2, FS_EmptySet
<1> QED
  BY <1>2, <1>3 DEF Rank

\* The rank grows from member to member.
LEMMA RankGrows ==
    ASSUME NEW S \in SUBSET Int, IsFiniteSet(S), NEW x \in S, NEW z \in S, z < x
    PROVE  Rank(S, z) < Rank(S, x)
<1> DEFINE below(v) == { y \in S : y <= v }
<1>1. below(z) \in SUBSET below(x) /\ x \in below(x) /\ x \notin below(z) /\ below(x) \in SUBSET S
  <2>1. x \in Int /\ z \in Int /\ \A v \in S : v \in Int
    OBVIOUS
  <2>2. \A v \in Int : v <= z => v <= x
    BY <2>1
  <2>3. x <= x /\ ~(x <= z)
    BY <2>1
  <2> QED
    BY <2>1, <2>2, <2>3
<1>2. IsFiniteSet(below(x))
  BY <1>1, FS_Subset
<1>3. Cardinality(below(z)) <= Cardinality(below(x)) /\ Cardinality(below(x)) # Cardinality(below(z))
  BY <1>1, <1>2, FS_Subset
<1>4. Rank(S, z) \in Nat /\ Rank(S, x) \in Nat
  BY RankTyped
<1> QED
  BY <1>3, <1>4 DEF Rank

\* The last of the members before x, if there are any, stands one place before it.
LEMMA RankBefore ==
    ASSUME NEW S \in SUBSET Int, IsFiniteSet(S), NEW x \in S, Rank(S, x) > 1
    PROVE  \E z \in S : z < x /\ Rank(S, z) = Rank(S, x) - 1
<1> DEFINE before == { y \in S : y < x }
<1>1. before \in SUBSET S /\ IsFiniteSet(before) /\ before \in SUBSET Int
  <2>1. before \in SUBSET S
    OBVIOUS
  <2> QED
    BY <2>1, FS_Subset
<1>2. { y \in S : y <= x } = before \cup {x} /\ x \notin before
  <2>1. \A v \in Int : v <= x <=> v < x \/ v = x
    OBVIOUS
  <2>2. ~(x < x) /\ \A v \in S : v \in Int
    OBVIOUS
  <2> QED
    BY <2>1, <2>2
<1>3. Rank(S, x) = Cardinality(before) + 1 /\ Cardinality(before) \in Nat
  BY <1>1, <1>2, FS_AddElement, FS_CardinalityType DEF Rank
<1>4. before # {}
  BY <1>3, FS_EmptySet
<1>5. PICK z \in before : \A y \in before : y <= z
  BY <1>1, <1>4, Greatest
<1>6. { y \in S : y <= z } = before
  <2>1. x \in Int /\ z \in Int /\ z < x /\ \A v \in S : v \in Int
    BY <1>5
  <2>2. ASSUME NEW y \in S, y <= z PROVE y < x
    BY <2>1, <2>2
  <2> QED
    BY <1>5, <2>2
<1>7. Rank(S, z) = Cardinality(before) /\ z \in S /\ z < x
  BY <1>5, <1>6 DEF Rank
<1> HIDE DEF before
<1> QED
  BY <1>3, <1>7

\* Every place is taken.
LEMMA RankTaken ==
    ASSUME NEW S \in SUBSET Int, IsFiniteSet(S), NEW n \in 1..Cardinality(S)
    PROVE  \E x \in S : Rank(S, x) = n
<1> DEFINE late == { x \in S : Rank(S, x) >= n }
           ranks == { Rank(S, x) : x \in late }
<1>1. Cardinality(S) \in Nat /\ \A x \in S : Rank(S, x) \in 1..Cardinality(S)
  BY FS_CardinalityType, RankTyped
<1>2. late # {}
  <2>1. S # {}
    BY <1>1, FS_EmptySet
  <2>2. PICK x \in S : \A y \in S : y <= x
    BY <2>1, Greatest
  <2>3. { y \in S : y <= x } = S
    BY <2>2
  <2>4. Rank(S, x) = Cardinality(S)
    BY <2>3 DEF Rank
  <2> QED
    BY <1>1, <2>2, <2>4
<1>3. ranks \in SUBSET Nat /\ ranks # {}
  <2>1. \A x \in late : Rank(S, x) \in Nat
    BY <1>1
  <2> QED
    BY <1>2, <2>1
<1>4. PICK x \in late : \A y \in late : Rank(S, x) <= Rank(S, y)
  <2>1. PICK r \in ranks : \A q \in ranks : r <= q
    BY <1>3, LeastNumber
  <2> QED
    BY <2>1
<1>5. ASSUME Rank(S, x) # n PROVE FALSE
  <2>1. Rank(S, x) > n /\ Rank(S, x) > 1 /\ Rank(S, x) \in Nat /\ x \in S
    BY <1>1, <1>4, <1>5
  <2>2. PICK z \in S : z < x /\ Rank(S, z) = Rank(S, x) - 1
    BY <2>1, RankBefore
  <2>3. z \in late
    BY <2>1, <2>2
  <2> QED
    BY <1>4, <2>1, <2>2, <2>3
<1> QED
  BY <1>4, <1>5

\* What Ascending lists are the members, each of them once.
LEMMA AscendingLists ==
    ASSUME NEW S \in SUBSET Int, IsFiniteSet(S)
    PROVE  /\ Ascending(S) \in Seq(S)
           /\ DOMAIN Ascending(S) = 1..Cardinality(S) /\ Cardinality(S) \in Nat
           /\ \A x \in S : \E n \in DOMAIN Ascending(S) : Ascending(S)[n] = x
           /\ \A n, m \in DOMAIN Ascending(S) : n < m => Ascending(S)[n] < Ascending(S)[m]
<1>1. Cardinality(S) \in Nat
  BY FS_CardinalityType
<1>2. Ascending(S) = [n \in 1..Cardinality(S) |-> CHOOSE x \in S : Rank(S, x) = n]
  BY DEF Ascending, Rank
<1>3. ASSUME NEW n \in 1..Cardinality(S)
      PROVE  Ascending(S)[n] \in S /\ Rank(S, Ascending(S)[n]) = n
  BY <1>2, RankTaken
<1>4. Ascending(S) \in [1..Cardinality(S) -> S]
  BY <1>2, <1>3
<1>5. Ascending(S) \in Seq(S)
  BY <1>1, <1>4
<1>6. ASSUME NEW x \in S, NEW y \in S, Rank(S, x) <= Rank(S, y), x # y PROVE x < y
  <2>1. Rank(S, x) \in Nat /\ Rank(S, y) \in Nat
    BY RankTyped
  <2>2. ~(y < x)
    BY <1>6, <2>1, RankGrows
  <2> QED
    BY <1>6, <2>2
<1>7. ASSUME NEW x \in S PROVE \E n \in 1..Cardinality(S) : Ascending(S)[n] = x
  <2>1. Rank(S, x) \in 1..Cardinality(S)
    BY RankTyped
  <2> DEFINE y == Ascending(S)[Rank(S, x)]
  <2>2. y \in S /\ Rank(S, y) = Rank(S, x)
    BY <1>3, <2>1
  <2>3. x = y
    <3> HIDE DEF y
    <3>1. Rank(S, x) \in Nat
      BY RankTyped
    <3>2. x # y => x < y /\ y < x
      BY <1>6, <2>2, <3>1
    <3> QED
      BY <2>2, <3>2
  <2> QED
    BY <2>1, <2>3
<1>8. ASSUME NEW n \in 1..Cardinality(S), NEW m \in 1..Cardinality(S), n < m
      PROVE  Ascending(S)[n] < Ascending(S)[m]
  <2>1. /\ Ascending(S)[n] \in S /\ Rank(S, Ascending(S)[n]) = n
        /\ Ascending(S)[m] \in S /\ Rank(S, Ascending(S)[m]) = m
    BY <1>3
  <2>2. n \in Int /\ m \in Int /\ n <= m /\ n # m
    BY <1>1, <1>8
  <2>3. Ascending(S)[n] # Ascending(S)[m]
    BY <2>1, <2>2
  <2> QED
    BY <1>6, <2>1, <2>2, <2>3
<1> QED
  BY <1>1, <1>4, <1>5, <1>7, <1>8

\* What Picked keeps are the entries at the positions.
LEMMA PickedEntries ==
    ASSUME NEW E, NEW h \in Seq(E), NEW K \in SUBSET DOMAIN h
    PROVE  /\ Picked(h, K) \in Seq(E)
           /\ \A n \in DOMAIN Picked(h, K) : \E i \in K : Picked(h, K)[n] = h[i]
           /\ \A i \in K : \E n \in DOMAIN Picked(h, K) : Picked(h, K)[n] = h[i]
<1> DEFINE at == Ascending(K)
<1>1. DOMAIN h = 1..Len(h) /\ Len(h) \in Nat /\ \A i \in DOMAIN h : h[i] \in E
  BY LenProperties, ElementOfSeq
<1>2. K \in SUBSET Int /\ IsFiniteSet(K)
  <2>1. 1 \in Int /\ Len(h) \in Int /\ K \in SUBSET (1..Len(h))
    BY <1>1
  <2>2. IsFiniteSet(1..Len(h))
    BY <2>1, FS_Interval
  <2> QED
    BY <2>1, <2>2, FS_Subset
<1>3. /\ at \in Seq(K) /\ DOMAIN at = 1..Cardinality(K) /\ Cardinality(K) \in Nat
      /\ \A i \in K : \E n \in DOMAIN at : at[n] = i
  BY <1>2, AscendingLists
<1>4. \A n \in DOMAIN at : at[n] \in K
  BY <1>3, LenProperties
<1>5. Picked(h, K) = [n \in DOMAIN at |-> h[at[n]]]
  BY DEF Picked
<1> HIDE DEF at
<1>6. Picked(h, K) \in [1..Cardinality(K) -> E]
  BY <1>1, <1>3, <1>4, <1>5
<1>7. Picked(h, K) \in Seq(E)
  <2>1. Cardinality(K) \in Nat
    BY <1>3
  <2> QED
    BY <1>6, <2>1
<1>8. \A n \in DOMAIN at : Picked(h, K)[n] = h[at[n]]
  BY <1>5
<1>9. DOMAIN Picked(h, K) = DOMAIN at
  BY <1>5
<1> QED
  BY <1>3, <1>4, <1>7, <1>8, <1>9

-----------------------------------------------------------------------------
(* What the operations on a history keep of its entries.                     *)

Deliveries == {"settled"} \cup Unsettled

EntryRecord == [id : Int, text : Bodies, delivery : Deliveries]

Histories == Seq(EntryRecord)

\* The same entries, position by position, but for the delivery.
SameButDelivery(g, h) ==
    /\ g \in Histories /\ DOMAIN g = DOMAIN h
    /\ \A i \in DOMAIN h : g[i].id = h[i].id /\ g[i].text = h[i].text

LEMMA HistoryProperties ==
    ASSUME NEW h \in Histories
    PROVE  /\ Len(h) \in Nat /\ DOMAIN h = 1..Len(h)
           /\ \A i \in DOMAIN h : /\ h[i] \in EntryRecord
                                  /\ h[i].id \in Int /\ h[i].text \in Bodies
                                  /\ h[i].delivery \in Deliveries
<1>1. Len(h) \in Nat /\ DOMAIN h = 1..Len(h) /\ \A i \in DOMAIN h : h[i] \in EntryRecord
  BY LenProperties, ElementOfSeq DEF Histories
<1> QED
  BY <1>1 DEF EntryRecord

\* A history given position by position.
LEMMA HistoryOf ==
    ASSUME NEW h \in Histories, NEW g, DOMAIN g = DOMAIN h, g = [i \in DOMAIN h |-> g[i]],
           \A i \in DOMAIN h : g[i] \in EntryRecord
    PROVE  g \in Histories
<1>1. Len(h) \in Nat /\ DOMAIN h = 1..Len(h)
  BY HistoryProperties
<1>2. g \in [1..Len(h) -> EntryRecord]
  BY <1>1
<1> QED
  BY <1>1, <1>2 DEF Histories

LEMMA DeliveredEntries ==
    ASSUME NEW h \in Histories, NEW id, NEW delivery \in Deliveries
    PROVE  /\ SameButDelivery(Delivered(h, id, delivery), h)
           /\ \A i \in DOMAIN h :
                 \/ Delivered(h, id, delivery)[i] = h[i]
                 \/ h[i].id = id /\ Delivered(h, id, delivery)[i].delivery = delivery
<1> DEFINE g == Delivered(h, id, delivery)
           first == CHOOSE i \in DOMAIN h :
                        h[i].id = id /\ \A j \in DOMAIN h : h[j].id = id => i <= j
<1>1. Len(h) \in Nat /\ DOMAIN h = 1..Len(h) /\ \A i \in DOMAIN h : h[i] \in EntryRecord
  BY HistoryProperties
<1>2. CASE id \notin IdsOf(h)
  BY <1>1, <1>2 DEF Delivered, SameButDelivery
<1>3. CASE id \in IdsOf(h)
  <2> DEFINE T == { i \in DOMAIN h : h[i].id = id }
  <2>1. T \in SUBSET Nat /\ T # {}
    BY <1>1, <1>3 DEF IdsOf
  <2>2. PICK i \in T : \A j \in T : i <= j
    BY <2>1, LeastNumber
  <2>3. first \in DOMAIN h /\ h[first].id = id
    BY <2>2
  <2>4. g = [h EXCEPT ![first].delivery = delivery]
    BY <1>3 DEF Delivered
  <2> HIDE DEF first
  <2>5. h[first] \in EntryRecord
    BY <1>1, <2>3
  <2>6. [h[first] EXCEPT !.delivery = delivery] \in EntryRecord
    BY <2>5 DEF EntryRecord
  <2>7. g[first] = [h[first] EXCEPT !.delivery = delivery]
    BY <2>3, <2>4
  <2>8. \A j \in DOMAIN h : j # first => g[j] = h[j]
    BY <2>4
  <2>9. /\ g[first].id = h[first].id /\ g[first].text = h[first].text
        /\ g[first].delivery = delivery /\ g[first] \in EntryRecord
    BY <2>5, <2>6, <2>7 DEF EntryRecord
  <2>10. DOMAIN g = DOMAIN h /\ g = [j \in DOMAIN h |-> g[j]]
    BY <2>4
  <2> HIDE DEF g
  <2>11. g \in Histories
    BY <1>1, <2>8, <2>9, <2>10, HistoryOf
  <2> QED
    BY <2>3, <2>8, <2>9, <2>10, <2>11 DEF SameButDelivery, g
<1> QED
  BY <1>2, <1>3

LEMMA AcknowledgedEntries ==
    ASSUME NEW h \in Histories, NEW local, NEW id \in Int
    PROVE  /\ Acknowledged(h, local, id) \in Histories
           /\ DOMAIN Acknowledged(h, local, id) = DOMAIN h
           /\ \A i \in DOMAIN h :
                 Acknowledged(h, local, id)[i] = IF h[i].id = local THEN Entry(id, h[i].text, "settled")
                                                 ELSE h[i]
<1> DEFINE g == Acknowledged(h, local, id)
<1>1. DOMAIN g = DOMAIN h /\ g = [i \in DOMAIN h |-> g[i]]
      /\ \A i \in DOMAIN h : g[i] = IF h[i].id = local THEN Entry(id, h[i].text, "settled") ELSE h[i]
  BY DEF Acknowledged
<1>2. \A i \in DOMAIN h : h[i] \in EntryRecord /\ h[i].text \in Bodies
  BY HistoryProperties
<1>3. \A i \in DOMAIN h : Entry(id, h[i].text, "settled") \in EntryRecord
  BY <1>2 DEF Entry, EntryRecord, Deliveries
<1> HIDE DEF g
<1>4. \A i \in DOMAIN h : g[i] \in EntryRecord
  BY <1>1, <1>2, <1>3
<1>5. g \in Histories
  BY <1>1, <1>4, HistoryOf
<1> QED
  BY <1>1, <1>5 DEF g

LEMMA MarkedReadEntries ==
    ASSUME NEW h \in Histories, NEW max \in Int
    PROVE  SameButDelivery(MarkedRead(h, max), h)
<1> DEFINE g == MarkedRead(h, max)
<1>1. DOMAIN g = DOMAIN h /\ g = [i \in DOMAIN h |-> g[i]]
      /\ \A i \in DOMAIN h :
            g[i] = IF h[i].id <= max THEN [h[i] EXCEPT !.delivery = "settled"] ELSE h[i]
  BY DEF MarkedRead
<1>2. \A i \in DOMAIN h : h[i] \in EntryRecord
  BY HistoryProperties
<1> HIDE DEF g
<1>3. ASSUME NEW i \in DOMAIN h
      PROVE  g[i] \in EntryRecord /\ g[i].id = h[i].id /\ g[i].text = h[i].text
  BY <1>1, <1>2 DEF EntryRecord, Deliveries
<1>4. g \in Histories
  BY <1>1, <1>3, HistoryOf
<1> QED
  BY <1>1, <1>3, <1>4 DEF SameButDelivery, g

LEMMA WithOutboxEntries ==
    ASSUME NEW h \in Histories, NEW items
    PROVE  /\ SameButDelivery(WithOutbox(h, items), h)
           /\ \A i \in DOMAIN h, s \in DOMAIN items :
                 items[s].local = h[i].id /\ items[s].row \in Waiting \cup Held
                 => WithOutbox(h, items)[i].delivery \in Unsettled
<1> DEFINE g == WithOutbox(h, items)
           Items(id) == { s \in DOMAIN items :
                              items[s].local = id /\ items[s].row \in Waiting \cup Held }
           Deciding(id) == CHOOSE s \in Items(id) : \A t \in Items(id) : t <= s
           Shown(i) == DeliveryOf(items[Deciding(h[i].id)].row)
<1>1. DOMAIN g = DOMAIN h /\ g = [i \in DOMAIN h |-> g[i]]
      /\ \A i \in DOMAIN h : g[i] = IF Items(h[i].id) = {} THEN h[i]
                                    ELSE [h[i] EXCEPT !.delivery = Shown(i)]
  BY DEF WithOutbox
<1>2. \A i \in DOMAIN h : h[i] \in EntryRecord
  BY HistoryProperties
<1>3. \A i \in DOMAIN h : Shown(i) \in Unsettled
  BY DEF DeliveryOf, Unsettled
<1> HIDE DEF g, Shown, Deciding
<1>4. ASSUME NEW i \in DOMAIN h
      PROVE  /\ g[i] \in EntryRecord /\ g[i].id = h[i].id /\ g[i].text = h[i].text
             /\ Items(h[i].id) # {} => g[i].delivery \in Unsettled
  <2>1. CASE Items(h[i].id) = {}
    BY <1>1, <1>2, <2>1
  <2>2. CASE Items(h[i].id) # {}
    <3>1. g[i] = [h[i] EXCEPT !.delivery = Shown(i)]
      BY <1>1, <2>2
    <3>2. h[i] \in EntryRecord /\ Shown(i) \in Unsettled
      BY <1>2, <1>3
    <3> QED
      BY <3>1, <3>2 DEF EntryRecord, Deliveries
  <2> QED
    BY <2>1, <2>2
<1>5. g \in Histories
  BY <1>1, <1>4, HistoryOf
<1> QED
  BY <1>1, <1>4, <1>5 DEF SameButDelivery, g

\* An added message replaces the copy it has, or the last pending entry that says the
\* same, or comes at the end; every other entry stays.
LEMMA AddedEntries ==
    ASSUME NEW h \in Histories, NEW m \in EntryRecord
    PROVE  /\ Added(h, m) \in Histories
           /\ \A n \in DOMAIN Added(h, m) :
                 Added(h, m)[n] = m \/ \E i \in DOMAIN h : Added(h, m)[n] = h[i]
           /\ \E n \in DOMAIN Added(h, m) : Added(h, m)[n] = m
           /\ \A i \in DOMAIN h : h[i].id = m.id \/ Matches(h[i], m)
                                  \/ \E n \in DOMAIN Added(h, m) : Added(h, m)[n] = h[i]
<1> DEFINE g == Added(h, m)
<1>1. Len(h) \in Nat /\ DOMAIN h = 1..Len(h) /\ \A i \in DOMAIN h : h[i] \in EntryRecord
  BY HistoryProperties
<1>2. CASE m.id \in IdsOf(h)
  <2> DEFINE first == CHOOSE i \in DOMAIN h :
                          h[i].id = m.id /\ \A j \in DOMAIN h : h[j].id = m.id => i <= j
             h1 == [h EXCEPT ![first] = m]
             kept == { i \in DOMAIN h : i = first \/ h[i].id # m.id }
             T == { i \in DOMAIN h : h[i].id = m.id }
  <2>1. T \in SUBSET Nat /\ T # {}
    BY <1>1, <1>2 DEF IdsOf
  <2>2. PICK x \in T : \A y \in T : x <= y
    BY <2>1, LeastNumber
  <2>3. first \in DOMAIN h /\ h[first].id = m.id
    BY <2>2
  <2>4. g = Picked(h1, kept)
    BY <1>2 DEF Added, Upserted
  <2> HIDE DEF first
  <2>5. /\ DOMAIN h1 = DOMAIN h /\ h1 = [i \in DOMAIN h |-> h1[i]]
        /\ h1[first] = m /\ \A i \in DOMAIN h : i # first => h1[i] = h[i]
    BY <2>3
  <2>6. first \in kept /\ kept \in SUBSET DOMAIN h
        /\ \A i \in DOMAIN h : h[i].id # m.id => i \in kept /\ i # first
    BY <2>3
  <2> HIDE DEF h1, kept, g
  <2>7. h1 \in Histories
    BY <1>1, <2>5, HistoryOf
  <2>8. /\ g \in Histories
        /\ \A n \in DOMAIN g : \E i \in kept : g[n] = h1[i]
        /\ \A i \in kept : \E n \in DOMAIN g : g[n] = h1[i]
    BY <2>4, <2>5, <2>6, <2>7, PickedEntries DEF Histories
  <2>9. \A n \in DOMAIN g : g[n] = m \/ \E i \in DOMAIN h : g[n] = h[i]
    BY <2>5, <2>6, <2>8
  <2>10. \E n \in DOMAIN g : g[n] = m
    BY <2>5, <2>6, <2>8
  <2>11. \A i \in DOMAIN h : h[i].id = m.id \/ \E n \in DOMAIN g : g[n] = h[i]
    BY <2>5, <2>6, <2>8
  <2> QED
    BY <2>8, <2>9, <2>10, <2>11 DEF g
<1>3. CASE m.id \notin IdsOf(h)
  <2> DEFINE pending == { i \in DOMAIN h : Matches(h[i], m) }
             last == CHOOSE i \in pending : \A j \in pending : j <= i
  <2>1. CASE pending = {}
    <3>1. g = Append(h, m)
      BY <1>3, <2>1 DEF Added
    <3>2. /\ g \in Histories /\ DOMAIN g = 1..(Len(h) + 1)
          /\ \A i \in 1..Len(h) : g[i] = h[i]
          /\ g[Len(h) + 1] = m
      BY <1>1, <3>1, AppendProperties, LenProperties DEF Histories
    <3>3. \A n \in 1..(Len(h) + 1) : n = Len(h) + 1 \/ n \in 1..Len(h)
      BY <1>1
    <3>4. 1..Len(h) \subseteq 1..(Len(h) + 1) /\ Len(h) + 1 \in 1..(Len(h) + 1)
      BY <1>1
    <3> HIDE DEF g
    <3> QED
      BY <1>1, <3>2, <3>3, <3>4 DEF g
  <2>2. CASE pending # {}
    <3>1. pending \in SUBSET Int /\ IsFiniteSet(pending)
      <4>1. IsFiniteSet(1..Len(h)) /\ pending \in SUBSET (1..Len(h))
        BY <1>1, FS_Interval
      <4> QED
        BY <1>1, <4>1, FS_Subset
    <3>2. PICK x \in pending : \A y \in pending : y <= x
      BY <2>2, <3>1, Greatest
    <3>3. last \in DOMAIN h /\ Matches(h[last], m)
      BY <3>2
    <3>4. g = [h EXCEPT ![last] = m]
      BY <1>3, <2>2 DEF Added
    <3> HIDE DEF last, pending
    <3>5. /\ DOMAIN g = DOMAIN h /\ g = [j \in DOMAIN h |-> g[j]]
          /\ g[last] = m /\ \A j \in DOMAIN h : j # last => g[j] = h[j]
      BY <3>3, <3>4
    <3> HIDE DEF g
    <3>6. g \in Histories
      BY <1>1, <3>5, HistoryOf
    <3> QED
      BY <3>3, <3>5, <3>6 DEF g
  <2> QED
    BY <2>1, <2>2
<1> QED
  BY <1>2, <1>3

\* The stored messages, one entry each.
LEMMA CachedEntries ==
    ASSUME NEW d, DOMAIN d \in SUBSET Int, IsFiniteSet(DOMAIN d),
           \A id \in DOMAIN d : d[id].text \in Bodies /\ d[id].delivery \in Deliveries
    PROVE  /\ Cached(d) \in Histories
           /\ \A n \in DOMAIN Cached(d) : \E id \in DOMAIN d :
                 Cached(d)[n] = Entry(id, d[id].text, d[id].delivery)
           /\ \A id \in DOMAIN d : \E n \in DOMAIN Cached(d) :
                 Cached(d)[n] = Entry(id, d[id].text, d[id].delivery)
<1> DEFINE order == Ascending(DOMAIN d)
           g == Cached(d)
           e(id) == Entry(id, d[id].text, d[id].delivery)
<1>1. /\ order \in Seq(DOMAIN d) /\ DOMAIN order = 1..Cardinality(DOMAIN d)
      /\ Cardinality(DOMAIN d) \in Nat
      /\ \A id \in DOMAIN d : \E n \in DOMAIN order : order[n] = id
  BY AscendingLists
<1>2. \A n \in DOMAIN order : order[n] \in DOMAIN d
  BY <1>1, LenProperties
<1>3. DOMAIN g = DOMAIN order /\ g = [n \in DOMAIN order |-> g[n]]
      /\ \A n \in DOMAIN order : g[n] = e(order[n])
  BY DEF Cached
<1>4. \A id \in DOMAIN d : e(id) \in EntryRecord
  BY DEF Entry, EntryRecord
<1> HIDE DEF g, e, order
<1>5. \A n \in DOMAIN order : g[n] \in EntryRecord
  BY <1>2, <1>3, <1>4
<1>6. Cardinality(DOMAIN d) \in Nat /\ g \in [1..Cardinality(DOMAIN d) -> EntryRecord]
  BY <1>1, <1>3, <1>5
<1>7. g \in Histories
  BY <1>6 DEF Histories
<1> QED
  BY <1>1, <1>2, <1>3, <1>7 DEF g, e

LEMMA PickedHistory ==
    ASSUME NEW h \in Histories, NEW K \in SUBSET DOMAIN h
    PROVE  /\ Picked(h, K) \in Histories
           /\ \A n \in DOMAIN Picked(h, K) : \E i \in K : Picked(h, K)[n] = h[i]
           /\ \A i \in K : \E n \in DOMAIN Picked(h, K) : Picked(h, K)[n] = h[i]
BY PickedEntries DEF Histories

\* A list holds what two lists hold.
HoldsBoth(j, g, h) ==
    /\ \A n \in DOMAIN j : (\E i \in DOMAIN g : j[n] = g[i]) \/ (\E i \in DOMAIN h : j[n] = h[i])
    /\ \A i \in DOMAIN g : \E n \in DOMAIN j : j[n] = g[i]
    /\ \A i \in DOMAIN h : \E n \in DOMAIN j : j[n] = h[i]

\* Two lists after each other hold what either holds.
LEMMA JoinedEntries ==
    ASSUME NEW E, NEW g \in Seq(E), NEW h \in Seq(E)
    PROVE  g \o h \in Seq(E) /\ HoldsBoth(g \o h, g, h)
<1> DEFINE j == g \o h
           b == Len(g)
           l == Len(h)
<1>1. b \in Nat /\ l \in Nat /\ DOMAIN g = 1..b /\ DOMAIN h = 1..l
  BY LenProperties
<1>2. /\ j \in Seq(E) /\ Len(j) = b + l
      /\ \A i \in 1..(b + l) : j[i] = IF i <= b THEN g[i] ELSE h[i - b]
  BY ConcatProperties
<1>3. DOMAIN j = 1..(b + l)
  BY <1>2, LenProperties
<1> HIDE DEF j, b, l
<1>4. ASSUME NEW n \in DOMAIN j
      PROVE  (\E i \in DOMAIN g : j[n] = g[i]) \/ (\E i \in DOMAIN h : j[n] = h[i])
  <2>1. CASE n <= b
    BY <1>1, <1>2, <1>3, <2>1
  <2>2. CASE ~(n <= b)
    <3>1. n - b \in 1..l /\ j[n] = h[n - b]
      BY <1>1, <1>2, <1>3, <2>2
    <3> QED
      BY <1>1, <3>1
  <2> QED
    BY <2>1, <2>2
<1>5. ASSUME NEW i \in DOMAIN g PROVE i \in DOMAIN j /\ j[i] = g[i]
  BY <1>1, <1>2, <1>3
<1>6. ASSUME NEW i \in DOMAIN h PROVE b + i \in DOMAIN j /\ j[b + i] = h[i]
  <2>1. i \in Nat /\ b + i \in 1..(b + l) /\ ~(b + i <= b) /\ (b + i) - b = i
    BY <1>1
  <2>2. j[b + i] = h[(b + i) - b]
    BY <1>2, <2>1
  <2> QED
    BY <1>3, <2>1, <2>2
<1>7. /\ \A i \in DOMAIN g : \E n \in DOMAIN j : j[n] = g[i]
      /\ \A i \in DOMAIN h : \E n \in DOMAIN j : j[n] = h[i]
  BY <1>5, <1>6
<1> QED
  BY <1>2, <1>4, <1>7 DEF HoldsBoth, j

\* A restored history keeps what is not settled, and what it brings but for that.
LEMMA MergedEntries ==
    ASSUME NEW base \in Histories, NEW h \in Histories
    PROVE  /\ Merged(base, h) \in Histories
           /\ \A n \in DOMAIN Merged(base, h) :
                 \/ \E i \in DOMAIN base :
                       /\ Merged(base, h)[n] = base[i]
                       /\ \A j \in DOMAIN h : h[j].id = base[i].id => h[j].delivery \notin Unsettled
                 \/ \E i \in DOMAIN h : Merged(base, h)[n] = h[i] /\ h[i].delivery \in Unsettled
           /\ \A i \in DOMAIN base : \E n \in DOMAIN Merged(base, h) :
                 Merged(base, h)[n].id = base[i].id
           /\ \A i \in DOMAIN h : h[i].delivery \in Unsettled =>
                 \E n \in DOMAIN Merged(base, h) : Merged(base, h)[n].id = h[i].id
<1> DEFINE own == { i \in DOMAIN h : h[i].delivery \in Unsettled }
           last == { i \in own : \A j \in own : h[j].id = h[i].id => j <= i }
           rest == { i \in DOMAIN base : \A j \in own : base[i].id # h[j].id }
           g == Merged(base, h)
<1>1. Len(h) \in Nat /\ DOMAIN h = 1..Len(h)
  BY HistoryProperties
<1>2. g = Picked(base, rest) \o Picked(h, last)
  BY DEF Merged
<1>3. last \in SUBSET DOMAIN h /\ rest \in SUBSET DOMAIN base
  OBVIOUS
<1>4. ASSUME NEW i \in own PROVE \E k \in last : h[k].id = h[i].id
  <2> DEFINE T == { j \in own : h[j].id = h[i].id }
  <2>1. IsFiniteSet(1..Len(h)) /\ T \in SUBSET (1..Len(h))
    BY <1>1, FS_Interval
  <2>2. T \in SUBSET Int /\ IsFiniteSet(T) /\ T # {}
    BY <1>1, <2>1, FS_Subset
  <2>3. PICK k \in T : \A j \in T : j <= k
    BY <2>2, Greatest
  <2>4. k \in last
    BY <2>3
  <2> QED
    BY <2>3, <2>4
<1>5. \A i \in own : i \in DOMAIN h /\ h[i].delivery \in Unsettled
  OBVIOUS
<1>6. \A i \in rest, j \in DOMAIN h : h[j].id = base[i].id => h[j].delivery \notin Unsettled
  OBVIOUS
<1>7. \A i \in DOMAIN base : i \in rest \/ \E j \in own : base[i].id = h[j].id
  OBVIOUS
<1>8. last \subseteq own /\ \A i \in DOMAIN h : h[i].delivery \in Unsettled => i \in own
  OBVIOUS
<1> HIDE DEF own, last, rest, g
<1> DEFINE g1 == Picked(base, rest)
           g2 == Picked(h, last)
<1>9. /\ g1 \in Histories
      /\ \A n \in DOMAIN g1 : \E i \in rest : g1[n] = base[i]
      /\ \A i \in rest : \E n \in DOMAIN g1 : g1[n] = base[i]
  BY <1>3, PickedHistory
<1>10. /\ g2 \in Histories
       /\ \A n \in DOMAIN g2 : \E i \in last : g2[n] = h[i]
       /\ \A i \in last : \E n \in DOMAIN g2 : g2[n] = h[i]
  BY <1>3, PickedHistory
<1> HIDE DEF g1, g2
<1>11. /\ g \in Histories
       /\ \A n \in DOMAIN g : (\E i \in DOMAIN g1 : g[n] = g1[i]) \/ (\E i \in DOMAIN g2 : g[n] = g2[i])
       /\ \A i \in DOMAIN g1 : \E n \in DOMAIN g : g[n] = g1[i]
       /\ \A i \in DOMAIN g2 : \E n \in DOMAIN g : g[n] = g2[i]
  <2>1. g = g1 \o g2
    BY <1>2 DEF g1, g2
  <2>2. g1 \in Histories /\ g2 \in Histories
    BY <1>9, <1>10
  <2>3. g1 \o g2 \in Seq(EntryRecord) /\ HoldsBoth(g1 \o g2, g1, g2)
    BY <2>2, JoinedEntries, Zenon DEF Histories
  <2> QED
    BY <2>1, <2>3, Zenon DEF Histories, HoldsBoth
<1>12. ASSUME NEW n \in DOMAIN g
       PROVE  \/ \E i \in DOMAIN base :
                    /\ g[n] = base[i]
                    /\ \A j \in DOMAIN h : h[j].id = base[i].id => h[j].delivery \notin Unsettled
              \/ \E i \in DOMAIN h : g[n] = h[i] /\ h[i].delivery \in Unsettled
  <2>1. CASE \E i \in rest : g[n] = base[i]
    BY <1>3, <1>6, <2>1
  <2>2. CASE \E i \in last : g[n] = h[i]
    BY <1>5, <1>8, <2>2
  <2> QED
    BY <1>9, <1>10, <1>11, <2>1, <2>2
<1>13. \A i \in own : \E n \in DOMAIN g : g[n].id = h[i].id
  BY <1>4, <1>10, <1>11
<1>14. \A i \in DOMAIN base : \E n \in DOMAIN g : g[n].id = base[i].id
  BY <1>7, <1>9, <1>11, <1>13
<1> QED
  BY <1>8, <1>11, <1>12, <1>13, <1>14 DEF g

-----------------------------------------------------------------------------
(* Pages and what a loaded history makes of the one it refreshes. *)

LEMMA PageEntries ==
    ASSUME server \in Seq(Post), NEW n \in Nat, n <= Len(server)
    PROVE  /\ Page(n) \in Histories /\ DOMAIN Page(n) = 1..n
           /\ \A i \in 1..n : /\ i \in DOMAIN server
                              /\ Page(n)[i] = Entry(i, server[i].text, "settled")
<1>1. Len(server) \in Nat /\ DOMAIN server = 1..Len(server)
      /\ \A i \in DOMAIN server : server[i] \in Post
  BY LenProperties, ElementOfSeq
<1>2. \A i \in 1..n : i \in DOMAIN server /\ server[i].text \in Bodies /\ i \in Int
  BY <1>1 DEF Post
<1>3. \A i \in 1..n : Entry(i, server[i].text, "settled") \in EntryRecord
  BY <1>2 DEF Entry, EntryRecord, Deliveries
<1>4. DOMAIN Page(n) = 1..n /\ \A i \in 1..n : Page(n)[i] = Entry(i, server[i].text, "settled")
  BY DEF Page
<1>5. Page(n) \in [1..n -> EntryRecord]
  BY <1>3 DEF Page
<1>6. Page(n) \in Histories
  BY <1>5 DEF Histories
<1> QED
  BY <1>2, <1>4, <1>6

\* The local identities are turned round; none is lost.
LEMMA ReversedEntries ==
    ASSUME NEW E, NEW g \in Seq(E)
    PROVE  /\ Reverse(g) \in Seq(E)
           /\ \A i \in DOMAIN g : \E n \in DOMAIN Reverse(g) : Reverse(g)[n] = g[i]
<1> DEFINE l == Len(g)
           r == Reverse(g)
<1>1. l \in Nat /\ DOMAIN g = 1..l /\ \A i \in 1..l : g[i] \in E
  BY LenProperties, ElementOfSeq
<1>2. DOMAIN r = 1..l /\ r = [i \in 1..l |-> r[i]] /\ \A i \in 1..l : r[i] = g[(l - i) + 1]
  BY DEF Reverse
<1> HIDE DEF r, l
<1>3. \A i \in 1..l : (l - i) + 1 \in 1..l /\ (l - ((l - i) + 1)) + 1 = i
  BY <1>1
<1>4. \A i \in 1..l : r[i] \in E
  BY <1>1, <1>2, <1>3
<1>5. r \in [1..l -> E]
  BY <1>2, <1>4
<1>6. r \in Seq(E)
  BY <1>1, <1>5
<1>7. \A i \in 1..l : r[(l - i) + 1] = g[i]
  BY <1>2, <1>3
<1> QED
  BY <1>1, <1>2, <1>3, <1>6, <1>7 DEF r

LEMMA MessageOrderLists ==
    ASSUME NEW ids \in SUBSET Int, IsFiniteSet(ids)
    PROVE  /\ MessageOrder(ids) \in Seq(ids)
           /\ \A id \in ids : \E n \in DOMAIN MessageOrder(ids) : MessageOrder(ids)[n] = id
<1> DEFINE up == { id \in ids : id >= 0 }
           down == { id \in ids : id < 0 }
           g == Ascending(up)
           a == Ascending(down)
           r == Reverse(a)
           j == MessageOrder(ids)
<1>1. /\ up \in SUBSET Int /\ down \in SUBSET Int /\ up \in SUBSET ids /\ down \in SUBSET ids
      /\ \A id \in ids : id \in up \/ id \in down
  <2>1. \A id \in Int : id >= 0 \/ id < 0
    OBVIOUS
  <2>2. \A id \in ids : id \in up \/ id \in down
    BY <2>1
  <2>3. up \in SUBSET ids /\ down \in SUBSET ids
    OBVIOUS
  <2>4. up \in SUBSET Int /\ down \in SUBSET Int
    OBVIOUS
  <2> QED
    BY <2>2, <2>3, <2>4
<1>2. j = g \o r
  BY DEF MessageOrder
<1> HIDE DEF up, down, j
<1>3. IsFiniteSet(up) /\ IsFiniteSet(down)
  BY <1>1, FS_Subset
<1>4. g \in Seq(up) /\ \A x \in up : \E n \in DOMAIN g : g[n] = x
  BY <1>1, <1>3, AscendingLists
<1>5. a \in Seq(down) /\ \A x \in down : \E n \in DOMAIN a : a[n] = x
  BY <1>1, <1>3, AscendingLists
<1> HIDE DEF g, a
<1>6. r \in Seq(down) /\ \A i \in DOMAIN a : \E n \in DOMAIN r : r[n] = a[i]
  BY <1>5, ReversedEntries
<1> HIDE DEF r
<1>7. g \in Seq(ids) /\ r \in Seq(ids)
  <2>1. Len(g) \in Nat /\ g \in [1..Len(g) -> up] /\ Len(r) \in Nat /\ r \in [1..Len(r) -> down]
    BY <1>4, <1>6, LenProperties
  <2>2. g \in [1..Len(g) -> ids] /\ r \in [1..Len(r) -> ids]
    BY <1>1, <2>1
  <2> QED
    BY <2>1, <2>2
<1>8. /\ j \in Seq(ids)
      /\ \A i \in DOMAIN g : \E n \in DOMAIN j : j[n] = g[i]
      /\ \A i \in DOMAIN r : \E n \in DOMAIN j : j[n] = r[i]
  <2>1. g \o r \in Seq(ids) /\ HoldsBoth(g \o r, g, r)
    BY <1>7, JoinedEntries, Zenon
  <2> QED
    BY <1>2, <2>1, Zenon DEF HoldsBoth
<1>9. ASSUME NEW id \in ids PROVE \E n \in DOMAIN j : j[n] = id
  <2>1. CASE id \in up
    BY <1>4, <1>8, <2>1
  <2>2. CASE id \in down
    BY <1>5, <1>6, <1>8, <2>2
  <2> QED
    BY <1>1, <2>1, <2>2
<1> QED
  BY <1>8, <1>9 DEF j

\* A refreshed history is the page and entries it retains, and retains them all.
LEMMA RefreshedEntries ==
    ASSUME server \in Seq(Post), NEW h \in Histories, NEW n \in Nat, n <= Len(server), NEW baseline
    PROVE  /\ Refreshed(h, n, baseline) \in Histories
           /\ \A k \in DOMAIN Refreshed(h, n, baseline) :
                 \/ \E i \in 1..n : Refreshed(h, n, baseline)[k] = Entry(i, server[i].text, "settled")
                 \/ \E i \in DOMAIN h : Refreshed(h, n, baseline)[k] = h[i]
           /\ \A i \in 1..n : \E k \in DOMAIN Refreshed(h, n, baseline) :
                 Refreshed(h, n, baseline)[k].id = i
           /\ \A i \in DOMAIN h : h[i].id \notin 1..n /\ Retained(h[i], baseline) =>
                 \E k \in DOMAIN Refreshed(h, n, baseline) :
                     Refreshed(h, n, baseline)[k].id = h[i].id
<1> DEFINE kept == { i \in DOMAIN h : h[i].id \notin 1..n /\ Retained(h[i], baseline) }
           own == { h[i].id : i \in kept }
           ids == 1..n \cup own
           order == MessageOrder(ids)
           First(id) == CHOOSE i \in kept :
                            h[i].id = id /\ \A j \in kept : h[j].id = id => i <= j
           g == Refreshed(h, n, baseline)
           e(k) == IF order[k] \in 1..n THEN Page(n)[order[k]] ELSE h[First(order[k])]
<1>1. /\ Len(h) \in Nat /\ DOMAIN h = 1..Len(h)
      /\ \A i \in DOMAIN h : h[i] \in EntryRecord /\ h[i].id \in Int
  BY HistoryProperties
<1>2. Page(n) \in Histories /\ DOMAIN Page(n) = 1..n
      /\ \A i \in 1..n : Page(n)[i] = Entry(i, server[i].text, "settled")
  BY PageEntries
<1>3. \A i \in 1..n : Page(n)[i] \in EntryRecord /\ Page(n)[i].id = i
  BY <1>2, HistoryProperties DEF Entry
<1>4. DOMAIN g = DOMAIN order /\ g = [k \in DOMAIN order |-> g[k]]
      /\ \A k \in DOMAIN order : g[k] = e(k)
  BY DEF Refreshed
<1>5. kept \in SUBSET DOMAIN h /\ \A i \in DOMAIN h :
          i \in kept <=> h[i].id \notin 1..n /\ Retained(h[i], baseline)
  OBVIOUS
<1>6. ASSUME NEW id \in own PROVE First(id) \in kept /\ h[First(id)].id = id
  <2> DEFINE T == { i \in kept : h[i].id = id }
  <2>1. T \in SUBSET Nat /\ T # {}
    BY <1>1
  <2>2. PICK i \in T : \A j \in T : i <= j
    BY <2>1, LeastNumber
  <2>3. i \in kept /\ h[i].id = id /\ \A j \in kept : h[j].id = id => i <= j
    BY <2>2
  <2> QED
    BY <2>3
<1> HIDE DEF kept, g, First
<1>7. ids \in SUBSET Int /\ IsFiniteSet(ids)
  <2>1. own \in SUBSET Int
    BY <1>1, <1>5
  <2>2. IsFiniteSet(1..Len(h)) /\ IsFiniteSet(1..n)
    BY <1>1, FS_Interval
  <2>3. IsFiniteSet(kept)
    BY <1>1, <1>5, <2>2, FS_Subset
  <2>4. IsFiniteSet(own)
    <3> DEFINE f == [i \in kept |-> h[i].id]
    <3>1. f \in Surjection(kept, own)
      BY DEF Surjection
    <3> QED
      BY <2>3, <3>1, FS_Surjection
  <2>5. IsFiniteSet(ids)
    BY <2>2, <2>4, FS_Union
  <2> QED
    BY <2>1, <2>5
<1>8. \A id \in ids : id \in 1..n \/ id \in own
  OBVIOUS
<1>9. (1..n) \subseteq ids /\ \A i \in kept : h[i].id \in ids
  OBVIOUS
<1> HIDE DEF own, ids
<1>10. order \in Seq(ids) /\ \A id \in ids : \E k \in DOMAIN order : order[k] = id
  BY <1>7, MessageOrderLists
<1> HIDE DEF order
<1>11. /\ Len(order) \in Nat /\ DOMAIN order = 1..Len(order)
       /\ \A k \in DOMAIN order : order[k] \in ids
  BY <1>10, LenProperties, ElementOfSeq
<1>12. ASSUME NEW k \in DOMAIN order
       PROVE  /\ g[k] \in EntryRecord /\ g[k].id = order[k]
              /\ \/ \E i \in 1..n : g[k] = Entry(i, server[i].text, "settled")
                 \/ \E i \in DOMAIN h : g[k] = h[i]
  <2>1. CASE order[k] \in 1..n
    <3>1. g[k] = Page(n)[order[k]]
      BY <1>4, <2>1
    <3> QED
      BY <1>2, <1>3, <2>1, <3>1
  <2>2. CASE order[k] \notin 1..n
    <3>1. g[k] = h[First(order[k])]
      BY <1>4, <2>2
    <3>2. First(order[k]) \in kept /\ h[First(order[k])].id = order[k]
      BY <1>6, <1>8, <1>11, <2>2
    <3>3. First(order[k]) \in DOMAIN h
      BY <1>5, <3>2
    <3> QED
      BY <1>1, <3>1, <3>2, <3>3
  <2> QED
    BY <2>1, <2>2
<1>13. g \in [1..Len(order) -> EntryRecord]
  BY <1>4, <1>11, <1>12
<1>14. g \in Histories
  BY <1>11, <1>13 DEF Histories
<1>15. \A id \in ids : \E k \in DOMAIN g : g[k].id = id
  BY <1>4, <1>10, <1>12
<1> QED
  BY <1>4, <1>5, <1>9, <1>12, <1>14, <1>15 DEF g

-----------------------------------------------------------------------------
(* Steps that leave most of it alone. *)

\* Same sends under the same identities, and none of them newly under way.
LEMMA DifferSame ==
    ASSUME LocalsDiffer, clashed' = clashed, DOMAIN sends' = DOMAIN sends,
           \A s \in DOMAIN sends : sends'[s].local = sends[s].local,
           \A s \in DOMAIN sends : Underway(s)' => Underway(s)
    PROVE  LocalsDiffer'
BY DEF LocalsDiffer

\* Same sends, none newly unresolved, and what is stored for them is kept.
LEMMA KeptSame ==
    ASSUME OptimisticKept, clashed' = clashed, DOMAIN sends' = DOMAIN sends,
           \A s \in DOMAIN sends : /\ sends'[s].text = sends[s].text
                                   /\ sends'[s].local = sends[s].local
                                   /\ Unresolved(s)' => Unresolved(s),
           \A s \in DOMAIN sends :
               ~clashed /\ Unresolved(s)' /\ sends[s].local \in DOMAIN disk =>
                   /\ sends[s].local \in DOMAIN disk'
                   /\ disk'[sends[s].local].text = disk[sends[s].local].text
    PROVE  OptimisticKept'
BY DEF OptimisticKept

\* A step that changes no send, row, lane or stored message.
LEMMA Aside ==
    ASSUME KeptInv, UNCHANGED <<sends, lane, disk, clashed>>, ServerTyped',
           nextLocal' = nextLocal
    PROVE  KeptInv'
<1>1. SendsTyped' /\ DiskTyped'
  BY DEF KeptInv, SendsTyped, DiskTyped, StoredMessage
<1>2. LocalsDiffer' /\ OptimisticKept'
  BY DEF KeptInv, LocalsDiffer, OptimisticKept, Underway, Unresolved
<1> QED
  BY <1>1, <1>2 DEF KeptInv
-----------------------------------------------------------------------------
(* What a step that changes one row has to show. *)

\* The row of one send changes, and the lane loses entries at most.
LEMMA OneRow ==
    ASSUME KeptInv, NEW s \in DOMAIN sends, NEW row \in Rows,
           sends' = [sends EXCEPT ![s].row = row],
           row \in Waiting \cup Held => Underway(s),
           lane' = lane, nextLocal' = nextLocal, clashed' = clashed,
           \A id \in DOMAIN disk' : StoredMessage(id, Len(sends))',
           ServerTyped'
    PROVE  SendsTyped' /\ DiskTyped' /\ LocalsDiffer'
<1>1. /\ sends' \in Seq(SendRecord)
      /\ Len(sends') = Len(sends) /\ DOMAIN sends' = DOMAIN sends
      /\ \A t \in DOMAIN sends : /\ sends'[t].text = sends[t].text
                                 /\ sends'[t].local = sends[t].local
                                 /\ sends'[t].row = IF t = s THEN row ELSE sends[t].row
  BY RowChanges DEF KeptInv, SendsTyped
<1>2. SendsTyped'
  BY <1>1 DEF KeptInv, SendsTyped
<1>3. DiskTyped'
  BY <1>1 DEF DiskTyped
<1>4. \A t \in DOMAIN sends : Underway(t)' => Underway(t)
  BY <1>1 DEF Underway, Unresolved
<1>5. LocalsDiffer'
  BY <1>1, <1>4, DifferSame DEF KeptInv
<1> QED
  BY <1>2, <1>3, <1>5

\* Two sends that are unresolved have different identities.
LEMMA UnresolvedDiffer ==
    ASSUME LocalsDiffer, ~clashed, NEW s \in DOMAIN sends, NEW t \in DOMAIN sends,
           Underway(s), Unresolved(t), s # t
    PROVE  sends[s].local # sends[t].local
BY DEF LocalsDiffer, Underway

LEMMA SendKeeps ==
    ASSUME KeptInv, NEW text \in Bodies, Send(text)
    PROVE  KeptInv'
<1> DEFINE n == Len(sends)
<1> DEFINE new == [text |-> text, local |-> nextLocal - 1, row |-> "none"]
<1>1. n \in Nat /\ DOMAIN sends = 1..n /\ nextLocal \in Int
  BY LenProperties DEF KeptInv, SendsTyped
<1>2. new \in SendRecord
  BY <1>1 DEF SendRecord, Rows
<1>3. sends' = Append(sends, new) /\ nextLocal' = nextLocal - 1
  BY DEF Send
<1>4. /\ sends' \in Seq(SendRecord) /\ Len(sends') = n + 1 /\ DOMAIN sends' = 1..(n + 1)
      /\ \A s \in 1..n : sends'[s] = sends[s]
      /\ sends'[n + 1] = new
  BY <1>2, <1>3, AppendProperties, LenProperties DEF KeptInv, SendsTyped
<1>5. Len(lane) \in Nat /\ DOMAIN lane = 1..Len(lane)
  BY LenProperties DEF KeptInv, SendsTyped
<1>6. lane' = Append(lane, n + 1)
  BY <1>4 DEF Send
<1>7. /\ lane' \in Seq(Nat) /\ DOMAIN lane' = 1..(Len(lane) + 1)
      /\ \A i \in 1..Len(lane) : lane'[i] = lane[i]
      /\ lane'[Len(lane) + 1] = n + 1
  BY <1>1, <1>5, <1>6, AppendProperties, LenProperties DEF KeptInv, SendsTyped
<1>8. SendsTyped'
  <2>1. nextLocal' \in Int /\ nextLocal' < 0 /\ -Len(sends') <= nextLocal'
    BY <1>1, <1>3, <1>4 DEF KeptInv, SendsTyped
  <2>2. ASSUME NEW s \in DOMAIN sends'
        PROVE  sends'[s].local < 0 /\ -Len(sends') <= sends'[s].local
    <3>1. CASE s = n + 1
      BY <1>3, <1>4, <2>1, <3>1
    <3>2. CASE s # n + 1
      <4>1. s \in 1..n /\ sends'[s] = sends[s]
        BY <1>1, <1>4, <3>2
      <4>2. sends[s] \in SendRecord /\ sends[s].local < 0 /\ -n <= sends[s].local
        BY <1>1, <4>1, LenProperties DEF KeptInv, SendsTyped
      <4>3. sends[s].local \in Int
        BY <4>2 DEF SendRecord
      <4> QED
        BY <1>1, <1>4, <4>1, <4>2, <4>3
    <3> QED
      BY <3>1, <3>2
  <2>3. ASSUME NEW i \in DOMAIN lane' PROVE lane'[i] \in DOMAIN sends'
    <3>1. CASE i = Len(lane) + 1
      BY <1>1, <1>4, <1>7, <3>1
    <3>2. CASE i # Len(lane) + 1
      <4>1. i \in 1..Len(lane) /\ lane'[i] = lane[i]
        BY <1>5, <1>7, <3>2
      <4>2. lane[i] \in 1..n
        BY <1>1, <1>5, <4>1 DEF KeptInv, SendsTyped
      <4> QED
        BY <1>1, <1>4, <4>1, <4>2
    <3> QED
      BY <3>1, <3>2
  <2> QED
    BY <1>4, <1>7, <2>1, <2>2, <2>3 DEF SendsTyped
<1>9. UNCHANGED <<disk, server, wire, live, load>>
  BY DEF Send, wireVars
<1>10. ServerTyped'
  <2>1. DOMAIN sends \subseteq DOMAIN sends'
    BY <1>1, <1>4
  <2> QED
    BY <1>9, <2>1 DEF KeptInv, ServerTyped
<1>11. DiskTyped'
  <2> SUFFICES ASSUME NEW id \in DOMAIN disk PROVE StoredMessage(id, Len(sends))'
    BY <1>9 DEF DiskTyped
  <2>1. id \in Int /\ -n <= id /\ disk[id] = Stored(disk[id].text, disk[id].delivery)
    BY DEF KeptInv, DiskTyped, StoredMessage
  <2> QED
    BY <1>1, <1>4, <1>9, <2>1 DEF StoredMessage
<1>12. \A s \in 1..n : (Unresolved(s)' <=> Unresolved(s)) /\ (Underway(s)' => Underway(s))
  <2> SUFFICES ASSUME NEW s \in 1..n
               PROVE  (Unresolved(s)' <=> Unresolved(s)) /\ (Underway(s)' => Underway(s))
    OBVIOUS
  <2>1. Unresolved(s)' <=> Unresolved(s)
    BY <1>4 DEF Unresolved
  <2>2. ASSUME NEW i \in DOMAIN lane', lane'[i] = s PROVE i \in DOMAIN lane /\ lane[i] = s
    <3>1. i # Len(lane) + 1
      BY <1>1, <1>7, <2>2
    <3> QED
      BY <1>5, <1>7, <2>2, <3>1
  <2> QED
    BY <2>1, <2>2 DEF Underway
<1>13. ~clashed' => ~clashed /\ ~InUse(nextLocal')
  BY DEF Send
<1>14. ASSUME ~clashed', NEW t \in 1..n, Underway(t)' PROVE sends[t].local # nextLocal'
  <2>1. t \in DOMAIN sends /\ Underway(t)
    BY <1>1, <1>12, <1>14
  <2> QED
    BY <1>13, <1>14, <2>1 DEF InUse
<1>15. LocalsDiffer'
  <2> SUFFICES ASSUME ~clashed', NEW s \in 1..(n + 1), NEW t \in 1..(n + 1),
                      Underway(s)', Underway(t)', sends'[s].local = sends'[t].local
               PROVE  s = t
    BY <1>4 DEF LocalsDiffer
  <2>1. CASE s \in 1..n /\ t \in 1..n
    BY <1>1, <1>4, <1>12, <1>13, <2>1 DEF KeptInv, LocalsDiffer
  <2>2. CASE s = n + 1 /\ t \in 1..n
    BY <1>3, <1>4, <1>14, <2>2
  <2>3. CASE t = n + 1 /\ s \in 1..n
    BY <1>3, <1>4, <1>14, <2>3
  <2> QED
    BY <1>1, <2>1, <2>2, <2>3
<1>16. OptimisticKept'
  <2> SUFFICES ASSUME ~clashed', NEW s \in 1..(n + 1), Unresolved(s)'
               PROVE  /\ sends'[s].local \in DOMAIN disk
                      /\ disk[sends'[s].local].text = sends'[s].text
    BY <1>4, <1>9 DEF OptimisticKept
  <2>1. s # n + 1
    BY <1>4 DEF Unresolved, Waiting, Held
  <2>2. s \in 1..n
    BY <1>1, <2>1
  <2> QED
    BY <1>1, <1>4, <1>12, <1>13, <2>2 DEF KeptInv, OptimisticKept
<1> QED
  BY <1>8, <1>10, <1>11, <1>15, <1>16 DEF KeptInv

\* The optimistic message is stored with its item.
LEMMA AdmitKeeps ==
    ASSUME KeptInv, Admit
    PROVE  KeptInv'
<1> DEFINE s == Head(lane)
<1>1. /\ Len(lane) \in Nat /\ DOMAIN lane = 1..Len(lane) /\ lane # <<>>
      /\ lane[1] = s /\ 1 \in DOMAIN lane /\ s \in DOMAIN sends
  <2>1. Len(lane) \in Nat /\ DOMAIN lane = 1..Len(lane) /\ lane # <<>>
    BY LenProperties DEF KeptInv, SendsTyped, Admit
  <2>2. Len(lane) > 0
    BY <2>1, EmptySeq DEF KeptInv, SendsTyped
  <2> QED
    BY <2>1, <2>2 DEF KeptInv, SendsTyped
<1>2. /\ sends' = [sends EXCEPT ![s].row = "ready"]
      /\ disk' = Put(disk, sends[s].local, Stored(sends[s].text, "pending"))
      /\ lane' = Tail(lane)
      /\ UNCHANGED <<nextLocal, server, wire, live, load, clashed>>
  BY DEF Admit, AdmitStored, wireVars, ghostVars
<1>3. /\ sends' \in Seq(SendRecord)
      /\ Len(sends') = Len(sends) /\ DOMAIN sends' = DOMAIN sends
      /\ \A t \in DOMAIN sends : /\ sends'[t].text = sends[t].text
                                 /\ sends'[t].local = sends[t].local
                                 /\ sends'[t].row = IF t = s THEN "ready" ELSE sends[t].row
  <2>1. "ready" \in Rows
    BY DEF Rows, Waiting
  <2> QED
    BY <1>1, <1>2, <2>1, RowChanges DEF KeptInv, SendsTyped
<1>4. /\ lane' \in Seq(Nat) /\ DOMAIN lane' \subseteq Nat
      /\ \A i \in DOMAIN lane' : i + 1 \in DOMAIN lane /\ lane'[i] = lane[i + 1]
  <2>1. lane' \in Seq(Nat) /\ Len(lane') = Len(lane) - 1
        /\ \A i \in 1..Len(lane') : lane'[i] = lane[i + 1]
    BY <1>1, <1>2, HeadTailProperties DEF KeptInv, SendsTyped
  <2>2. DOMAIN lane' = 1..Len(lane')
    BY <2>1, LenProperties
  <2> QED
    BY <1>1, <2>1, <2>2
<1>5. SendsTyped'
  BY <1>2, <1>3, <1>4 DEF KeptInv, SendsTyped
<1>6. ServerTyped'
  BY <1>2, <1>3 DEF KeptInv, ServerTyped
<1>7. sends[s].local \in Int /\ -Len(sends) <= sends[s].local
  <2>1. sends[s] \in SendRecord
    BY <1>1, LenProperties DEF KeptInv, SendsTyped
  <2> QED
    BY <1>1, <2>1 DEF KeptInv, SendsTyped, SendRecord
<1>8. DiskTyped'
  BY <1>2, <1>3, <1>7 DEF KeptInv, DiskTyped, StoredMessage, Put, Stored
<1>9. \A t \in DOMAIN sends : Underway(t)' => Underway(t)
  BY <1>1, <1>3, <1>4 DEF Underway, Unresolved
<1>10. LocalsDiffer'
  BY <1>2, <1>3, <1>9, DifferSame DEF KeptInv
<1>11. OptimisticKept'
  <2> SUFFICES ASSUME ~clashed, NEW t \in DOMAIN sends, Unresolved(t)'
               PROVE  /\ sends[t].local \in DOMAIN disk'
                      /\ disk'[sends[t].local].text = sends[t].text
    BY <1>2, <1>3 DEF OptimisticKept
  <2>1. CASE t = s
    BY <1>2, <2>1 DEF Put, Stored
  <2>2. CASE t # s
    <3>1. Unresolved(t) /\ Underway(s)
      BY <1>1, <1>3, <2>2 DEF Unresolved, Underway
    <3>2. sends[t].local # sends[s].local
      BY <1>1, <2>2, <3>1, UnresolvedDiffer DEF KeptInv
    <3> QED
      BY <1>2, <3>1, <3>2 DEF KeptInv, OptimisticKept, Put
  <2> QED
    BY <2>1, <2>2
<1> QED
  BY <1>5, <1>6, <1>8, <1>10, <1>11 DEF KeptInv

\* A row that changes while nothing stored does.
LEMMA RowOnlyKeeps ==
    ASSUME KeptInv, NEW s \in DOMAIN sends, NEW row \in Rows,
           sends' = [sends EXCEPT ![s].row = row],
           Unresolved(s), disk' = disk,
           UNCHANGED <<lane, nextLocal, clashed>>,
           ServerTyped'
    PROVE  KeptInv'
<1>1. /\ Len(sends') = Len(sends) /\ DOMAIN sends' = DOMAIN sends
      /\ \A t \in DOMAIN sends : /\ sends'[t].text = sends[t].text
                                 /\ sends'[t].local = sends[t].local
                                 /\ sends'[t].row = IF t = s THEN row ELSE sends[t].row
  BY RowChanges DEF KeptInv, SendsTyped
<1>2. \A id \in DOMAIN disk' : StoredMessage(id, Len(sends))'
  BY <1>1 DEF KeptInv, DiskTyped, StoredMessage
<1>3. SendsTyped' /\ DiskTyped' /\ LocalsDiffer'
  BY <1>2, OneRow DEF Underway
<1>4. \A t \in DOMAIN sends : Unresolved(t)' => Unresolved(t)
  BY <1>1 DEF Unresolved
<1>5. OptimisticKept'
  BY <1>1, <1>4, KeptSame DEF KeptInv
<1> QED
  BY <1>3, <1>5 DEF KeptInv

\* The optimistic message is replaced together with the removal of its item.
LEMMA CompleteKeeps ==
    ASSUME KeptInv, NEW s \in DOMAIN sends, Complete(s)
    PROVE  KeptInv'
<1> DEFINE done == Put(Drop(disk, {sends[s].local}), ServerId(s), Stored(sends[s].text, "settled"))
<1>1. /\ sends' = [sends EXCEPT ![s].row = "completed"] /\ disk' = done
      /\ UNCHANGED <<lane, nextLocal, server, wire, live, load, clashed>>
      /\ sends[s].row = "in_flight" /\ Landed(s)
  BY DEF Complete, Answered, viewVars, wireVars, ghostVars
<1>2. "completed" \in Rows /\ "completed" \notin Waiting \cup Held
  BY DEF Rows, Waiting, Held
<1>3. /\ Len(sends') = Len(sends) /\ DOMAIN sends' = DOMAIN sends
      /\ \A t \in DOMAIN sends : /\ sends'[t].text = sends[t].text
                                 /\ sends'[t].local = sends[t].local
                                 /\ sends'[t].row = IF t = s THEN "completed" ELSE sends[t].row
  BY <1>1, <1>2, RowChanges DEF KeptInv, SendsTyped
<1>4. Unresolved(s)
  BY <1>1 DEF Unresolved, Waiting
<1>5. ServerId(s) \in Nat \ {0}
  BY <1>1, ServerIdOfLanded DEF KeptInv
<1>6. Len(sends) \in Nat
  BY LenProperties DEF KeptInv, SendsTyped
<1>7. ServerTyped'
  BY <1>1, <1>3 DEF KeptInv, ServerTyped
<1>8. \A id \in DOMAIN disk' : StoredMessage(id, Len(sends))'
  <2> SUFFICES ASSUME NEW id \in DOMAIN done
               PROVE  id \in Int /\ -Len(sends) <= id
                      /\ done[id] = Stored(done[id].text, done[id].delivery)
    BY <1>1, <1>3 DEF StoredMessage
  <2>1. CASE id = ServerId(s)
    BY <1>5, <1>6, <2>1 DEF Put, Stored
  <2>2. CASE id # ServerId(s)
    <3>1. id \in DOMAIN disk /\ done[id] = disk[id]
      BY <2>2 DEF Put, Drop
    <3> QED
      BY <3>1 DEF KeptInv, DiskTyped, StoredMessage
  <2> QED
    BY <2>1, <2>2
<1>9. SendsTyped' /\ DiskTyped' /\ LocalsDiffer'
  BY <1>1, <1>2, <1>7, <1>8, OneRow
<1>10. OptimisticKept'
  <2> HIDE DEF done
  <2> SUFFICES ASSUME ~clashed, NEW t \in DOMAIN sends, Unresolved(t)'
               PROVE  /\ sends[t].local \in DOMAIN done
                      /\ done[sends[t].local].text = sends[t].text
    BY <1>1, <1>3 DEF OptimisticKept
  <2> USE DEF done
  <2>1. t # s /\ Unresolved(t)
    BY <1>2, <1>3 DEF Unresolved
  <2>2. sends[t].local # sends[s].local
    BY <1>4, <2>1, UnresolvedDiffer DEF KeptInv, Underway
  <2>3. sends[t].local < 0 /\ sends[t].local \in Int
    <3>1. sends[t] \in SendRecord
      BY LenProperties DEF KeptInv, SendsTyped
    <3> QED
      BY <3>1 DEF KeptInv, SendsTyped, SendRecord
  <2>4. sends[t].local # ServerId(s)
    BY <1>5, <2>3
  <2>5. /\ sends[t].local \in DOMAIN disk
        /\ disk[sends[t].local].text = sends[t].text
    BY <2>1 DEF KeptInv, OptimisticKept
  <2> QED
    BY <2>2, <2>4, <2>5 DEF Put, Drop
<1> QED
  BY <1>7, <1>9, <1>10 DEF KeptInv

\* Writing what Telegram sent leaves every message with a local identity alone.
LEMMA StoreKeeps ==
    ASSUME KeptInv, UNCHANGED <<sends, lane, nextLocal, clashed>>, ServerTyped',
           \A id \in DOMAIN disk' :
               /\ id \in Int /\ -Len(sends) <= id
               /\ disk'[id] = Stored(disk'[id].text, disk'[id].delivery),
           \A id \in DOMAIN disk : id < 0 =>
               id \in DOMAIN disk' /\ disk'[id].text = disk[id].text
    PROVE  KeptInv'
<1>1. SendsTyped' /\ DiskTyped'
  BY DEF KeptInv, SendsTyped, DiskTyped, StoredMessage
<1>2. LocalsDiffer'
  BY DEF KeptInv, LocalsDiffer, Underway, Unresolved
<1>3. \A s \in DOMAIN sends : sends[s].local < 0
  BY DEF KeptInv, SendsTyped
<1>4. OptimisticKept'
  BY <1>3, KeptSame DEF KeptInv, Unresolved
<1> QED
  BY <1>1, <1>2, <1>4 DEF KeptInv

LEMMA CommitUpdateKeeps ==
    ASSUME KeptInv, CommitUpdate
    PROVE  KeptInv'
<1> DEFINE update == Head(live)
<1>1. /\ live # <<>> /\ live' = Tail(live)
      /\ disk' = IF update.kind = "added"
                 THEN Put(disk, update.id, Stored(server[update.id].text, "settled"))
                 ELSE [i \in DOMAIN disk |->
                           IF i <= update.id THEN [disk[i] EXCEPT !.delivery = "settled"]
                           ELSE disk[i]]
      /\ UNCHANGED <<sends, lane, nextLocal, clashed, server, wire, load>>
  BY DEF CommitUpdate, viewVars, ghostVars
<1>2. update \in Update /\ live' \in Seq(Update)
  BY <1>1, HeadTailProperties DEF KeptInv, ServerTyped
<1>3. update.id \in Nat \ {0}
  BY <1>2 DEF Update
<1>4. ServerTyped'
  BY <1>1, <1>2 DEF KeptInv, ServerTyped
<1>5. Len(sends) \in Nat
  BY LenProperties DEF KeptInv, SendsTyped
<1>6. ASSUME NEW id \in DOMAIN disk
      PROVE  id \in Int /\ -Len(sends) <= id /\ disk[id] = Stored(disk[id].text, disk[id].delivery)
  BY DEF KeptInv, DiskTyped, StoredMessage
<1>7. CASE update.kind = "added"
  <2>1. disk' = Put(disk, update.id, Stored(server[update.id].text, "settled"))
    BY <1>1, <1>7
  <2>2. ASSUME NEW id \in DOMAIN disk'
        PROVE  /\ id \in Int /\ -Len(sends) <= id
               /\ disk'[id] = Stored(disk'[id].text, disk'[id].delivery)
    <3>1. CASE id = update.id
      BY <1>3, <1>5, <2>1, <3>1 DEF Put, Stored
    <3>2. CASE id # update.id
      <4>1. id \in DOMAIN disk /\ disk'[id] = disk[id]
        BY <2>1, <3>2 DEF Put
      <4> QED
        BY <1>6, <4>1
    <3> QED
      BY <3>1, <3>2
  <2>3. ASSUME NEW id \in DOMAIN disk, id < 0
        PROVE  id \in DOMAIN disk' /\ disk'[id].text = disk[id].text
    BY <1>3, <1>6, <2>1, <2>3 DEF Put
  <2> QED
    BY <1>1, <1>4, <2>2, <2>3, StoreKeeps
<1>8. CASE update.kind # "added"
  <2>1. disk' = [i \in DOMAIN disk |->
                     IF i <= update.id THEN [disk[i] EXCEPT !.delivery = "settled"] ELSE disk[i]]
    BY <1>1, <1>8
  <2>2. DOMAIN disk' = DOMAIN disk
    BY <2>1
  <2>3. ASSUME NEW id \in DOMAIN disk
        PROVE  /\ disk'[id].text = disk[id].text
               /\ disk'[id] = Stored(disk'[id].text, disk'[id].delivery)
    <3>1. CASE id <= update.id
      <4>1. disk'[id] = [disk[id] EXCEPT !.delivery = "settled"]
        BY <2>1, <3>1
      <4>2. disk[id] = [text |-> disk[id].text, delivery |-> disk[id].delivery]
        BY <1>6 DEF Stored
      <4>3. disk'[id] = [text |-> disk[id].text, delivery |-> "settled"]
        BY <4>1, <4>2
      <4> QED
        BY <4>3 DEF Stored
    <3>2. CASE ~(id <= update.id)
      BY <1>6, <2>1, <3>2
    <3> QED
      BY <3>1, <3>2
  <2> QED
    BY <1>1, <1>4, <1>6, <2>2, <2>3, StoreKeeps
<1> QED
  BY <1>7, <1>8

\* A page adds and replaces messages under identities of Telegram.
LEMMA PutPageBounds ==
    ASSUME NEW d, NEW n \in Nat, NEW least \in Nat,
           \A id \in DOMAIN d : /\ id \in Int /\ -least <= id
                                /\ d[id] = Stored(d[id].text, d[id].delivery)
    PROVE  /\ \A id \in DOMAIN PutPage(d, n) :
                  /\ id \in Int /\ -least <= id
                  /\ PutPage(d, n)[id] = Stored(PutPage(d, n)[id].text, PutPage(d, n)[id].delivery)
           /\ \A id \in DOMAIN d : id < 0 =>
                  id \in DOMAIN PutPage(d, n) /\ PutPage(d, n)[id] = d[id]
<1>1. ASSUME NEW id \in DOMAIN PutPage(d, n)
      PROVE  /\ id \in Int /\ -least <= id
             /\ PutPage(d, n)[id] = Stored(PutPage(d, n)[id].text, PutPage(d, n)[id].delivery)
  <2>1. CASE id \in 1..n
    <3>1. PutPage(d, n)[id] = Stored(server[id].text, "settled")
      BY <2>1 DEF PutPage
    <3> QED
      BY <2>1, <3>1 DEF Stored
  <2>2. CASE id \notin 1..n
    <3>1. id \in DOMAIN d /\ PutPage(d, n)[id] = d[id]
      BY <2>2 DEF PutPage
    <3> QED
      BY <3>1
  <2> QED
    BY <2>1, <2>2
<1>2. ASSUME NEW id \in DOMAIN d, id < 0
      PROVE  id \in DOMAIN PutPage(d, n) /\ PutPage(d, n)[id] = d[id]
  BY <1>2 DEF PutPage
<1> QED
  BY <1>1, <1>2

LEMMA SaveHistoryKeeps ==
    ASSUME KeptInv, SaveHistory
    PROVE  KeptInv'
<1> DEFINE d == Drop(disk, Stale(disk, load.page))
<1>1. /\ disk' = PutPage(d, load.page) /\ load' = [load EXCEPT !.pc = "saved"]
      /\ UNCHANGED <<sends, lane, nextLocal, clashed, server, wire, live>>
  BY DEF SaveHistory, viewVars, wireVars, ghostVars
<1>2. ServerTyped'
  BY <1>1 DEF KeptInv, ServerTyped
<1>3. load.page \in Nat /\ Len(sends) \in Nat
  BY LenProperties DEF KeptInv, ServerTyped, SendsTyped
<1>4. \A id \in DOMAIN d : id \in DOMAIN disk /\ d[id] = disk[id]
  BY DEF Drop
<1>5. \A id \in DOMAIN d : /\ id \in Int /\ -Len(sends) <= id
                           /\ d[id] = Stored(d[id].text, d[id].delivery)
  BY <1>4 DEF KeptInv, DiskTyped, StoredMessage
<1>6. ASSUME NEW id \in DOMAIN disk, id < 0 PROVE id \in DOMAIN d
  <2>1. id \in Int
    BY DEF KeptInv, DiskTyped, StoredMessage
  <2> QED
    BY <1>6, <2>1 DEF Drop, Stale
<1> HIDE DEF d
<1>7. /\ \A id \in DOMAIN disk' : /\ id \in Int /\ -Len(sends) <= id
                                  /\ disk'[id] = Stored(disk'[id].text, disk'[id].delivery)
      /\ \A id \in DOMAIN d : id < 0 => id \in DOMAIN disk' /\ disk'[id] = d[id]
  BY <1>1, <1>3, <1>5, PutPageBounds
<1>8. \A id \in DOMAIN disk : id < 0 => id \in DOMAIN disk' /\ disk'[id].text = disk[id].text
  BY <1>4, <1>6, <1>7
<1> QED
  BY <1>1, <1>2, <1>7, <1>8, StoreKeeps

\* Every row is recovered, and what is stored only grows.
LEMMA RecoveryKeeps ==
    ASSUME KeptInv, sends' = Recovered, UNCHANGED <<lane, clashed>>,
           disk' = disk \/ disk' = PutPage(disk, Len(server)),
           UNCHANGED <<server, wire, live, load>>,
           nextLocal' \in Int, nextLocal' <= 0, -Len(sends) <= nextLocal'
    PROVE  KeptInv'
<1>1. /\ sends' \in Seq(SendRecord)
      /\ Len(sends') = Len(sends) /\ DOMAIN sends' = DOMAIN sends
      /\ \A s \in DOMAIN sends :
            /\ sends'[s].text = sends[s].text /\ sends'[s].local = sends[s].local
            /\ Unresolved(s)' <=> Unresolved(s)
  BY RecoveredKeeps DEF KeptInv, SendsTyped, Unresolved
<1>2. Len(sends) \in Nat /\ Len(server) \in Nat
  BY LenProperties DEF KeptInv, SendsTyped, ServerTyped
<1>3. ServerTyped'
  BY <1>1 DEF KeptInv, ServerTyped
<1>4. SendsTyped'
  BY <1>1 DEF KeptInv, SendsTyped
<1>5. \A id \in DOMAIN disk : /\ id \in Int /\ -Len(sends) <= id
                              /\ disk[id] = Stored(disk[id].text, disk[id].delivery)
  BY DEF KeptInv, DiskTyped, StoredMessage
<1>6. /\ \A id \in DOMAIN disk' : /\ id \in Int /\ -Len(sends) <= id
                                  /\ disk'[id] = Stored(disk'[id].text, disk'[id].delivery)
      /\ \A id \in DOMAIN disk : id < 0 => id \in DOMAIN disk' /\ disk'[id] = disk[id]
  BY <1>2, <1>5, PutPageBounds
<1>7. DiskTyped'
  BY <1>1, <1>6 DEF DiskTyped, StoredMessage
<1>8. \A s \in DOMAIN sends : Underway(s)' => Underway(s)
  BY <1>1 DEF Underway
<1>9. LocalsDiffer'
  BY <1>1, <1>8, DifferSame DEF KeptInv
<1>10. \A s \in DOMAIN sends : sends[s].local < 0
  BY DEF KeptInv, SendsTyped
<1>11. OptimisticKept'
  BY <1>1, <1>6, <1>10, KeptSame DEF KeptInv
<1> QED
  BY <1>3, <1>4, <1>7, <1>9, <1>11 DEF KeptInv

LEMMA ReconnectKeeps ==
    ASSUME KeptInv, NEW first \in BOOLEAN, Reconnect(first)
    PROVE  KeptInv'
<1> DEFINE ids == IF first THEN 1..Len(server) ELSE DOMAIN disk
<1>1. /\ sends' = Recovered
      /\ disk' = disk \/ disk' = PutPage(disk, Len(server))
      /\ nextLocal' = LeastLocal(ids)
      /\ UNCHANGED <<lane, server, wire, live, load, clashed>>
  BY DEF Reconnect, wireVars, ghostVars
<1>2. Len(sends) \in Nat /\ Len(server) \in Nat
  BY LenProperties DEF KeptInv, SendsTyped, ServerTyped
<1>3. \A id \in ids : id \in Int /\ -Len(sends) <= id
  BY <1>2 DEF KeptInv, DiskTyped, StoredMessage
<1>4. nextLocal' \in Int /\ nextLocal' <= 0 /\ -Len(sends) <= nextLocal'
  BY <1>1, <1>2, <1>3, LeastLocalBounds
<1> QED
  BY <1>1, <1>4, RecoveryKeeps

LEMMA LaunchKeeps ==
    ASSUME KeptInv, Launch
    PROVE  KeptInv'
<1>1. /\ sends' = Recovered /\ disk' = disk
      /\ nextLocal' = LeastLocal(DOMAIN disk)
      /\ UNCHANGED <<lane, server, wire, live, load, clashed>>
  BY DEF Launch, wireVars, ghostVars
<1>2. Len(sends) \in Nat
  BY LenProperties DEF KeptInv, SendsTyped
<1>3. \A id \in DOMAIN disk : id \in Int /\ -Len(sends) <= id
  BY DEF KeptInv, DiskTyped, StoredMessage
<1>4. nextLocal' \in Int /\ nextLocal' <= 0 /\ -Len(sends) <= nextLocal'
  BY <1>1, <1>2, <1>3, LeastLocalBounds
<1> QED
  BY <1>1, <1>4, RecoveryKeeps

\* A process that ends forgets the lane.
LEMMA StopKeeps ==
    ASSUME KeptInv, Stop
    PROVE  KeptInv'
<1>1. /\ UNCHANGED <<sends, disk, server, wire, live, clashed>>
      /\ load' = NoLoad /\ lane' = <<>> /\ nextLocal' = 0
  BY DEF Stop, SessionLost, ghostVars
<1>2. ServerTyped'
  BY <1>1, EmptySeq DEF KeptInv, ServerTyped, NoLoad
<1>3. Len(sends) \in Nat
  BY LenProperties DEF KeptInv, SendsTyped
<1>4. SendsTyped' /\ DiskTyped'
  BY <1>1, <1>3, EmptySeq DEF KeptInv, SendsTyped, DiskTyped, StoredMessage
<1>5. \A s : Unresolved(s)' <=> Unresolved(s)
  BY <1>1 DEF Unresolved
<1>6. \A s : Underway(s)' => Underway(s)
  BY <1>1, <1>5 DEF Underway
<1>7. LocalsDiffer' /\ OptimisticKept'
  BY <1>1, <1>5, <1>6 DEF KeptInv, LocalsDiffer, OptimisticKept
<1> QED
  BY <1>2, <1>4, <1>7 DEF KeptInv

\* What happens at Telegram concerns no send here yet.
LEMMA PostedTyped ==
    ASSUME KeptInv, NEW text \in Bodies, NEW s \in Nat, Posted(text, s),
           wire' \subseteq DOMAIN sends, UNCHANGED <<sends, load>>
    PROVE  ServerTyped'
<1>1. [text |-> text, send |-> s] \in Post
  BY DEF Post
<1>2. server' \in Seq(Post) /\ Len(server') \in Nat \ {0}
  <2>1. server' = Append(server, [text |-> text, send |-> s])
    BY DEF Posted
  <2>2. Len(server') = Len(server) + 1 /\ Len(server) \in Nat /\ server' \in Seq(Post)
    BY <1>1, <2>1, AppendProperties, LenProperties DEF KeptInv, ServerTyped
  <2> QED
    BY <2>2
<1>3. live' \in Seq(Update)
  <2>1. [kind |-> "added", id |-> Len(server')] \in Update
    BY <1>2 DEF Update
  <2> QED
    BY <2>1, AppendProperties DEF KeptInv, ServerTyped, Posted
<1> QED
  BY <1>2, <1>3 DEF KeptInv, ServerTyped

LEMMA LandsKeeps ==
    ASSUME KeptInv, NEW s \in wire, Lands(s)
    PROVE  KeptInv'
<1>1. /\ wire' \subseteq DOMAIN sends /\ UNCHANGED <<sends, lane, disk, nextLocal, clashed, load>>
  BY DEF KeptInv, ServerTyped, Lands, viewVars, ghostVars
<1>2. s \in Nat /\ sends[s].text \in Bodies
  <2>1. s \in DOMAIN sends /\ DOMAIN sends \subseteq Nat /\ sends[s] \in SendRecord
    BY LenProperties DEF KeptInv, ServerTyped, SendsTyped
  <2> QED
    BY <2>1 DEF SendRecord
<1>3. CASE Landed(s)
  <2>1. UNCHANGED <<server, live>>
    BY <1>3 DEF Lands
  <2>2. ServerTyped'
    BY <1>1, <2>1 DEF KeptInv, ServerTyped
  <2> QED
    BY <1>1, <2>2, Aside
<1>4. CASE ~Landed(s)
  <2>1. Posted(sends[s].text, s)
    BY <1>4 DEF Lands
  <2> QED
    BY <1>1, <1>2, <2>1, PostedTyped, Aside
<1> QED
  BY <1>3, <1>4

-----------------------------------------------------------------------------
(* The theorem. *)

LEMMA InitKept == SendsInit => KeptInv
<1> SUFFICES ASSUME SendsInit PROVE KeptInv
  OBVIOUS
<1>1. /\ sends = <<>> /\ nextLocal = 0 /\ lane = <<>> /\ server = <<>> /\ wire = {}
      /\ live = <<>> /\ load = NoLoad /\ disk = <<>>
  BY DEF SendsInit
<1>2. Len(sends) = 0 /\ DOMAIN sends = {} /\ DOMAIN lane = {} /\ DOMAIN disk = {}
  BY <1>1
<1>3. ServerTyped
  BY <1>1, EmptySeq DEF ServerTyped, NoLoad
<1>4. SendsTyped /\ DiskTyped
  BY <1>1, <1>2, EmptySeq DEF SendsTyped, DiskTyped
<1>5. LocalsDiffer /\ OptimisticKept
  BY <1>2 DEF LocalsDiffer, OptimisticKept
<1> QED
  BY <1>3, <1>4, <1>5 DEF KeptInv

LEMMA StepKeeps == KeptInv /\ [SendsNext]_sendsVars => KeptInv'
<1> SUFFICES ASSUME KeptInv, [SendsNext]_sendsVars PROVE KeptInv'
  OBVIOUS
<1>1. ASSUME NEW text \in Bodies, Send(text) PROVE KeptInv'
  BY <1>1, SendKeeps
<1>2. ASSUME NEW text \in Bodies, PostedElsewhere(text) PROVE KeptInv'
  <2>1. /\ UNCHANGED <<sends, lane, disk, nextLocal, clashed, load, wire>> /\ Posted(text, 0)
    BY <1>2 DEF PostedElsewhere, viewVars, ghostVars
  <2>2. wire' \subseteq DOMAIN sends
    BY <2>1 DEF KeptInv, ServerTyped
  <2> QED
    BY <2>1, <2>2, PostedTyped, Aside
<1>3. CASE Admit
  BY <1>3, AdmitKeeps
<1>4. ASSUME NEW s \in DOMAIN sends, Retry(s) PROVE KeptInv'
  <2>1. /\ sends' = [sends EXCEPT ![s].row = "ready"] /\ Unresolved(s) /\ "ready" \in Rows
        /\ UNCHANGED <<disk, lane, nextLocal, clashed, server, wire, live, load>>
    BY <1>4 DEF Retry, Decides, Unresolved, Rows, Waiting, wireVars, ghostVars
  <2>2. ServerTyped'
    BY <2>1 DEF KeptInv, ServerTyped
  <2> QED
    BY <2>1, <2>2, RowOnlyKeeps
<1>5. ASSUME NEW s \in DOMAIN sends, Dismiss(s) PROVE KeptInv'
  <2>1. /\ sends' = [sends EXCEPT ![s].row = "dismissed"] /\ Unresolved(s) /\ "dismissed" \in Rows
        /\ UNCHANGED <<disk, lane, nextLocal, clashed, server, wire, live, load>>
    BY <1>5 DEF Dismiss, Decides, Unresolved, Rows, wireVars, ghostVars
  <2>2. ServerTyped'
    BY <2>1 DEF KeptInv, ServerTyped
  <2> QED
    BY <2>1, <2>2, RowOnlyKeeps
<1>6. ASSUME NEW s \in DOMAIN sends, Claim(s) PROVE KeptInv'
  <2>1. /\ sends' = [sends EXCEPT ![s].row = "in_flight"] /\ Unresolved(s) /\ "in_flight" \in Rows
        /\ wire' = wire \cup {s}
        /\ UNCHANGED <<disk, lane, nextLocal, clashed, server, live, load>>
    BY <1>6 DEF Claim, Unresolved, Rows, Waiting, viewVars, ghostVars
  <2>2. ServerTyped'
    BY <2>1 DEF KeptInv, ServerTyped
  <2> QED
    BY <2>1, <2>2, RowOnlyKeeps
<1>7. ASSUME NEW s \in DOMAIN sends, Complete(s) PROVE KeptInv'
  BY <1>7, CompleteKeeps
<1>8. ASSUME NEW s \in DOMAIN sends, Refuse(s) PROVE KeptInv'
  <2>1. /\ sends' = [sends EXCEPT ![s].row = "failed"] /\ Unresolved(s) /\ "failed" \in Rows
        /\ wire' = wire \ {s}
        /\ UNCHANGED <<disk, lane, nextLocal, clashed, server, live, load>>
    BY <1>8 DEF Refuse, Unresolved, Rows, Waiting, Held, viewVars, ghostVars
  <2>2. ServerTyped'
    BY <2>1 DEF KeptInv, ServerTyped
  <2> QED
    BY <2>1, <2>2, RowOnlyKeeps
<1>9. ASSUME NEW s \in wire, Lands(s) PROVE KeptInv'
  BY <1>9, LandsKeeps
<1>10. CASE CoordinatorReports
  <2>1. UNCHANGED <<sends, lane, disk, nextLocal, clashed, server, wire, live, load>>
    BY <1>10 DEF CoordinatorReports, wireVars, ghostVars
  <2>2. ServerTyped'
    BY <2>1 DEF KeptInv, ServerTyped
  <2> QED
    BY <2>1, <2>2, Aside
<1>11. CASE ReadElsewhere
  <2>1. /\ UNCHANGED <<sends, lane, disk, nextLocal, clashed, server, wire, load>>
        /\ live' = Append(live, [kind |-> "read", id |-> Len(server)]) /\ server # <<>>
    BY <1>11 DEF ReadElsewhere, viewVars, ghostVars
  <2>2. Len(server) \in Nat \ {0}
    BY <2>1, EmptySeq DEF KeptInv, ServerTyped
  <2>3. [kind |-> "read", id |-> Len(server)] \in Update
    BY <2>2 DEF Update
  <2>4. ServerTyped'
    BY <2>1, <2>3, AppendProperties DEF KeptInv, ServerTyped
  <2> QED
    BY <2>1, <2>4, Aside
<1>12. CASE CommitUpdate
  BY <1>12, CommitUpdateKeeps
<1>13. CASE ShowUpdate
  <2>1. UNCHANGED <<sends, lane, disk, nextLocal, clashed, server, wire, live, load>>
    BY <1>13 DEF ShowUpdate
  <2>2. ServerTyped'
    BY <2>1 DEF KeptInv, ServerTyped
  <2> QED
    BY <2>1, <2>2, Aside
<1>14. CASE AskHistory
  <2>1. /\ UNCHANGED <<sends, lane, disk, nextLocal, clashed, server, wire, live>>
        /\ load' = [pc |-> "asked", baseline |-> IdsOf(history), page |-> 0]
    BY <1>14 DEF AskHistory, viewVars, wireVars, ghostVars
  <2>2. ServerTyped'
    BY <2>1 DEF KeptInv, ServerTyped
  <2> QED
    BY <2>1, <2>2, Aside
<1>15. CASE AnswerHistory
  <2>1. /\ UNCHANGED <<sends, lane, disk, nextLocal, clashed, server, wire, live>>
        /\ load' = [load EXCEPT !.pc = "answered", !.page = Len(server)]
    BY <1>15 DEF AnswerHistory, viewVars, wireVars, ghostVars
  <2>2. Len(server) \in Nat
    BY LenProperties DEF KeptInv, ServerTyped
  <2>3. ServerTyped'
    BY <2>1, <2>2 DEF KeptInv, ServerTyped
  <2> QED
    BY <2>1, <2>3, Aside
<1>16. CASE SaveHistory
  BY <1>16, SaveHistoryKeeps
<1>17. CASE ShowHistory
  <2>1. /\ UNCHANGED <<sends, lane, disk, nextLocal, clashed, server, wire, live>>
        /\ load' = NoLoad
    BY <1>17 DEF ShowHistory, wireVars, ghostVars
  <2>2. ServerTyped'
    BY <2>1 DEF KeptInv, ServerTyped, NoLoad
  <2> QED
    BY <2>1, <2>2, Aside
<1>18. CASE Disconnect
  <2>1. /\ UNCHANGED <<sends, lane, disk, nextLocal, clashed, server, wire, live>>
        /\ load' = NoLoad
    BY <1>18 DEF Disconnect, SessionLost, viewVars, ghostVars
  <2>2. ServerTyped'
    BY <2>1, EmptySeq DEF KeptInv, ServerTyped, NoLoad
  <2> QED
    BY <2>1, <2>2, Aside
<1>19. CASE Stop
  BY <1>19, StopKeeps
<1>20. CASE Launch
  BY <1>20, LaunchKeeps
<1>21. ASSUME NEW first \in BOOLEAN, Reconnect(first) PROVE KeptInv'
  BY <1>21, ReconnectKeeps
<1>22. CASE UNCHANGED sendsVars
  <2>1. UNCHANGED <<sends, lane, disk, nextLocal, clashed, server, wire, live, load>>
    BY <1>22 DEF sendsVars, viewVars, wireVars, ghostVars
  <2>2. ServerTyped'
    BY <2>1 DEF KeptInv, ServerTyped
  <2> QED
    BY <2>1, <2>2, Aside
<1> QED
  BY <1>1, <1>2, <1>3, <1>4, <1>5, <1>6, <1>7, <1>8, <1>9, <1>10, <1>11, <1>12, <1>13, <1>14,
     <1>15, <1>16, <1>17, <1>18, <1>19, <1>20, <1>21, <1>22 DEF SendsNext

\* A message the outbox accepted is stored, as what the user wrote, until its
\* item is resolved, whatever loads, updates, acknowledgements, receipts, lost
\* connections and restarts do to the chat (completion.rs, message_write.rs,
\* sync_write.rs): for any number of sends and of such events, as long as no
\* local identity was given out while in use.
THEOREM OptimisticKeptAlways == SendsSpec => []OptimisticKept
<1>1. KeptInv => OptimisticKept
  BY DEF KeptInv
<1> QED
  BY InitKept, StepKeeps, <1>1, PTL DEF SendsSpec

\* Every local identity is negative, and the next one is never below all sends.
THEOREM SendsTypeCorrect == SendsSpec => []SendsTyped
<1>1. KeptInv => SendsTyped
  BY DEF KeptInv
<1> QED
  BY InitKept, StepKeeps, <1>1, PTL DEF SendsSpec
-----------------------------------------------------------------------------
(* What Telegram's side, the reports and the updates say of the sends.       *)

Event == [kind : {"changed", "removed", "acknowledged"}, send : Nat,
          state : {"none"} \cup Waiting \cup Held, id : Nat]

\* What Telegram has of a send is what it says, once.
PostsTrue ==
    \A i \in DOMAIN server : server[i].send # 0 =>
        /\ server[i].send \in DOMAIN sends
        /\ server[i].text = sends[server[i].send].text
        /\ \A j \in DOMAIN server : server[j].send = server[i].send => i = j

\* Telegram knows admitted sends only; the lane holds the others, each once.
SentAdmitted == \A s \in DOMAIN sends : s \in wire \/ Landed(s) => sends[s].row # "none"

LaneFresh == \A i \in DOMAIN lane : /\ sends[lane[i]].row = "none"
                                    /\ \A j \in DOMAIN lane : lane[j] = lane[i] => i = j

\* An acknowledgement names a completed send and Telegram's copy of it.
EventTrue(e) == /\ e.send \in DOMAIN sends
                /\ e.kind = "acknowledged" => /\ sends[e.send].row = "completed"
                                              /\ e.id \in DOMAIN server
                                              /\ server[e.id].send = e.send

ReportsTrue == outputs \in Seq(Event) /\ \A i \in DOMAIN outputs : EventTrue(outputs[i])

\* Updates and pages are of messages Telegram has.
UpdatesTrue == /\ shown \in Seq(Update)
               /\ \A i \in DOMAIN live : live[i].id \in DOMAIN server
               /\ \A i \in DOMAIN shown : shown[i].id \in DOMAIN server
               /\ load.page <= Len(server)

StoredAs(d) == /\ IsFiniteSet(DOMAIN d)
               /\ \A id \in DOMAIN d : d[id].text \in Bodies /\ d[id].delivery \in Deliveries

StoredTyped == StoredAs(disk)

\* A session that is gone left nothing, and neither did a process.
SessionGone == /\ process # "online" =>
                      outputs = <<>> /\ shown = <<>> /\ load = NoLoad
               /\ process = "off" => lane = <<>>

WorldInv == /\ PostsTrue /\ SentAdmitted /\ LaneFresh /\ ReportsTrue /\ UpdatesTrue
            /\ StoredTyped /\ SessionGone

\* What no step takes back.
Carried ==
    /\ \A s \in DOMAIN sends :
          /\ s \in DOMAIN sends'
          /\ sends'[s].text = sends[s].text /\ sends'[s].local = sends[s].local
          /\ sends[s].row # "none" => sends'[s].row # "none"
          /\ sends[s].row = "completed" => sends'[s].row = "completed"
    /\ Len(server) <= Len(server')
    /\ \A i \in DOMAIN server : i \in DOMAIN server' /\ server'[i] = server[i]

\* The types of one send, one post, one report.
LEMMA MembersTyped ==
    ASSUME KeptInv, WorldInv
    PROVE  /\ Len(sends) \in Nat /\ DOMAIN sends = 1..Len(sends)
           /\ \A s \in DOMAIN sends : /\ s \in Nat \ {0}
                                      /\ sends[s] \in SendRecord /\ sends[s].text \in Bodies
                                      /\ sends[s].local \in Int /\ sends[s].local < 0
           /\ Len(server) \in Nat /\ DOMAIN server = 1..Len(server)
           /\ \A i \in DOMAIN server : /\ i \in Nat \ {0}
                                       /\ server[i].text \in Bodies /\ server[i].send \in Nat
           /\ Len(outputs) \in Nat /\ DOMAIN outputs = 1..Len(outputs)
           /\ \A i \in DOMAIN outputs : outputs[i] \in Event
           /\ Len(lane) \in Nat /\ DOMAIN lane = 1..Len(lane)
           /\ \A i \in DOMAIN lane : lane[i] \in DOMAIN sends
<1>1. sends \in Seq(SendRecord) /\ server \in Seq(Post) /\ outputs \in Seq(Event) /\ lane \in Seq(Nat)
  BY DEF KeptInv, WorldInv, SendsTyped, ServerTyped, ReportsTrue
<1>2. Len(sends) \in Nat /\ DOMAIN sends = 1..Len(sends)
      /\ \A s \in DOMAIN sends : sends[s] \in SendRecord
  BY <1>1, LenProperties, ElementOfSeq
<1>3. Len(server) \in Nat /\ DOMAIN server = 1..Len(server)
      /\ \A i \in DOMAIN server : server[i] \in Post
  BY <1>1, LenProperties, ElementOfSeq
<1>4. Len(outputs) \in Nat /\ DOMAIN outputs = 1..Len(outputs)
      /\ \A i \in DOMAIN outputs : outputs[i] \in Event
  BY <1>1, LenProperties, ElementOfSeq
<1>5. Len(lane) \in Nat /\ DOMAIN lane = 1..Len(lane)
      /\ \A i \in DOMAIN lane : lane[i] \in DOMAIN sends
  BY <1>1, LenProperties DEF KeptInv, SendsTyped
<1>6. ASSUME NEW s \in DOMAIN sends
      PROVE  s \in Nat \ {0} /\ sends[s].text \in Bodies /\ sends[s].local \in Int /\ sends[s].local < 0
  BY <1>2 DEF SendRecord, KeptInv, SendsTyped
<1>7. ASSUME NEW i \in DOMAIN server
      PROVE  i \in Nat \ {0} /\ server[i].text \in Bodies /\ server[i].send \in Nat
  BY <1>3 DEF Post
<1> QED
  BY <1>2, <1>3, <1>4, <1>5, <1>6, <1>7

\* The first entry of a list, and what is left of it.
LEMMA HeadAndTail ==
    ASSUME NEW E, NEW q \in Seq(E), q # <<>>
    PROVE  /\ 1 \in DOMAIN q /\ Head(q) = q[1] /\ Head(q) \in E
           /\ Tail(q) \in Seq(E)
           /\ \A i \in DOMAIN Tail(q) : i \in Nat /\ i + 1 \in DOMAIN q /\ Tail(q)[i] = q[i + 1]
<1>1. Len(q) \in Nat /\ DOMAIN q = 1..Len(q)
  BY LenProperties
<1>2. Len(q) > 0
  BY <1>1, EmptySeq
<1>3. /\ Head(q) \in E /\ Tail(q) \in Seq(E) /\ Len(Tail(q)) = Len(q) - 1
      /\ \A i \in 1..Len(Tail(q)) : Tail(q)[i] = q[i + 1]
  BY HeadTailProperties
<1>4. DOMAIN Tail(q) = 1..Len(Tail(q))
  BY <1>3, LenProperties
<1>5. Head(q) = q[1] /\ 1 \in DOMAIN q
  BY <1>1, <1>2
<1>6. \A i \in DOMAIN Tail(q) : i \in Nat /\ i + 1 \in DOMAIN q /\ Tail(q)[i] = q[i + 1]
  BY <1>1, <1>3, <1>4
<1> QED
  BY <1>3, <1>5, <1>6

\* A list with one entry more.
LEMMA OneMore ==
    ASSUME NEW E, NEW q \in Seq(E), NEW e \in E
    PROVE  /\ Append(q, e) \in Seq(E) /\ Len(Append(q, e)) = Len(q) + 1 /\ Len(q) \in Nat
           /\ DOMAIN q = 1..Len(q) /\ DOMAIN Append(q, e) = 1..(Len(q) + 1)
           /\ \A i \in DOMAIN q : i \in DOMAIN Append(q, e) /\ Append(q, e)[i] = q[i]
           /\ Append(q, e)[Len(q) + 1] = e
           /\ \A i \in DOMAIN Append(q, e) : i \in DOMAIN q \/ i = Len(q) + 1
<1>1. Len(q) \in Nat /\ DOMAIN q = 1..Len(q)
  BY LenProperties
<1>2. /\ Append(q, e) \in Seq(E) /\ Len(Append(q, e)) = Len(q) + 1
      /\ \A i \in 1..Len(q) : Append(q, e)[i] = q[i]
      /\ Append(q, e)[Len(q) + 1] = e
  BY AppendProperties
<1>3. DOMAIN Append(q, e) = 1..(Len(q) + 1)
  BY <1>2, LenProperties
<1>4. /\ \A i \in 1..Len(q) : i \in 1..(Len(q) + 1)
      /\ \A i \in 1..(Len(q) + 1) : i \in 1..Len(q) \/ i = Len(q) + 1
  BY <1>1
<1> QED
  BY <1>1, <1>2, <1>3, <1>4

LEMMA RowCarries ==
    ASSUME KeptInv, NEW s \in DOMAIN sends, NEW row \in Rows \ {"none"}, sends[s].row # "completed",
           sends' = [sends EXCEPT ![s].row = row], server' = server
    PROVE  Carried /\ DOMAIN sends' = DOMAIN sends /\ sends'[s].row = row
           /\ \A t \in DOMAIN sends : t # s => sends'[t].row = sends[t].row
<1>1. /\ DOMAIN sends' = DOMAIN sends
      /\ \A t \in DOMAIN sends : /\ sends'[t].text = sends[t].text
                                 /\ sends'[t].local = sends[t].local
                                 /\ sends'[t].row = IF t = s THEN row ELSE sends[t].row
  BY RowChanges DEF KeptInv, SendsTyped
<1>2. Len(server) \in Nat
  BY LenProperties DEF KeptInv, ServerTyped
<1>3. ASSUME NEW t \in DOMAIN sends
      PROVE  /\ sends[t].row # "none" => sends'[t].row # "none"
             /\ sends[t].row = "completed" => sends'[t].row = "completed"
  <2>1. CASE t = s
    BY <1>1, <2>1
  <2>2. CASE t # s
    BY <1>1, <2>2
  <2> QED
    BY <2>1, <2>2
<1>4. Carried
  BY <1>1, <1>2, <1>3 DEF Carried
<1> QED
  BY <1>1, <1>4

LEMMA SameCarries ==
    ASSUME KeptInv, UNCHANGED <<sends, server>>
    PROVE  Carried
<1>1. Len(server) \in Nat
  BY LenProperties DEF KeptInv, ServerTyped
<1> QED
  BY <1>1 DEF Carried

LEMMA RecoveryCarries ==
    ASSUME KeptInv, sends' = Recovered, server' = server
    PROVE  Carried /\ DOMAIN sends' = DOMAIN sends
           /\ \A s \in DOMAIN sends : sends[s].row = "none" => sends'[s].row = "none"
<1>1. /\ DOMAIN sends' = DOMAIN sends
      /\ \A s \in DOMAIN sends : sends'[s].text = sends[s].text /\ sends'[s].local = sends[s].local
  BY RecoveredKeeps DEF KeptInv, SendsTyped
<1>2. ASSUME NEW s \in DOMAIN sends
      PROVE  /\ sends[s].row # "none" <=> sends'[s].row # "none"
             /\ sends[s].row = "completed" => sends'[s].row = "completed"
  <2>1. sends[s] \in SendRecord
    BY LenProperties, ElementOfSeq DEF KeptInv, SendsTyped
  <2>2. CASE sends[s].row = "in_flight"
    <3>1. sends'[s] = [sends[s] EXCEPT !.row = "ready"]
      BY <2>2 DEF Recovered
    <3> QED
      BY <2>1, <2>2, <3>1 DEF SendRecord
  <2>3. CASE sends[s].row # "in_flight"
    BY <2>3 DEF Recovered
  <2> QED
    BY <2>2, <2>3
<1>3. Len(server) \in Nat
  BY LenProperties DEF KeptInv, ServerTyped
<1> QED
  BY <1>1, <1>2, <1>3 DEF Carried

LEMMA SendCarries ==
    ASSUME KeptInv, NEW text \in Bodies, Send(text)
    PROVE  /\ Carried
           /\ DOMAIN sends' = DOMAIN sends \cup {Len(sends) + 1} /\ Len(sends) + 1 \notin DOMAIN sends
           /\ sends'[Len(sends) + 1] = [text |-> text, local |-> nextLocal - 1, row |-> "none"]
           /\ \A s \in DOMAIN sends : sends'[s] = sends[s]
           /\ lane' = Append(lane, Len(sends) + 1) /\ Len(sends) + 1 \in Nat \ {0}
<1> DEFINE new == [text |-> text, local |-> nextLocal - 1, row |-> "none"]
<1>1. sends' = Append(sends, new) /\ server' = server
  BY DEF Send, wireVars
<1>2. new \in SendRecord
  BY DEF SendRecord, Rows, KeptInv, SendsTyped
<1> HIDE DEF new
<1>3. /\ Len(sends') = Len(sends) + 1 /\ Len(sends) \in Nat
      /\ DOMAIN sends = 1..Len(sends) /\ DOMAIN sends' = 1..(Len(sends) + 1)
      /\ \A s \in DOMAIN sends : s \in DOMAIN sends' /\ sends'[s] = sends[s]
      /\ sends'[Len(sends) + 1] = new
      /\ \A s \in DOMAIN sends' : s \in DOMAIN sends \/ s = Len(sends) + 1
  BY <1>1, <1>2, OneMore DEF KeptInv, SendsTyped
<1>4. Len(sends) + 1 \notin DOMAIN sends /\ Len(sends) + 1 \in DOMAIN sends' /\ Len(sends) + 1 \in Nat \ {0}
  BY <1>3
<1>5. Len(server) \in Nat
  BY LenProperties DEF KeptInv, ServerTyped
<1>6. Carried
  BY <1>1, <1>3, <1>5 DEF Carried
<1>7. lane' = Append(lane, Len(sends) + 1)
  BY <1>3 DEF Send
<1> QED
  BY <1>3, <1>4, <1>6, <1>7 DEF new

LEMMA PostCarries ==
    ASSUME KeptInv, NEW text \in Bodies, NEW s \in Nat, Posted(text, s), sends' = sends
    PROVE  /\ Carried /\ Len(server') = Len(server) + 1 /\ Len(server) \in Nat
           /\ DOMAIN server' = DOMAIN server \cup {Len(server')} /\ Len(server') \notin DOMAIN server
           /\ server'[Len(server')] = [text |-> text, send |-> s]
<1> DEFINE new == [text |-> text, send |-> s]
<1>1. server' = Append(server, new)
  BY DEF Posted
<1>2. new \in Post
  BY DEF Post
<1> HIDE DEF new
<1>3. /\ Len(server') = Len(server) + 1 /\ Len(server) \in Nat
      /\ DOMAIN server = 1..Len(server) /\ DOMAIN server' = 1..(Len(server) + 1)
      /\ \A i \in DOMAIN server : i \in DOMAIN server' /\ server'[i] = server[i]
      /\ server'[Len(server) + 1] = new
      /\ \A i \in DOMAIN server' : i \in DOMAIN server \/ i = Len(server) + 1
  BY <1>1, <1>2, OneMore DEF KeptInv, ServerTyped
<1>4. Len(server') \notin DOMAIN server /\ Len(server') \in DOMAIN server'
  BY <1>3
<1> QED
  BY <1>3, <1>4 DEF Carried, new

-----------------------------------------------------------------------------
(* The parts of that invariant, one at a time. *)

LEMMA PostsSame ==
    ASSUME WorldInv, Carried, server' = server
    PROVE  PostsTrue' /\ \A s : (Landed(s)' <=> Landed(s)) /\ ServerId(s)' = ServerId(s)
BY DEF WorldInv, PostsTrue, Carried, Landed, ServerId

LEMMA SentSame ==
    ASSUME WorldInv, Carried, server' = server, DOMAIN sends' = DOMAIN sends,
           \A s \in wire' : s \in wire \/ sends'[s].row # "none"
    PROVE  SentAdmitted'
BY DEF WorldInv, SentAdmitted, Carried, Landed

LEMMA LaneSame ==
    ASSUME WorldInv, KeptInv, lane' = lane \/ lane' = <<>>,
           \A i \in DOMAIN lane : sends'[lane[i]].row = "none"
    PROVE  LaneFresh'
BY DEF WorldInv, LaneFresh

LEMMA ReportsLess ==
    ASSUME WorldInv, Carried,
           outputs' = outputs \/ outputs' = <<>> \/ (outputs # <<>> /\ outputs' = Tail(outputs))
    PROVE  ReportsTrue'
<1>1. \A e : EventTrue(e) => EventTrue(e)'
  BY DEF EventTrue, Carried
<1>2. outputs \in Seq(Event) /\ \A i \in DOMAIN outputs : EventTrue(outputs[i])
  BY DEF WorldInv, ReportsTrue
<1>3. CASE outputs' = outputs
  BY <1>1, <1>2, <1>3 DEF ReportsTrue
<1>4. CASE outputs' = <<>>
  <2>1. outputs' \in Seq(Event) /\ DOMAIN outputs' = {}
    BY <1>4, EmptySeq
  <2> QED
    BY <2>1 DEF ReportsTrue
<1>5. CASE outputs # <<>> /\ outputs' = Tail(outputs)
  <2>1. outputs' \in Seq(Event)
        /\ \A i \in DOMAIN outputs' : i + 1 \in DOMAIN outputs /\ outputs'[i] = outputs[i + 1]
    BY <1>2, <1>5, HeadAndTail
  <2> QED
    BY <1>1, <1>2, <2>1 DEF ReportsTrue
<1> QED
  BY <1>3, <1>4, <1>5

LEMMA ReportsMore ==
    ASSUME WorldInv, Carried, NEW events \in Seq(Event), Report(events),
           \A i \in DOMAIN events : EventTrue(events[i])'
    PROVE  ReportsTrue'
<1>1. \A e : EventTrue(e) => EventTrue(e)'
  BY DEF EventTrue, Carried
<1>2. outputs \in Seq(Event) /\ \A i \in DOMAIN outputs : EventTrue(outputs[i])
  BY DEF WorldInv, ReportsTrue
<1>3. outputs \o events \in Seq(Event) /\ HoldsBoth(outputs \o events, outputs, events)
  BY <1>2, JoinedEntries, Zenon
<1>4. outputs' \in Seq(Event)
      /\ \A n \in DOMAIN outputs' :
            (\E i \in DOMAIN outputs : outputs'[n] = outputs[i])
            \/ (\E i \in DOMAIN events : outputs'[n] = events[i])
  BY <1>3, Zenon DEF Report, HoldsBoth
<1>5. \A n \in DOMAIN outputs' : \E e : outputs'[n] = e /\ EventTrue(e)'
  <2> SUFFICES ASSUME NEW n \in DOMAIN outputs' PROVE \E e : outputs'[n] = e /\ EventTrue(e)'
    OBVIOUS
  <2>1. CASE \E i \in DOMAIN outputs : outputs'[n] = outputs[i]
    BY <1>1, <1>2, <2>1
  <2>2. CASE \E i \in DOMAIN events : outputs'[n] = events[i]
    BY <2>2
  <2> QED
    BY <1>4, <2>1, <2>2
<1> QED
  BY <1>4, <1>5 DEF ReportsTrue

LEMMA UpdatesSame ==
    ASSUME WorldInv, KeptInv, Carried, Len(server') \in Nat,
           UNCHANGED live, UNCHANGED shown \/ shown' = <<>>,
           load'.page \in Nat, load'.page <= Len(server)
    PROVE  UpdatesTrue'
<1>1. shown \in Seq(Update) /\ Len(server) \in Nat
  BY LenProperties DEF WorldInv, UpdatesTrue, KeptInv, ServerTyped
<1>2. load'.page <= Len(server')
  BY <1>1 DEF Carried
<1>3. CASE UNCHANGED shown
  BY <1>1, <1>2, <1>3 DEF WorldInv, UpdatesTrue, Carried
<1>4. CASE shown' = <<>>
  BY <1>1, <1>2, <1>4, EmptySeq DEF WorldInv, UpdatesTrue, Carried
<1> QED
  BY <1>3, <1>4

LEMMA PutStored ==
    ASSUME NEW d, StoredAs(d), NEW id, NEW text \in Bodies, NEW delivery \in Deliveries
    PROVE  StoredAs(Put(d, id, Stored(text, delivery)))
<1> DEFINE p == Put(d, id, Stored(text, delivery))
<1>1. DOMAIN p = DOMAIN d \cup {id}
  BY DEF Put
<1>2. IsFiniteSet(DOMAIN d \cup {id})
  BY FS_AddElement DEF StoredAs
<1>3. \A i \in DOMAIN p : p[i].text \in Bodies /\ p[i].delivery \in Deliveries
  BY DEF Put, Stored, StoredAs
<1> QED
  BY <1>1, <1>2, <1>3 DEF StoredAs

LEMMA DropStored ==
    ASSUME NEW d, StoredAs(d), NEW ids
    PROVE  StoredAs(Drop(d, ids)) /\ DOMAIN Drop(d, ids) \subseteq DOMAIN d
           /\ \A id \in DOMAIN Drop(d, ids) : Drop(d, ids)[id] = d[id]
<1>1. DOMAIN Drop(d, ids) = DOMAIN d \ ids /\ \A id \in DOMAIN d \ ids : Drop(d, ids)[id] = d[id]
  BY DEF Drop
<1>2. IsFiniteSet(DOMAIN d \ ids)
  BY FS_Subset DEF StoredAs
<1> QED
  BY <1>1, <1>2 DEF StoredAs

LEMMA PageStored ==
    ASSUME NEW d, StoredAs(d), server \in Seq(Post), NEW n \in Nat, n <= Len(server)
    PROVE  StoredAs(PutPage(d, n))
<1>1. /\ DOMAIN PutPage(d, n) = DOMAIN d \cup 1..n
      /\ \A id \in 1..n : PutPage(d, n)[id] = Stored(server[id].text, "settled")
      /\ \A id \in DOMAIN d : id \notin 1..n => PutPage(d, n)[id] = d[id]
  BY DEF PutPage
<1>2. IsFiniteSet(DOMAIN d \cup 1..n)
  <2>1. IsFiniteSet(1..n)
    BY FS_Interval
  <2> QED
    BY <2>1, FS_Union DEF StoredAs
<1>3. \A id \in 1..n : id \in DOMAIN server /\ server[id].text \in Bodies
  <2>1. Len(server) \in Nat /\ DOMAIN server = 1..Len(server)
        /\ \A i \in DOMAIN server : server[i] \in Post
    BY LenProperties, ElementOfSeq
  <2> QED
    BY <2>1 DEF Post
<1>4. ASSUME NEW id \in DOMAIN d \cup 1..n
      PROVE  PutPage(d, n)[id].text \in Bodies /\ PutPage(d, n)[id].delivery \in Deliveries
  <2>1. CASE id \in 1..n
    <3>1. PutPage(d, n)[id] = Stored(server[id].text, "settled")
      BY <1>1, <2>1
    <3>2. server[id].text \in Bodies
      BY <1>3, <2>1
    <3> QED
      BY <3>1, <3>2 DEF Stored, Deliveries
  <2>2. CASE id \notin 1..n
    <3>1. id \in DOMAIN d /\ PutPage(d, n)[id] = d[id]
      BY <1>1, <2>2
    <3> QED
      BY <3>1 DEF StoredAs
  <2> QED
    BY <2>1, <2>2
<1> DEFINE p == PutPage(d, n)
           S == DOMAIN d \cup 1..n
<1>5. DOMAIN p = S /\ IsFiniteSet(S) /\ \A id \in S : p[id].text \in Bodies /\ p[id].delivery \in Deliveries
  BY <1>1, <1>2, <1>4
<1> HIDE DEF p, S
<1> QED
  BY <1>5 DEF StoredAs, p

LEMMA InitWorld == SendsInit => WorldInv
<1> SUFFICES ASSUME SendsInit PROVE WorldInv
  OBVIOUS
<1>1. /\ sends = <<>> /\ lane = <<>> /\ outputs = <<>> /\ server = <<>> /\ wire = {}
      /\ live = <<>> /\ shown = <<>> /\ load = NoLoad /\ disk = <<>> /\ process = "online"
  BY DEF SendsInit
<1>2. /\ Len(server) = 0 /\ DOMAIN server = {} /\ DOMAIN sends = {} /\ DOMAIN lane = {}
      /\ DOMAIN outputs = {} /\ DOMAIN live = {} /\ DOMAIN shown = {} /\ DOMAIN disk = {}
  BY <1>1
<1>3. IsFiniteSet(DOMAIN disk)
  BY <1>2, FS_EmptySet
<1>4. PostsTrue /\ SentAdmitted /\ LaneFresh
  BY <1>2 DEF PostsTrue, SentAdmitted, LaneFresh
<1>5. ReportsTrue /\ UpdatesTrue
  BY <1>1, <1>2, EmptySeq DEF ReportsTrue, UpdatesTrue, NoLoad
<1>6. StoredTyped /\ SessionGone
  BY <1>1, <1>2, <1>3 DEF StoredTyped, StoredAs, SessionGone
<1> QED
  BY <1>4, <1>5, <1>6 DEF WorldInv

LEMMA SendWorld ==
    ASSUME KeptInv, WorldInv, KeptInv', NEW text \in Bodies, Send(text)
    PROVE  Carried /\ WorldInv'
<1> DEFINE n == Len(sends) + 1
<1>1. /\ Carried
      /\ DOMAIN sends' = DOMAIN sends \cup {n} /\ n \notin DOMAIN sends
      /\ sends'[n].row = "none"
      /\ \A s \in DOMAIN sends : sends'[s] = sends[s]
      /\ lane' = Append(lane, n) /\ n \in Nat \ {0}
  <2>1. sends'[n] = [text |-> text, local |-> nextLocal - 1, row |-> "none"]
    BY SendCarries
  <2>2. sends'[n].row = "none"
    BY <2>1
  <2> QED
    BY <2>2, SendCarries
<1> HIDE DEF n
<1>2. /\ UNCHANGED <<process, outputs, server, wire, live, shown, load, disk>> /\ process # "off"
  BY DEF Send, wireVars
<1>3. PostsTrue' /\ \A s : Landed(s)' <=> Landed(s)
  BY <1>1, <1>2, PostsSame
<1>4. ~Landed(n) /\ n \notin wire
  <2>1. ASSUME NEW i \in DOMAIN server PROVE server[i].send # n
    BY <1>1 DEF WorldInv, PostsTrue
  <2> QED
    BY <1>1, <2>1 DEF Landed, KeptInv, ServerTyped
<1>5. SentAdmitted'
  BY <1>1, <1>2, <1>3, <1>4 DEF WorldInv, SentAdmitted
<1>6. LaneFresh'
  <2>1. /\ \A i \in DOMAIN lane : i \in DOMAIN lane' /\ lane'[i] = lane[i] /\ lane[i] \in DOMAIN sends
        /\ lane'[Len(lane) + 1] = n
        /\ \A i \in DOMAIN lane' : i \in DOMAIN lane \/ i = Len(lane) + 1
    BY <1>1, OneMore DEF KeptInv, SendsTyped
  <2> QED
    BY <1>1, <2>1 DEF WorldInv, LaneFresh
<1>7. ReportsTrue'
  BY <1>1, <1>2, ReportsLess
<1>8. UpdatesTrue'
  BY <1>2 DEF WorldInv, UpdatesTrue
<1>9. StoredTyped' /\ SessionGone'
  BY <1>2 DEF WorldInv, StoredTyped, SessionGone
<1> QED
  BY <1>1, <1>3, <1>5, <1>6, <1>7, <1>8, <1>9 DEF WorldInv

LEMMA AdmitWorld ==
    ASSUME KeptInv, WorldInv, KeptInv', Admit
    PROVE  /\ Carried /\ WorldInv' /\ DOMAIN sends' = DOMAIN sends
           /\ Head(lane) \in DOMAIN sends /\ Underway(Head(lane))
           /\ \A i \in DOMAIN lane' : i \in Nat /\ i + 1 \in DOMAIN lane /\ lane'[i] = lane[i + 1]
           /\ \A t \in DOMAIN sends : t # Head(lane) => sends'[t].row = sends[t].row
<1> DEFINE s == Head(lane)
<1>1. /\ sends' = [sends EXCEPT ![s].row = "ready"]
      /\ disk' = Put(disk, sends[s].local, Stored(sends[s].text, "pending"))
      /\ lane' = Tail(lane) /\ lane # <<>> /\ process = "online"
      /\ UNCHANGED <<process, outputs, server, wire, live, shown, load>>
  BY DEF Admit, AdmitStored, wireVars
<1>2. /\ 1 \in DOMAIN lane /\ s = lane[1]
      /\ \A i \in DOMAIN lane' : i \in Nat /\ i + 1 \in DOMAIN lane /\ lane'[i] = lane[i + 1]
  BY <1>1, HeadAndTail DEF KeptInv, SendsTyped
<1>3. s \in DOMAIN sends /\ sends[s].row = "none" /\ Underway(s)
  BY <1>2 DEF KeptInv, SendsTyped, WorldInv, LaneFresh, Underway
<1> HIDE DEF s
<1>4. "ready" \in Rows \ {"none"} /\ sends[s].row # "completed"
  BY <1>3 DEF Rows, Waiting
<1>5. Carried /\ DOMAIN sends' = DOMAIN sends /\ sends'[s].row = "ready"
      /\ \A t \in DOMAIN sends : t # s => sends'[t].row = sends[t].row
  BY <1>1, <1>3, <1>4, RowCarries
<1>6. PostsTrue' /\ SentAdmitted'
  BY <1>1, <1>5, PostsSame, SentSame
<1>7. LaneFresh'
  <2> SUFFICES ASSUME NEW i \in DOMAIN lane'
               PROVE  /\ sends'[lane'[i]].row = "none"
                      /\ \A j \in DOMAIN lane' : lane'[j] = lane'[i] => i = j
    BY DEF LaneFresh
  <2>1. i \in Nat /\ i + 1 \in DOMAIN lane /\ lane'[i] = lane[i + 1] /\ i + 1 # 1
    BY <1>2, HeadAndTail DEF KeptInv, SendsTyped
  <2>2. lane[i + 1] # s /\ lane[i + 1] \in DOMAIN sends
    BY <1>2, <2>1 DEF WorldInv, LaneFresh, KeptInv, SendsTyped
  <2>3. ASSUME NEW j \in DOMAIN lane', lane'[j] = lane'[i] PROVE i = j
    <3>1. j \in Nat /\ j + 1 \in DOMAIN lane /\ lane'[j] = lane[j + 1]
      BY <1>2
    <3>2. i + 1 = j + 1
      BY <2>1, <2>3, <3>1 DEF WorldInv, LaneFresh
    <3> QED
      BY <2>1, <3>1, <3>2
  <2> QED
    BY <1>5, <2>1, <2>2, <2>3 DEF WorldInv, LaneFresh
<1>8. ReportsTrue'
  BY <1>1, <1>5, ReportsLess
<1>9. UpdatesTrue'
  BY <1>1 DEF WorldInv, UpdatesTrue
<1>10. StoredTyped'
  <2>1. sends[s].text \in Bodies /\ "pending" \in Deliveries
    BY <1>3, MembersTyped DEF Deliveries, Unsettled
  <2> QED
    BY <1>1, <2>1, PutStored DEF WorldInv, StoredTyped
<1>11. SessionGone'
  BY <1>1 DEF SessionGone
<1> QED
  BY <1>2, <1>3, <1>5, <1>6, <1>7, <1>8, <1>9, <1>10, <1>11 DEF WorldInv, s

\* The row of an unresolved send moves on.
LEMMA RowWorld ==
    ASSUME KeptInv, WorldInv, NEW s \in DOMAIN sends, Unresolved(s),
           NEW row \in Rows \ {"none"}, sends' = [sends EXCEPT ![s].row = row],
           UNCHANGED <<process, server, lane, live, shown, load>>, wire' \subseteq wire \cup {s},
           process = "online"
    PROVE  /\ Carried /\ DOMAIN sends' = DOMAIN sends
           /\ \A t \in DOMAIN sends : t # s => sends'[t].row = sends[t].row
           /\ ReportsTrue' /\ StoredTyped' => WorldInv'
<1>1. sends[s].row # "completed" /\ sends[s].row # "none"
  BY DEF Unresolved, Waiting, Held
<1>2. Carried /\ DOMAIN sends' = DOMAIN sends /\ sends'[s].row = row
      /\ \A t \in DOMAIN sends : t # s => sends'[t].row = sends[t].row
  BY <1>1, RowCarries
<1>3. PostsTrue'
  BY <1>2, PostsSame
<1>4. SentAdmitted'
  BY <1>2, SentSame
<1>5. \A i \in DOMAIN lane : sends'[lane[i]].row = "none"
  BY <1>1, <1>2 DEF WorldInv, LaneFresh, KeptInv, SendsTyped
<1>6. LaneFresh'
  BY <1>5, LaneSame
<1>7. UpdatesTrue'
  BY DEF WorldInv, UpdatesTrue
<1>8. SessionGone'
  BY DEF SessionGone
<1> QED
  BY <1>2, <1>3, <1>4, <1>6, <1>7, <1>8 DEF WorldInv

\* A reported change is an event, and true.
LEMMA ChangeReported ==
    ASSUME KeptInv, WorldInv, Carried, NEW s \in DOMAIN sends, NEW state \in Waiting \cup Held,
           Report(<<Changed(s, state)>>)
    PROVE  ReportsTrue'
<1> DEFINE e == Changed(s, state)
<1>1. s \in Nat
  BY MembersTyped
<1>2. e \in Event /\ e.kind = "changed" /\ e.send = s
  BY <1>1 DEF Changed, Event
<1>3. EventTrue(e)'
  BY <1>2 DEF EventTrue, Carried
<1> HIDE DEF e
<1>4. <<e>> \in Seq(Event) /\ \A i \in DOMAIN <<e>> : <<e>>[i] = e
  BY <1>2
<1>5. \A i \in DOMAIN <<e>> : EventTrue(<<e>>[i])'
  BY <1>3, <1>4
<1> QED
  BY <1>4, <1>5, ReportsMore DEF e

LEMMA DecisionWorld ==
    ASSUME KeptInv, WorldInv, NEW s \in DOMAIN sends, Retry(s) \/ Dismiss(s)
    PROVE  Carried /\ WorldInv' /\ DOMAIN sends' = DOMAIN sends
           /\ \A t \in DOMAIN sends : t # s => sends'[t].row = sends[t].row
<1> DEFINE row == IF Retry(s) THEN "ready" ELSE "dismissed"
<1>1. row \in Rows \ {"none"}
  BY DEF Rows, Waiting
<1>2. /\ sends' = [sends EXCEPT ![s].row = row] /\ Unresolved(s) /\ process = "online"
      /\ UNCHANGED <<process, server, lane, live, shown, load, wire, outputs, disk>>
  BY DEF Retry, Dismiss, Decides, Unresolved, wireVars
<1> HIDE DEF row
<1>3. Carried /\ DOMAIN sends' = DOMAIN sends
      /\ (\A t \in DOMAIN sends : t # s => sends'[t].row = sends[t].row)
      /\ (ReportsTrue' /\ StoredTyped' => WorldInv')
  BY <1>1, <1>2, RowWorld
<1>4. ReportsTrue'
  BY <1>2, <1>3, ReportsLess
<1>5. StoredTyped'
  BY <1>2 DEF WorldInv, StoredTyped
<1> QED
  BY <1>3, <1>4, <1>5

LEMMA AttemptWorld ==
    ASSUME KeptInv, WorldInv, NEW s \in DOMAIN sends, Claim(s) \/ Refuse(s)
    PROVE  Carried /\ WorldInv' /\ DOMAIN sends' = DOMAIN sends /\ Unresolved(s)
           /\ \A t \in DOMAIN sends : t # s => sends'[t].row = sends[t].row
<1> DEFINE row == IF Claim(s) THEN "in_flight" ELSE "failed"
<1>1. row \in Rows \ {"none"} /\ row \in Waiting \cup Held
  BY DEF Rows, Waiting, Held
<1>2. /\ sends' = [sends EXCEPT ![s].row = row] /\ Unresolved(s) /\ process = "online"
      /\ Report(<<Changed(s, row)>>) /\ wire' \subseteq wire \cup {s}
      /\ UNCHANGED <<process, server, lane, live, shown, load, disk>>
  BY DEF Claim, Refuse, Unresolved, Waiting
<1> HIDE DEF row
<1>3. Carried /\ DOMAIN sends' = DOMAIN sends
      /\ (\A t \in DOMAIN sends : t # s => sends'[t].row = sends[t].row)
      /\ (ReportsTrue' /\ StoredTyped' => WorldInv')
  BY <1>1, <1>2, RowWorld
<1>4. ReportsTrue'
  BY <1>1, <1>2, <1>3, ChangeReported
<1>5. StoredTyped'
  BY <1>2 DEF WorldInv, StoredTyped
<1> QED
  BY <1>2, <1>3, <1>4, <1>5

\* So are the reports of a completion.
LEMMA CompletionReported ==
    ASSUME KeptInv, WorldInv, Carried, NEW s \in DOMAIN sends, sends'[s].row = "completed",
           NEW id \in DOMAIN server, server[id].send = s,
           Report(<<[kind |-> "removed", send |-> s, state |-> "none", id |-> 0],
                    [kind |-> "acknowledged", send |-> s, state |-> "none", id |-> id]>>)
    PROVE  ReportsTrue'
<1> DEFINE gone == [kind |-> "removed", send |-> s, state |-> "none", id |-> 0]
           done == [kind |-> "acknowledged", send |-> s, state |-> "none", id |-> id]
<1>1. s \in Nat /\ id \in Nat
  BY MembersTyped
<1>2. /\ gone \in Event /\ gone.kind = "removed" /\ gone.send = s
      /\ done \in Event /\ done.send = s /\ done.id = id
  BY <1>1 DEF Event
<1>3. EventTrue(gone)' /\ EventTrue(done)'
  BY <1>2 DEF EventTrue, Carried
<1> HIDE DEF gone, done
<1>4. <<gone, done>> \in Seq(Event)
      /\ \A i \in DOMAIN <<gone, done>> : <<gone, done>>[i] = gone \/ <<gone, done>>[i] = done
  BY <1>2
<1>5. \A i \in DOMAIN <<gone, done>> : EventTrue(<<gone, done>>[i])'
  BY <1>3, <1>4
<1> QED
  BY <1>4, <1>5, ReportsMore DEF gone, done

LEMMA CompleteWorld ==
    ASSUME KeptInv, WorldInv, NEW s \in DOMAIN sends, Complete(s)
    PROVE  /\ Carried /\ WorldInv' /\ DOMAIN sends' = DOMAIN sends /\ Unresolved(s)
           /\ ServerId(s) \in DOMAIN server /\ server[ServerId(s)].send = s
           /\ \A t \in DOMAIN sends : t # s => sends'[t].row = sends[t].row
<1>1. /\ sends' = [sends EXCEPT ![s].row = "completed"] /\ Unresolved(s) /\ process = "online"
      /\ Report(<<[kind |-> "removed", send |-> s, state |-> "none", id |-> 0],
                  [kind |-> "acknowledged", send |-> s, state |-> "none", id |-> ServerId(s)]>>)
      /\ "completed" \in Rows \ {"none"} /\ Landed(s)
      /\ disk' = Put(Drop(disk, {sends[s].local}), ServerId(s), Stored(sends[s].text, "settled"))
      /\ UNCHANGED <<process, server, wire, lane, live, shown, load>>
  BY DEF Complete, Answered, Unresolved, Waiting, Rows, wireVars
<1>2. Carried /\ DOMAIN sends' = DOMAIN sends
      /\ (\A t \in DOMAIN sends : t # s => sends'[t].row = sends[t].row)
      /\ (ReportsTrue' /\ StoredTyped' => WorldInv')
  BY <1>1, RowWorld
<1>3. ServerId(s) \in DOMAIN server /\ server[ServerId(s)].send = s /\ sends[s].text \in Bodies
  <2>1. ServerId(s) \in DOMAIN server /\ server[ServerId(s)].send = s
    BY <1>1 DEF Landed, ServerId
  <2> QED
    BY <2>1, MembersTyped
<1>4. sends'[s].row = "completed"
  <2>1. sends[s].row # "completed"
    BY <1>1 DEF Unresolved, Waiting, Held
  <2>2. sends' = [sends EXCEPT ![s].row = "completed"] /\ server' = server
        /\ "completed" \in Rows \ {"none"}
    BY <1>1
  <2> QED
    BY <2>1, <2>2, RowCarries
<1>5. ReportsTrue'
  BY <1>1, <1>2, <1>3, <1>4, CompletionReported
<1>6. StoredTyped'
  <2>1. StoredAs(Drop(disk, {sends[s].local}))
    BY DropStored DEF WorldInv, StoredTyped
  <2>2. "settled" \in Deliveries
    BY DEF Deliveries
  <2> QED
    BY <1>1, <1>3, <2>1, <2>2, PutStored DEF StoredTyped
<1> QED
  BY <1>1, <1>2, <1>3, <1>5, <1>6

\* A message more at Telegram.
LEMMA PostWorld ==
    ASSUME KeptInv, WorldInv, KeptInv', NEW text \in Bodies, NEW s \in Nat, Posted(text, s),
           s # 0 => s \in DOMAIN sends /\ text = sends[s].text /\ sends[s].row # "none" /\ ~Landed(s),
           wire' \subseteq wire, UNCHANGED <<process, sends, lane, outputs, shown, load, disk>>
    PROVE  Carried /\ WorldInv'
<1>1. /\ Carried /\ Len(server') = Len(server) + 1 /\ Len(server) \in Nat
      /\ DOMAIN server' = DOMAIN server \cup {Len(server')} /\ Len(server') \notin DOMAIN server
      /\ server'[Len(server')] = [text |-> text, send |-> s]
  BY PostCarries
<1>2. server'[Len(server')].text = text /\ server'[Len(server')].send = s
  BY <1>1
<1>3. \A i \in DOMAIN server : i \in DOMAIN server' /\ server'[i] = server[i]
  BY <1>1 DEF Carried
<1>4. PostsTrue'
  <2> SUFFICES ASSUME NEW i \in DOMAIN server', server'[i].send # 0
               PROVE  /\ server'[i].send \in DOMAIN sends
                      /\ server'[i].text = sends[server'[i].send].text
                      /\ \A j \in DOMAIN server' : server'[j].send = server'[i].send => i = j
    BY DEF PostsTrue
  <2>1. \A j \in DOMAIN server' : j \in DOMAIN server \/ j = Len(server')
    BY <1>1
  <2>2. \A j \in DOMAIN server : s # 0 => server[j].send # s
    BY DEF Landed
  <2> QED
    BY <1>2, <1>3, <2>1, <2>2 DEF WorldInv, PostsTrue
<1>5. SentAdmitted'
  <2> SUFFICES ASSUME NEW t \in DOMAIN sends, t \in wire' \/ Landed(t)' PROVE sends[t].row # "none"
    BY DEF SentAdmitted
  <2>1. CASE t \in wire'
    BY <2>1 DEF WorldInv, SentAdmitted
  <2>2. CASE Landed(t)'
    <3>1. PICK i \in DOMAIN server' : server'[i].send = t
      BY <2>2 DEF Landed
    <3>2. CASE i \in DOMAIN server
      BY <1>3, <3>1, <3>2 DEF WorldInv, SentAdmitted, Landed
    <3>3. CASE i = Len(server')
      <4>1. t # 0
        BY MembersTyped
      <4> QED
        BY <1>2, <3>1, <3>3, <4>1
    <3> QED
      BY <1>1, <3>2, <3>3
  <2> QED
    BY <2>1, <2>2
<1>6. LaneFresh'
  BY DEF WorldInv, LaneFresh
<1>7. ReportsTrue'
  BY <1>1, ReportsLess
<1>8. UpdatesTrue'
  <2>1. \A i \in DOMAIN live' : live'[i].id \in DOMAIN server'
    <3> DEFINE e == [kind |-> "added", id |-> Len(server')]
    <3>1. live' = Append(live, e) /\ e \in Update /\ e.id \in DOMAIN server'
      BY <1>1 DEF Posted, Update
    <3>2. live \in Seq(Update)
      BY DEF KeptInv, ServerTyped
    <3> HIDE DEF e
    <3>3. /\ \A i \in DOMAIN live : live'[i] = live[i]
          /\ live'[Len(live) + 1] = e
          /\ \A i \in DOMAIN live' : i \in DOMAIN live \/ i = Len(live) + 1
      BY <3>1, <3>2, OneMore
    <3> QED
      BY <1>3, <3>1, <3>3 DEF WorldInv, UpdatesTrue
  <2>2. load.page \in Nat /\ load.page <= Len(server)
    BY DEF KeptInv, ServerTyped, WorldInv, UpdatesTrue
  <2>3. load.page <= Len(server')
    BY <1>1, <2>2
  <2> QED
    BY <1>3, <2>1, <2>3 DEF WorldInv, UpdatesTrue
<1>9. StoredTyped' /\ SessionGone'
  BY DEF WorldInv, StoredTyped, SessionGone, Posted
<1> QED
  BY <1>1, <1>4, <1>5, <1>6, <1>7, <1>8, <1>9 DEF WorldInv

LEMMA LandsWorld ==
    ASSUME KeptInv, WorldInv, KeptInv', NEW s \in wire, Lands(s)
    PROVE  Carried /\ WorldInv'
<1>1. /\ wire' \subseteq wire
      /\ UNCHANGED <<process, sends, lane, outputs, shown, load, disk>>
  BY DEF Lands, viewVars
<1>2. s \in DOMAIN sends /\ sends[s].row # "none" /\ s \in Nat /\ sends[s].text \in Bodies
  BY MembersTyped DEF KeptInv, ServerTyped, WorldInv, SentAdmitted
<1>3. CASE Landed(s)
  <2>1. server' = server /\ live' = live
    BY <1>3 DEF Lands
  <2>2. Carried
    BY <1>1, <2>1, SameCarries
  <2> QED
    BY <1>1, <2>1, <2>2 DEF WorldInv, PostsTrue, SentAdmitted, Landed, LaneFresh, ReportsTrue,
                            EventTrue, UpdatesTrue, StoredTyped, SessionGone
<1>4. CASE ~Landed(s)
  <2>1. Posted(sends[s].text, s)
    BY <1>4 DEF Lands
  <2> QED
    BY <1>1, <1>2, <1>4, <2>1, PostWorld
<1> QED
  BY <1>3, <1>4

\* A step that leaves the sends and Telegram's messages alone.
LEMMA ViewWorld ==
    ASSUME KeptInv, WorldInv, KeptInv', UNCHANGED <<sends, lane, server, wire>>,
           outputs' = outputs \/ (outputs # <<>> /\ outputs' = Tail(outputs)),
           UpdatesTrue', StoredTyped', SessionGone'
    PROVE  Carried /\ WorldInv'
<1>1. Carried
  BY SameCarries
<1>2. ReportsTrue'
  BY <1>1, ReportsLess
<1>3. PostsTrue' /\ SentAdmitted' /\ LaneFresh'
  BY DEF WorldInv, PostsTrue, SentAdmitted, Landed, LaneFresh
<1> QED
  BY <1>1, <1>2, <1>3 DEF WorldInv

LEMMA UpdateWorld ==
    ASSUME KeptInv, WorldInv, KeptInv', ReadElsewhere \/ CommitUpdate \/ ShowUpdate
    PROVE  Carried /\ WorldInv'
<1>1. live \in Seq(Update) /\ shown \in Seq(Update)
  BY DEF KeptInv, ServerTyped, WorldInv, UpdatesTrue
<1>2. UNCHANGED <<process, sends, lane, server, wire, outputs, load>>
  BY DEF ReadElsewhere, CommitUpdate, ShowUpdate, viewVars
<1>3. CASE ReadElsewhere
  <2> DEFINE e == [kind |-> "read", id |-> Len(server)]
  <2>1. /\ live' = Append(live, e) /\ server # <<>> /\ UNCHANGED <<shown, disk>>
        /\ process = "online"
    BY <1>3 DEF ReadElsewhere
  <2>2. Len(server) \in DOMAIN server /\ Len(server) \in Nat \ {0}
    <3>1. Len(server) \in Nat /\ DOMAIN server = 1..Len(server) /\ server \in Seq(Post)
      BY MembersTyped DEF KeptInv, ServerTyped
    <3>2. Len(server) # 0
      BY <2>1, <3>1, EmptySeq
    <3> QED
      BY <3>1, <3>2
  <2>3. e \in Update /\ e.id \in DOMAIN server
    BY <2>2 DEF Update
  <2> HIDE DEF e
  <2>4. /\ \A i \in DOMAIN live : live'[i] = live[i]
        /\ live'[Len(live) + 1] = e
        /\ \A i \in DOMAIN live' : i \in DOMAIN live \/ i = Len(live) + 1
    BY <1>1, <2>1, <2>3, OneMore
  <2>5. UpdatesTrue'
    BY <1>2, <2>1, <2>3, <2>4 DEF WorldInv, UpdatesTrue
  <2>6. StoredTyped' /\ SessionGone'
    BY <1>2, <2>1 DEF WorldInv, StoredTyped, SessionGone
  <2> QED
    BY <1>2, <2>5, <2>6, ViewWorld
<1>4. CASE CommitUpdate
  <2> DEFINE update == Head(live)
  <2>1. /\ live # <<>> /\ live' = Tail(live) /\ shown' = Append(shown, update)
        /\ disk' = IF update.kind = "added"
                   THEN Put(disk, update.id, Stored(server[update.id].text, "settled"))
                   ELSE [i \in DOMAIN disk |->
                             IF i <= update.id THEN [disk[i] EXCEPT !.delivery = "settled"]
                             ELSE disk[i]]
    BY <1>4 DEF CommitUpdate
  <2>2. /\ 1 \in DOMAIN live /\ update = live[1] /\ update \in Update
        /\ \A i \in DOMAIN live' : i + 1 \in DOMAIN live /\ live'[i] = live[i + 1]
    BY <1>1, <2>1, HeadAndTail
  <2>3. update.id \in DOMAIN server /\ server[update.id].text \in Bodies /\ "settled" \in Deliveries
    BY <2>2, MembersTyped DEF WorldInv, UpdatesTrue, Deliveries
  <2> HIDE DEF update
  <2>4. /\ shown' \in Seq(Update)
        /\ \A i \in DOMAIN shown : shown'[i] = shown[i]
        /\ shown'[Len(shown) + 1] = update
        /\ \A i \in DOMAIN shown' : i \in DOMAIN shown \/ i = Len(shown) + 1
    BY <1>1, <2>1, <2>2, OneMore
  <2>5. UpdatesTrue'
    BY <1>2, <2>2, <2>3, <2>4 DEF WorldInv, UpdatesTrue
  <2>6. StoredTyped'
    <3>1. CASE update.kind = "added"
      BY <2>1, <2>3, <3>1, PutStored DEF WorldInv, StoredTyped
    <3>2. CASE update.kind # "added"
      <4>1. disk' = [i \in DOMAIN disk |->
                        IF i <= update.id THEN [disk[i] EXCEPT !.delivery = "settled"] ELSE disk[i]]
        BY <2>1, <3>2
      <4>2. ASSUME NEW id \in DOMAIN disk
            PROVE  disk'[id].text \in Bodies /\ disk'[id].delivery \in Deliveries
        <5>1. disk[id] = [text |-> disk[id].text, delivery |-> disk[id].delivery]
              /\ disk[id].text \in Bodies /\ disk[id].delivery \in Deliveries
          BY DEF KeptInv, DiskTyped, StoredMessage, Stored, WorldInv, StoredTyped, StoredAs
        <5>2. disk'[id] = disk[id] \/ disk'[id] = [disk[id] EXCEPT !.delivery = "settled"]
          BY <4>1
        <5>3. disk'[id] = disk[id] \/ disk'[id] = [text |-> disk[id].text, delivery |-> "settled"]
          BY <5>1, <5>2
        <5> QED
          BY <2>3, <5>1, <5>3
      <4>3. DOMAIN disk' = DOMAIN disk
        BY <4>1
      <4> QED
        BY <4>2, <4>3 DEF WorldInv, StoredTyped, StoredAs
    <3> QED
      BY <3>1, <3>2
  <2>7. SessionGone'
    <3>1. process = "online"
      BY <1>4 DEF CommitUpdate
    <3> QED
      BY <1>2, <3>1 DEF SessionGone
  <2> QED
    BY <1>2, <2>5, <2>6, <2>7, ViewWorld
<1>5. CASE ShowUpdate
  <2>1. shown # <<>> /\ shown' = Tail(shown) /\ UNCHANGED <<live, disk>>
    BY <1>5 DEF ShowUpdate
  <2>2. /\ shown' \in Seq(Update)
        /\ \A i \in DOMAIN shown' : i + 1 \in DOMAIN shown /\ shown'[i] = shown[i + 1]
    BY <1>1, <2>1, HeadAndTail
  <2>3. UpdatesTrue'
    BY <1>2, <2>1, <2>2 DEF WorldInv, UpdatesTrue
  <2>4. process = "online"
    BY <2>1 DEF WorldInv, SessionGone
  <2>5. StoredTyped' /\ SessionGone'
    BY <1>2, <2>1, <2>4 DEF WorldInv, StoredTyped, SessionGone
  <2> QED
    BY <1>2, <2>3, <2>5, ViewWorld
<1> QED
  BY <1>3, <1>4, <1>5

LEMMA LoadWorld ==
    ASSUME KeptInv, WorldInv, KeptInv',
           AskHistory \/ AnswerHistory \/ SaveHistory \/ ShowHistory
    PROVE  Carried /\ WorldInv'
<1>1. UNCHANGED <<process, sends, lane, server, wire, outputs, live, shown>>
  BY DEF AskHistory, AnswerHistory, SaveHistory, ShowHistory, viewVars, wireVars
<1>2. process = "online"
  BY DEF AskHistory, AnswerHistory, SaveHistory, ShowHistory, WorldInv, SessionGone, NoLoad
<1>3. /\ load = [pc |-> load.pc, baseline |-> load.baseline, page |-> load.page]
      /\ load.page \in Nat /\ load.page <= Len(server) /\ Len(server) \in Nat
  BY MembersTyped DEF KeptInv, ServerTyped, WorldInv, UpdatesTrue
<1>4. load'.page \in Nat /\ load'.page <= Len(server)
  <2>1. CASE AskHistory
    BY <1>3, <2>1 DEF AskHistory
  <2>2. CASE AnswerHistory
    <3>1. load' = [load EXCEPT !.pc = "answered", !.page = Len(server)]
      BY <2>2 DEF AnswerHistory
    <3>2. load' = [pc |-> "answered", baseline |-> load.baseline, page |-> Len(server)]
      BY <1>3, <3>1
    <3> QED
      BY <1>3, <3>2
  <2>3. CASE SaveHistory
    <3>1. load' = [load EXCEPT !.pc = "saved"]
      BY <2>3 DEF SaveHistory
    <3>2. load' = [pc |-> "saved", baseline |-> load.baseline, page |-> load.page]
      BY <1>3, <3>1
    <3> QED
      BY <1>3, <3>2
  <2>4. CASE ShowHistory
    BY <1>3, <2>4 DEF ShowHistory, NoLoad
  <2> QED
    BY <2>1, <2>2, <2>3, <2>4
<1>5. UpdatesTrue'
  BY <1>1, <1>4 DEF WorldInv, UpdatesTrue
<1>6. SessionGone'
  BY <1>1, <1>2 DEF SessionGone
<1>7. StoredTyped'
  <2>1. CASE SaveHistory
    <3> DEFINE d == Drop(disk, Stale(disk, load.page))
    <3>1. StoredAs(d)
      BY DropStored DEF WorldInv, StoredTyped
    <3>2. disk' = PutPage(d, load.page)
      BY <2>1 DEF SaveHistory
    <3> HIDE DEF d
    <3> QED
      BY <1>3, <3>1, <3>2, PageStored DEF StoredTyped, KeptInv, ServerTyped
  <2>2. CASE AskHistory \/ AnswerHistory \/ ShowHistory
    BY <2>2 DEF AskHistory, AnswerHistory, ShowHistory, WorldInv, StoredTyped
  <2> QED
    BY <2>1, <2>2
<1> QED
  BY <1>1, <1>5, <1>6, <1>7, ViewWorld

\* Sessions and processes that come and go.
LEMMA SessionWorld ==
    ASSUME KeptInv, WorldInv, KeptInv', Disconnect \/ Stop
    PROVE  Carried /\ WorldInv'
<1>1. /\ UNCHANGED <<sends, server, wire, live, disk>>
      /\ outputs' = <<>> /\ shown' = <<>> /\ load' = NoLoad
      /\ lane' = lane \/ lane' = <<>>
      /\ process' = "off" => lane' = <<>>
  BY DEF Disconnect, Stop, SessionLost, viewVars
<1>2. Carried
  BY <1>1, SameCarries
<1>3. PostsTrue' /\ SentAdmitted'
  BY <1>1 DEF WorldInv, PostsTrue, SentAdmitted, Landed
<1>4. LaneFresh'
  BY <1>1 DEF WorldInv, LaneFresh
<1>5. ReportsTrue'
  BY <1>1, <1>2, ReportsLess
<1>6. UpdatesTrue'
  BY <1>1, EmptySeq, MembersTyped DEF WorldInv, UpdatesTrue, NoLoad
<1>7. StoredTyped' /\ SessionGone'
  BY <1>1 DEF WorldInv, StoredTyped, SessionGone
<1> QED
  BY <1>2, <1>3, <1>4, <1>5, <1>6, <1>7 DEF WorldInv

LEMMA ReturnWorld ==
    ASSUME KeptInv, WorldInv, KeptInv', Launch \/ \E first \in BOOLEAN : Reconnect(first)
    PROVE  Carried /\ WorldInv' /\ DOMAIN sends' = DOMAIN sends
<1>1. /\ sends' = Recovered
      /\ disk' = disk \/ disk' = PutPage(disk, Len(server))
      /\ UNCHANGED <<lane, outputs, server, wire, live, shown, load>>
      /\ process' # "off" /\ process # "online"
  BY DEF Launch, Reconnect, wireVars
<1>2. Carried /\ DOMAIN sends' = DOMAIN sends
      /\ \A s \in DOMAIN sends : sends[s].row = "none" => sends'[s].row = "none"
  BY <1>1, RecoveryCarries
<1>3. PostsTrue' /\ SentAdmitted'
  BY <1>1, <1>2, PostsSame, SentSame
<1>4. LaneFresh'
  BY <1>1, <1>2 DEF WorldInv, LaneFresh, KeptInv, SendsTyped
<1>5. ReportsTrue'
  BY <1>1, <1>2, ReportsLess
<1>6. UpdatesTrue'
  BY <1>1 DEF WorldInv, UpdatesTrue
<1>7. StoredTyped'
  <2>1. server \in Seq(Post) /\ Len(server) \in Nat /\ Len(server) <= Len(server) /\ StoredAs(disk)
    BY MembersTyped DEF KeptInv, ServerTyped, WorldInv, StoredTyped
  <2>2. StoredAs(PutPage(disk, Len(server)))
    BY <2>1, PageStored
  <2> QED
    BY <1>1, <2>1, <2>2 DEF StoredTyped
<1>8. SessionGone'
  BY <1>1 DEF WorldInv, SessionGone
<1> QED
  BY <1>2, <1>3, <1>4, <1>5, <1>6, <1>7, <1>8 DEF WorldInv

LEMMA StepWorld ==
    ASSUME KeptInv, WorldInv, SendsNext
    PROVE  KeptInv' /\ Carried /\ WorldInv'
<1>1. KeptInv'
  BY StepKeeps
<1>2. CASE \E text \in Bodies : Send(text)
  BY <1>1, <1>2, SendWorld
<1>3. ASSUME NEW text \in Bodies, PostedElsewhere(text) PROVE Carried /\ WorldInv'
  <2>1. /\ UNCHANGED <<process, sends, lane, outputs, shown, load, disk, wire>> /\ Posted(text, 0)
    BY <1>3 DEF PostedElsewhere, viewVars
  <2> QED
    BY <1>1, <2>1, PostWorld
<1>4. CASE Admit
  BY <1>1, <1>4, AdmitWorld
<1>5. ASSUME NEW s \in DOMAIN sends,
             Retry(s) \/ Dismiss(s) \/ Claim(s) \/ Complete(s) \/ Refuse(s)
      PROVE  Carried /\ WorldInv'
  BY <1>5, DecisionWorld, AttemptWorld, CompleteWorld
<1>6. CASE \E s \in wire : Lands(s)
  BY <1>1, <1>6, LandsWorld
<1>7. CASE CoordinatorReports
  <2>1. /\ outputs # <<>> /\ outputs' = Tail(outputs)
        /\ UNCHANGED <<process, sends, lane, server, wire, live, shown, load, disk>>
    BY <1>7 DEF CoordinatorReports, wireVars
  <2>2. process = "online"
    BY <2>1 DEF WorldInv, SessionGone
  <2>3. UpdatesTrue' /\ StoredTyped' /\ SessionGone'
    BY <2>1, <2>2 DEF WorldInv, UpdatesTrue, StoredTyped, SessionGone
  <2> QED
    BY <1>1, <2>1, <2>3, ViewWorld
<1>8. CASE ReadElsewhere \/ CommitUpdate \/ ShowUpdate
  BY <1>1, <1>8, UpdateWorld
<1>9. CASE AskHistory \/ AnswerHistory \/ SaveHistory \/ ShowHistory
  BY <1>1, <1>9, LoadWorld
<1>10. CASE Disconnect \/ Stop
  BY <1>1, <1>10, SessionWorld
<1>11. CASE Launch \/ \E first \in BOOLEAN : Reconnect(first)
  BY <1>1, <1>11, ReturnWorld
<1> QED
  BY <1>1, <1>2, <1>3, <1>4, <1>5, <1>6, <1>7, <1>8, <1>9, <1>10, <1>11 DEF SendsNext

-----------------------------------------------------------------------------
(* ServerEntriesTrue: an entry says what its identity stands for, whether it *)
(* is Telegram's or that of a send the process still has to do with.         *)

\* A send under way, or that a report is still about.
Used(s) == Underway(s) \/ \E i \in DOMAIN outputs : outputs[i].send = s

TrueAt(id, text) ==
    /\ id > 0 => id \in DOMAIN server /\ text = server[id].text
    /\ \A s \in DOMAIN sends : Used(s) /\ sends[s].local = id => text = sends[s].text

EntryTrue(e) == TrueAt(e.id, e.text)

UsedDiffer ==
    \A s, t \in DOMAIN sends : Used(s) /\ Used(t) /\ sends[s].local = sends[t].local => s = t

HistoryTrue == \A i \in DOMAIN history : EntryTrue(history[i])

StoredTrue == \A id \in DOMAIN disk : TrueAt(id, disk[id].text)

TrueInv == history \in Histories /\ (~clashed => UsedDiffer /\ HistoryTrue /\ StoredTrue)

\* No step takes up a send again that was done with.
LEMMA StepUsed ==
    ASSUME KeptInv, WorldInv, SendsNext
    PROVE  \A t \in DOMAIN sends : Used(t)' => Used(t)
<1> DEFINE Goal == \A t \in DOMAIN sends : Used(t)' => Used(t)
<1>1. CASE \E text \in Bodies : Send(text)
  <2> DEFINE n == Len(sends) + 1
  <2>1. PICK text \in Bodies : Send(text)
    BY <1>1
  <2>2. /\ n \notin DOMAIN sends /\ lane' = Append(lane, n) /\ n \in Nat \ {0}
        /\ \A s \in DOMAIN sends : sends'[s] = sends[s]
    BY <2>1, SendCarries
  <2> HIDE DEF n
  <2>3. outputs' = outputs
    BY <2>1 DEF Send
  <2>4. /\ lane'[Len(lane) + 1] = n
        /\ \A i \in DOMAIN lane : lane'[i] = lane[i]
        /\ \A i \in DOMAIN lane' : i \in DOMAIN lane \/ i = Len(lane) + 1
    BY <2>2, OneMore DEF KeptInv, SendsTyped
  <2> QED
    BY <2>2, <2>3, <2>4 DEF Used, Underway, Unresolved
<1>2. CASE Admit
  <2>1. outputs' = outputs
    BY <1>2 DEF Admit
  <2>2. KeptInv'
    BY <1>2, AdmitKeeps
  <2>3. /\ Head(lane) \in DOMAIN sends /\ Underway(Head(lane))
        /\ \A i \in DOMAIN lane' : i + 1 \in DOMAIN lane /\ lane'[i] = lane[i + 1]
        /\ \A t \in DOMAIN sends : t # Head(lane) => sends'[t].row = sends[t].row
    BY <1>2, <2>2, AdmitWorld
  <2> QED
    BY <2>1, <2>3 DEF Used, Underway, Unresolved
<1>3. ASSUME NEW s \in DOMAIN sends, Retry(s) \/ Dismiss(s) PROVE Goal
  <2>1. \A t \in DOMAIN sends : t # s => sends'[t].row = sends[t].row
    BY <1>3, DecisionWorld
  <2>2. Unresolved(s) /\ outputs' = outputs /\ lane' = lane
    BY <1>3 DEF Retry, Dismiss, Decides, Unresolved
  <2> QED
    BY <2>1, <2>2 DEF Used, Underway, Unresolved
<1>4. ASSUME NEW s \in DOMAIN sends, Claim(s) \/ Complete(s) \/ Refuse(s) PROVE Goal
  <2>1. (\A t \in DOMAIN sends : t # s => sends'[t].row = sends[t].row) /\ Unresolved(s)
    BY <1>4, AttemptWorld, CompleteWorld
  <2>2. lane' = lane
    BY <1>4 DEF Claim, Complete, Refuse
  <2>3. PICK events \in Seq(Event) : Report(events) /\ \A i \in DOMAIN events : events[i].send = s
    <3>1. s \in Nat
      BY MembersTyped
    <3>2. CASE Claim(s) \/ Refuse(s)
      <4>1. PICK state \in {"in_flight", "failed"} : Report(<<Changed(s, state)>>)
        BY <3>2 DEF Claim, Refuse
      <4>2. Changed(s, state) \in Event /\ Changed(s, state).send = s
        BY <3>1 DEF Changed, Event, Waiting, Held
      <4>3. <<Changed(s, state)>> \in Seq(Event)
            /\ \A i \in DOMAIN <<Changed(s, state)>> : <<Changed(s, state)>>[i].send = s
        BY <4>2
      <4> QED
        BY <4>1, <4>3
    <3>3. CASE Complete(s)
      <4> DEFINE gone == [kind |-> "removed", send |-> s, state |-> "none", id |-> 0]
                 done == [kind |-> "acknowledged", send |-> s, state |-> "none", id |-> ServerId(s)]
      <4>1. Report(<<gone, done>>)
        BY <3>3 DEF Complete
      <4>2. ServerId(s) \in Nat
        BY <3>3, CompleteWorld, MembersTyped
      <4>3. gone \in Event /\ done \in Event /\ gone.send = s /\ done.send = s
        BY <3>1, <4>2 DEF Event
      <4> HIDE DEF gone, done
      <4>4. <<gone, done>> \in Seq(Event) /\ \A i \in DOMAIN <<gone, done>> : <<gone, done>>[i].send = s
        BY <4>3
      <4> QED
        BY <4>1, <4>4
    <3> QED
      BY <1>4, <3>2, <3>3
  <2>4. \A n \in DOMAIN outputs' :
            (\E i \in DOMAIN outputs : outputs'[n] = outputs[i])
            \/ (\E i \in DOMAIN events : outputs'[n] = events[i])
    <3>1. outputs \in Seq(Event)
      BY DEF WorldInv, ReportsTrue
    <3>2. HoldsBoth(outputs \o events, outputs, events)
      BY <3>1, JoinedEntries, Zenon
    <3> QED
      BY <2>3, <3>2, Zenon DEF Report, HoldsBoth
  <2>5. \A n \in DOMAIN outputs' :
            (\E i \in DOMAIN outputs : outputs'[n] = outputs[i]) \/ outputs'[n].send = s
    BY <2>3, <2>4
  <2>6. ASSUME NEW t \in DOMAIN sends, Used(t)' PROVE Used(t)
    <3>1. CASE t = s
      BY <2>1, <3>1 DEF Used, Underway
    <3>2. CASE t # s
      <4>1. Underway(t)' => Underway(t)
        BY <2>1, <2>2, <3>2 DEF Underway, Unresolved
      <4>2. (\E n \in DOMAIN outputs' : outputs'[n].send = t) => \E i \in DOMAIN outputs : outputs[i].send = t
        BY <2>5, <3>2
      <4> QED
        BY <2>6, <4>1, <4>2 DEF Used
    <3> QED
      BY <3>1, <3>2
  <2> QED
    BY <2>6
<1>5. CASE CoordinatorReports
  <2>1. outputs # <<>> /\ outputs' = Tail(outputs) /\ sends' = sends /\ lane' = lane
    BY <1>5 DEF CoordinatorReports
  <2>2. \A i \in DOMAIN outputs' : i + 1 \in DOMAIN outputs /\ outputs'[i] = outputs[i + 1]
    BY <2>1, HeadAndTail DEF WorldInv, ReportsTrue
  <2> QED
    BY <2>1, <2>2 DEF Used, Underway, Unresolved
<1>6. ASSUME sends' = sends, lane' = lane \/ lane' = <<>>, outputs' = outputs \/ outputs' = <<>>
      PROVE  Goal
  BY <1>6 DEF Used, Underway, Unresolved
<1>7. CASE Launch \/ \E first \in BOOLEAN : Reconnect(first)
  <2>1. sends' = Recovered /\ lane' = lane /\ outputs' = outputs
    BY <1>7 DEF Launch, Reconnect
  <2>2. \A s \in DOMAIN sends : Unresolved(s)' => Unresolved(s)
    BY <2>1, RecoveredKeeps DEF KeptInv, SendsTyped, Unresolved
  <2> QED
    BY <2>1, <2>2 DEF Used, Underway
<1>8. CASE \/ \E text \in Bodies : PostedElsewhere(text)
           \/ \E s \in wire : Lands(s)
           \/ ReadElsewhere \/ CommitUpdate \/ ShowUpdate
           \/ AskHistory \/ AnswerHistory \/ SaveHistory \/ ShowHistory
           \/ Disconnect \/ Stop
  <2>1. sends' = sends
    BY <1>8 DEF PostedElsewhere, Lands, ReadElsewhere, CommitUpdate, ShowUpdate, AskHistory,
                AnswerHistory, SaveHistory, ShowHistory, Disconnect, Stop
  <2>2. lane' = lane \/ lane' = <<>>
    BY <1>8 DEF PostedElsewhere, Lands, ReadElsewhere, CommitUpdate, ShowUpdate, AskHistory,
                AnswerHistory, SaveHistory, ShowHistory, Disconnect, Stop
  <2>3. outputs' = outputs \/ outputs' = <<>>
    BY <1>8 DEF PostedElsewhere, Lands, ReadElsewhere, CommitUpdate, ShowUpdate, AskHistory,
                AnswerHistory, SaveHistory, ShowHistory, Disconnect, Stop, SessionLost
  <2> QED
    BY <1>6, <2>1, <2>2, <2>3
<1> QED
  BY <1>1, <1>2, <1>3, <1>4, <1>5, <1>7, <1>8 DEF SendsNext

\* What is true of an identity stays true until it is given to a new send.
LEMMA TrueStays ==
    ASSUME Carried, \A t \in DOMAIN sends : Used(t)' => Used(t),
           NEW id, NEW text, TrueAt(id, text),
           \A t \in DOMAIN sends' : t \in DOMAIN sends \/ sends'[t].local # id
    PROVE  TrueAt(id, text)'
BY DEF Carried, TrueAt

\* What Telegram has is true of its identity.
LEMMA ServerTrue ==
    ASSUME KeptInv, WorldInv, NEW id \in DOMAIN server
    PROVE  TrueAt(id, server[id].text) /\ id > 0
<1>1. id \in Nat \ {0} /\ \A s \in DOMAIN sends : sends[s].local < 0 /\ sends[s].local \in Int
  BY MembersTyped
<1>2. \A s \in DOMAIN sends : sends[s].local # id
  BY <1>1
<1> QED
  BY <1>1, <1>2 DEF TrueAt

\* What a send says is true of its identity.
LEMMA OwnTrue ==
    ASSUME KeptInv, WorldInv, UsedDiffer, NEW s \in DOMAIN sends, Used(s)
    PROVE  TrueAt(sends[s].local, sends[s].text)
<1>1. sends[s].local \in Int /\ sends[s].local < 0
  BY MembersTyped
<1>2. ~(sends[s].local > 0)
  BY <1>1
<1> QED
  BY <1>2 DEF TrueAt, UsedDiffer

\* A history whose deliveries changed.
LEMMA SameTrue ==
    ASSUME NEW g, NEW h, SameButDelivery(g, h), \A i \in DOMAIN h : EntryTrue(h[i])
    PROVE  \A i \in DOMAIN g : EntryTrue(g[i])
BY DEF SameButDelivery, EntryTrue

\* A step that gives out no identity only has to keep its entries true.
LEMMA TrueKept ==
    ASSUME TrueInv, Carried, \A t \in DOMAIN sends : Used(t)' => Used(t),
           DOMAIN sends' = DOMAIN sends, clashed' = clashed, history' \in Histories,
           ~clashed /\ UsedDiffer /\ HistoryTrue /\ StoredTrue =>
               /\ \A i \in DOMAIN history' : EntryTrue(history'[i])
               /\ \A id \in DOMAIN disk' : TrueAt(id, disk'[id].text)
    PROVE  TrueInv'
<1> SUFFICES ASSUME ~clashed PROVE UsedDiffer' /\ HistoryTrue' /\ StoredTrue'
  BY DEF TrueInv
<1>1. UsedDiffer /\ HistoryTrue /\ StoredTrue
  BY DEF TrueInv
<1>2. UsedDiffer'
  BY <1>1 DEF UsedDiffer, Carried
<1>3. \A id, text : TrueAt(id, text) => TrueAt(id, text)'
  BY TrueStays
<1>4. \A e : EntryTrue(e) => EntryTrue(e)'
  BY <1>3 DEF EntryTrue
<1>5. HistoryTrue'
  BY <1>1, <1>4 DEF HistoryTrue
<1>6. StoredTrue'
  BY <1>1, <1>3 DEF StoredTrue
<1> QED
  BY <1>2, <1>5, <1>6

LEMMA SendTrue ==
    ASSUME KeptInv, WorldInv, TrueInv, NEW text \in Bodies, Send(text)
    PROVE  TrueInv'
<1>0. PICK n, l, e : n = Len(sends) + 1 /\ l = nextLocal - 1 /\ e = Entry(l, text, "saving")
  OBVIOUS
<1>1. /\ Carried
      /\ DOMAIN sends' = DOMAIN sends \cup {n} /\ n \notin DOMAIN sends
      /\ sends'[n] = [text |-> text, local |-> l, row |-> "none"]
      /\ \A s \in DOMAIN sends : sends'[s] = sends[s]
  BY <1>0, SendCarries
<1>2. \A t \in DOMAIN sends : Used(t)' => Used(t)
  BY StepUsed DEF SendsNext
<1>3. /\ nextLocal' = l /\ history' = Append(history, e) /\ disk' = disk
      /\ ~clashed' => ~clashed /\ ~InUse(l)
      /\ l \in Int /\ l < 0
  <2>1. nextLocal' = l /\ history' = Append(history, e) /\ disk' = disk
    BY <1>0 DEF Send
  <2>2. clashed' = (clashed \/ InUse(nextLocal'))
    BY DEF Send
  <2>3. ~clashed' => ~clashed /\ ~InUse(l)
    BY <2>1, <2>2, Zenon
  <2>4. l \in Int /\ l < 0
    BY <1>0 DEF KeptInv, SendsTyped
  <2> QED
    BY <2>1, <2>3, <2>4
<1>4. e \in EntryRecord /\ e.id = l /\ e.text = text
  BY <1>0, <1>3 DEF Entry, EntryRecord, Deliveries, Unsettled
<1>5. sends'[n].local = l /\ sends'[n].text = text
  BY <1>1
<1>6. /\ history' \in Histories /\ history'[Len(history) + 1] = e
      /\ \A i \in DOMAIN history : history'[i] = history[i]
      /\ \A i \in DOMAIN history' : i \in DOMAIN history \/ i = Len(history) + 1
  BY <1>3, <1>4, OneMore DEF TrueInv, Histories
<1> SUFFICES ASSUME ~clashed' PROVE UsedDiffer' /\ HistoryTrue' /\ StoredTrue'
  BY <1>6 DEF TrueInv
<1>7. ~InUse(l) /\ UsedDiffer /\ HistoryTrue /\ StoredTrue
  BY <1>3 DEF TrueInv
<1>8. \A t \in DOMAIN sends : Used(t) => sends[t].local # l
  BY <1>7 DEF InUse, Used
<1>9. UsedDiffer'
  BY <1>1, <1>2, <1>5, <1>7, <1>8 DEF UsedDiffer
<1>10. ASSUME NEW id, NEW what, TrueAt(id, what), id # l PROVE TrueAt(id, what)'
  BY <1>1, <1>2, <1>5, <1>10, TrueStays
<1>11. TrueAt(l, text)'
  <2>1. ~(l > 0)
    BY <1>3
  <2> QED
    BY <1>1, <1>2, <1>5, <1>8, <2>1 DEF TrueAt
<1>12. HistoryTrue'
  <2>1. \A i \in DOMAIN history : history[i].id # l /\ EntryTrue(history[i])
    BY <1>7 DEF InUse, IdsOf, HistoryTrue
  <2>2. \A x : EntryTrue(x) /\ x.id # l => EntryTrue(x)'
    BY <1>10 DEF EntryTrue
  <2>3. EntryTrue(e)'
    BY <1>4, <1>11 DEF EntryTrue
  <2>4. \A i \in DOMAIN history' : \E x : history'[i] = x /\ EntryTrue(x)'
    BY <1>6, <2>1, <2>2, <2>3
  <2> QED
    BY <2>4 DEF HistoryTrue
<1>13. StoredTrue'
  BY <1>3, <1>7, <1>10 DEF InUse, StoredTrue
<1> QED
  BY <1>9, <1>12, <1>13

\* Deliveries of what a send is shown with.
LEMMA DeliveryTyped == \A state : DeliveryOf(state) \in Deliveries /\ DeliveryOf(state) \in Unsettled
BY DEF DeliveryOf, Deliveries, Unsettled

LEMMA ProjectedTrue ==
    ASSUME history \in Histories, NEW s, NEW state, Projected(s, state)
    PROVE  /\ SameButDelivery(history', history)
           /\ \A i \in DOMAIN history : \/ history'[i] = history[i]
                                        \/ history'[i].delivery \in Unsettled
<1>1. history' = Delivered(history, sends[s].local, DeliveryOf(state))
  BY DEF Projected
<1>2. DeliveryOf(state) \in Deliveries /\ DeliveryOf(state) \in Unsettled
  BY DeliveryTyped
<1>3. /\ SameButDelivery(Delivered(history, sends[s].local, DeliveryOf(state)), history)
      /\ \A i \in DOMAIN history :
            \/ Delivered(history, sends[s].local, DeliveryOf(state))[i] = history[i]
            \/ Delivered(history, sends[s].local, DeliveryOf(state))[i].delivery = DeliveryOf(state)
  BY <1>2, DeliveredEntries
<1> QED
  BY <1>1, <1>2, <1>3

LEMMA AdmitTrue ==
    ASSUME KeptInv, WorldInv, TrueInv, Admit
    PROVE  TrueInv'
<1> DEFINE s == Head(lane)
<1>1. KeptInv'
  BY AdmitKeeps
<1>2. Carried /\ DOMAIN sends' = DOMAIN sends /\ s \in DOMAIN sends /\ Used(s)
  BY <1>1, AdmitWorld DEF Used
<1>3. /\ disk' = Put(disk, sends[s].local, Stored(sends[s].text, "pending"))
      /\ Projected(s, "ready") /\ clashed' = clashed
  BY DEF Admit, AdmitStored, ghostVars
<1> HIDE DEF s
<1>4. SameButDelivery(history', history)
  BY <1>3, ProjectedTrue DEF TrueInv
<1>5. history' \in Histories
  BY <1>4 DEF SameButDelivery
<1>6. ASSUME UsedDiffer, HistoryTrue, StoredTrue
      PROVE  /\ \A i \in DOMAIN history' : EntryTrue(history'[i])
             /\ \A id \in DOMAIN disk' : TrueAt(id, disk'[id].text)
  <2>1. \A i \in DOMAIN history' : EntryTrue(history'[i])
    BY <1>4, <1>6, SameTrue DEF HistoryTrue
  <2>2. TrueAt(sends[s].local, sends[s].text)
    BY <1>2, <1>6, OwnTrue
  <2>3. \A id \in DOMAIN disk' : \/ id \in DOMAIN disk /\ disk'[id] = disk[id]
                                 \/ id = sends[s].local /\ disk'[id].text = sends[s].text
    BY <1>3 DEF Put, Stored
  <2> QED
    BY <1>6, <2>1, <2>2, <2>3 DEF StoredTrue
<1> QED
  BY <1>2, <1>3, <1>5, <1>6, StepUsed, TrueKept DEF SendsNext

LEMMA CompleteTrue ==
    ASSUME KeptInv, WorldInv, TrueInv, NEW s \in DOMAIN sends, Complete(s)
    PROVE  TrueInv'
<1>1. /\ disk' = Put(Drop(disk, {sends[s].local}), ServerId(s), Stored(sends[s].text, "settled"))
      /\ history' = history /\ clashed' = clashed
  BY DEF Complete, viewVars, ghostVars
<1>2. /\ Carried /\ DOMAIN sends' = DOMAIN sends
      /\ ServerId(s) \in DOMAIN server /\ server[ServerId(s)].send = s
  BY CompleteWorld
<1>3. server[ServerId(s)].text = sends[s].text
  BY <1>2, MembersTyped DEF WorldInv, PostsTrue
<1>4. TrueAt(ServerId(s), sends[s].text)
  BY <1>2, <1>3, ServerTrue
<1>5. \A id \in DOMAIN disk' : \/ id \in DOMAIN disk /\ disk'[id] = disk[id]
                               \/ id = ServerId(s) /\ disk'[id].text = sends[s].text
  BY <1>1 DEF Put, Drop, Stored
<1>6. ASSUME HistoryTrue, StoredTrue
      PROVE  /\ \A i \in DOMAIN history' : EntryTrue(history'[i])
             /\ \A id \in DOMAIN disk' : TrueAt(id, disk'[id].text)
  BY <1>1, <1>4, <1>5, <1>6 DEF HistoryTrue, StoredTrue
<1>7. \A t \in DOMAIN sends : Used(t)' => Used(t)
  BY StepUsed DEF SendsNext
<1> QED
  BY <1>1, <1>2, <1>6, <1>7, TrueKept DEF TrueInv

\* The reports: a changed delivery, nothing, or Telegram's identity for the entry.
LEMMA ReportTrue ==
    ASSUME KeptInv, WorldInv, TrueInv, CoordinatorReports
    PROVE  TrueInv'
<1> DEFINE e == Head(outputs)
<1>1. /\ outputs # <<>> /\ UNCHANGED <<sends, server, disk, clashed>>
      /\ \/ e.kind = "changed" /\ Projected(e.send, e.state)
         \/ history' = history
         \/ e.kind = "acknowledged" /\ history' = Acknowledged(history, sends[e.send].local, e.id)
  BY DEF CoordinatorReports, wireVars, ghostVars
<1>2. e \in Event /\ EventTrue(e) /\ \E i \in DOMAIN outputs : outputs[i].send = e.send
  BY <1>1, HeadAndTail DEF WorldInv, ReportsTrue
<1> HIDE DEF e
<1>3. Carried
  BY <1>1, SameCarries
<1>4. \A t \in DOMAIN sends : Used(t)' => Used(t)
  BY StepUsed DEF SendsNext
<1>5. history \in Histories
  BY DEF TrueInv
<1>6. CASE Projected(e.send, e.state)
  <2>1. SameButDelivery(history', history)
    BY <1>5, <1>6, ProjectedTrue
  <2>2. history' \in Histories
    BY <2>1 DEF SameButDelivery
  <2>3. HistoryTrue => \A i \in DOMAIN history' : EntryTrue(history'[i])
    BY <2>1, SameTrue DEF HistoryTrue
  <2> QED
    BY <1>1, <1>3, <1>4, <2>2, <2>3, TrueKept DEF StoredTrue
<1>7. CASE history' = history
  BY <1>1, <1>3, <1>4, <1>5, <1>7, TrueKept DEF HistoryTrue, StoredTrue
<1>8. CASE e.kind = "acknowledged" /\ history' = Acknowledged(history, sends[e.send].local, e.id)
  <2>1. /\ e.send \in DOMAIN sends /\ e.id \in DOMAIN server /\ server[e.id].send = e.send
        /\ Used(e.send)
    BY <1>2, <1>8 DEF EventTrue, Used
  <2>2. e.id \in Int
    BY <2>1, MembersTyped
  <2>3. /\ history' \in Histories /\ DOMAIN history' = DOMAIN history
        /\ \A i \in DOMAIN history :
              history'[i] = IF history[i].id = sends[e.send].local
                            THEN Entry(e.id, history[i].text, "settled") ELSE history[i]
    BY <1>5, <1>8, <2>2, AcknowledgedEntries
  <2>4. server[e.id].text = sends[e.send].text
    BY <2>1, MembersTyped DEF WorldInv, PostsTrue
  <2>5. TrueAt(e.id, sends[e.send].text)
    BY <2>1, <2>4, ServerTrue
  <2>6. ASSUME HistoryTrue PROVE \A i \in DOMAIN history' : EntryTrue(history'[i])
    <3> SUFFICES ASSUME NEW i \in DOMAIN history PROVE EntryTrue(history'[i])
      BY <2>3
    <3>1. CASE history[i].id = sends[e.send].local
      <4>1. history[i].text = sends[e.send].text
        BY <2>1, <2>6, <3>1 DEF HistoryTrue, EntryTrue, TrueAt
      <4>2. history'[i].id = e.id /\ history'[i].text = sends[e.send].text
        BY <2>3, <3>1, <4>1 DEF Entry
      <4> QED
        BY <2>5, <4>2 DEF EntryTrue
    <3>2. CASE history[i].id # sends[e.send].local
      BY <2>3, <2>6, <3>2 DEF HistoryTrue
    <3> QED
      BY <3>1, <3>2
  <2> QED
    BY <1>1, <1>3, <1>4, <2>3, <2>6, TrueKept DEF StoredTrue
<1> QED
  BY <1>1, <1>6, <1>7, <1>8

\* An update is of a message Telegram has.
LEMMA UpdateNames ==
    ASSUME KeptInv, WorldInv, NEW q, q = live \/ q = shown, q # <<>>
    PROVE  /\ Head(q).id \in DOMAIN server /\ Head(q).id \in Nat \ {0}
           /\ server[Head(q).id].text \in Bodies
<1>1. q \in Seq(Update)
  BY DEF KeptInv, ServerTyped, WorldInv, UpdatesTrue
<1>2. 1 \in DOMAIN q /\ Head(q) = q[1]
  BY <1>1, HeadAndTail
<1>3. Head(q).id \in DOMAIN server
  BY <1>2 DEF WorldInv, UpdatesTrue
<1> QED
  BY <1>3, MembersTyped

LEMMA CommitTrue ==
    ASSUME KeptInv, WorldInv, TrueInv, CommitUpdate
    PROVE  TrueInv'
<1> DEFINE update == Head(live)
<1>1. /\ UNCHANGED <<sends, server, history, clashed>> /\ live # <<>>
      /\ disk' = IF update.kind = "added"
                 THEN Put(disk, update.id, Stored(server[update.id].text, "settled"))
                 ELSE [i \in DOMAIN disk |->
                           IF i <= update.id THEN [disk[i] EXCEPT !.delivery = "settled"]
                           ELSE disk[i]]
  BY DEF CommitUpdate, viewVars, ghostVars
<1>2. Carried
  BY <1>1, SameCarries
<1>3. \A t \in DOMAIN sends : Used(t)' => Used(t)
  BY StepUsed DEF SendsNext
<1>4. update.id \in DOMAIN server
  BY <1>1, UpdateNames
<1>5. TrueAt(update.id, server[update.id].text)
  BY <1>4, ServerTrue
<1> HIDE DEF update
<1>6. ASSUME NEW id \in DOMAIN disk'
      PROVE  \/ id \in DOMAIN disk /\ disk'[id].text = disk[id].text
             \/ id = update.id /\ disk'[id].text = server[update.id].text
  <2>1. CASE update.kind = "added"
    BY <1>1, <2>1 DEF Put, Stored
  <2>2. CASE update.kind # "added"
    <3>1. disk' = [i \in DOMAIN disk |->
                      IF i <= update.id THEN [disk[i] EXCEPT !.delivery = "settled"] ELSE disk[i]]
      BY <1>1, <2>2
    <3>2. id \in DOMAIN disk /\ disk[id] = [text |-> disk[id].text, delivery |-> disk[id].delivery]
      BY <3>1 DEF KeptInv, DiskTyped, StoredMessage, Stored
    <3>3. disk'[id] = disk[id] \/ disk'[id] = [disk[id] EXCEPT !.delivery = "settled"]
      BY <3>1, <3>2
    <3>4. disk'[id] = disk[id] \/ disk'[id] = [text |-> disk[id].text, delivery |-> "settled"]
      BY <3>2, <3>3
    <3> QED
      BY <3>2, <3>4
  <2> QED
    BY <2>1, <2>2
<1>7. ASSUME HistoryTrue, StoredTrue
      PROVE  /\ \A i \in DOMAIN history' : EntryTrue(history'[i])
             /\ \A id \in DOMAIN disk' : TrueAt(id, disk'[id].text)
  BY <1>1, <1>5, <1>6, <1>7 DEF HistoryTrue, StoredTrue
<1> QED
  BY <1>1, <1>2, <1>3, <1>7, TrueKept DEF TrueInv

LEMMA ShowUpdateTrue ==
    ASSUME KeptInv, WorldInv, TrueInv, ShowUpdate
    PROVE  TrueInv'
<1> DEFINE update == Head(shown)
           m == Entry(update.id, server[update.id].text, "settled")
<1>1. /\ UNCHANGED <<sends, server, disk, clashed>> /\ shown # <<>>
      /\ history' = Added(history, m) \/ history' = MarkedRead(history, update.id)
  BY DEF ShowUpdate
<1>2. Carried
  BY <1>1, SameCarries
<1>3. \A t \in DOMAIN sends : Used(t)' => Used(t)
  BY StepUsed DEF SendsNext
<1>4. /\ update.id \in DOMAIN server /\ update.id \in Int /\ history \in Histories
      /\ server[update.id].text \in Bodies
  BY <1>1, UpdateNames DEF TrueInv
<1>5. TrueAt(update.id, server[update.id].text)
  BY <1>4, ServerTrue
<1>6. m \in EntryRecord /\ EntryTrue(m)
  BY <1>4, <1>5 DEF Entry, EntryRecord, Deliveries, EntryTrue
<1> HIDE DEF m, update
<1>7. CASE history' = Added(history, m)
  <2>1. /\ history' \in Histories
        /\ \A n \in DOMAIN history' : history'[n] = m \/ \E i \in DOMAIN history : history'[n] = history[i]
    BY <1>4, <1>6, <1>7, AddedEntries
  <2>2. HistoryTrue => \A i \in DOMAIN history' : EntryTrue(history'[i])
    BY <1>6, <2>1 DEF HistoryTrue
  <2> QED
    BY <1>1, <1>2, <1>3, <2>1, <2>2, TrueKept DEF StoredTrue
<1>8. CASE history' = MarkedRead(history, update.id)
  <2>1. SameButDelivery(history', history)
    BY <1>4, <1>8, MarkedReadEntries
  <2>2. history' \in Histories
    BY <2>1 DEF SameButDelivery
  <2>3. HistoryTrue => \A i \in DOMAIN history' : EntryTrue(history'[i])
    BY <2>1, SameTrue DEF HistoryTrue
  <2> QED
    BY <1>1, <1>2, <1>3, <2>2, <2>3, TrueKept DEF StoredTrue
<1> QED
  BY <1>1, <1>7, <1>8

\* A stored page is Telegram's.
LEMMA PageTrue ==
    ASSUME KeptInv, WorldInv, NEW d, StoredAs(d), \A id \in DOMAIN d : TrueAt(id, d[id].text),
           NEW n \in Nat, n <= Len(server)
    PROVE  \A id \in DOMAIN PutPage(d, n) : TrueAt(id, PutPage(d, n)[id].text)
<1>1. /\ DOMAIN PutPage(d, n) = DOMAIN d \cup 1..n
      /\ \A id \in 1..n : PutPage(d, n)[id] = Stored(server[id].text, "settled")
      /\ \A id \in DOMAIN d : id \notin 1..n => PutPage(d, n)[id] = d[id]
  BY DEF PutPage
<1> SUFFICES ASSUME NEW id \in DOMAIN PutPage(d, n) PROVE TrueAt(id, PutPage(d, n)[id].text)
  OBVIOUS
<1>2. CASE id \in 1..n
  <2>1. id \in DOMAIN server /\ PutPage(d, n)[id] = Stored(server[id].text, "settled")
    BY <1>1, <1>2, MembersTyped
  <2>2. PutPage(d, n)[id].text = server[id].text
    BY <2>1 DEF Stored
  <2> QED
    BY <2>1, <2>2, ServerTrue
<1>3. CASE id \notin 1..n
  <2>1. id \in DOMAIN d /\ PutPage(d, n)[id] = d[id]
    BY <1>1, <1>3
  <2> QED
    BY <2>1
<1> QED
  BY <1>2, <1>3

LEMMA LoadTrue ==
    ASSUME KeptInv, WorldInv, TrueInv, SaveHistory \/ ShowHistory
    PROVE  TrueInv'
<1>1. UNCHANGED <<sends, server, clashed>>
  BY DEF SaveHistory, ShowHistory, wireVars, ghostVars
<1>2. Carried
  BY <1>1, SameCarries
<1>3. \A t \in DOMAIN sends : Used(t)' => Used(t)
  BY StepUsed DEF SendsNext
<1>4. /\ load.page \in Nat /\ load.page <= Len(server) /\ server \in Seq(Post)
      /\ history \in Histories /\ StoredAs(disk)
  BY DEF KeptInv, ServerTyped, WorldInv, UpdatesTrue, StoredTyped, TrueInv
<1>5. CASE SaveHistory
  <2> DEFINE d == Drop(disk, Stale(disk, load.page))
  <2>1. disk' = PutPage(d, load.page) /\ history' = history
    BY <1>5 DEF SaveHistory, viewVars
  <2>2. /\ StoredAs(d) /\ DOMAIN d \subseteq DOMAIN disk
        /\ \A id \in DOMAIN d : d[id] = disk[id]
    BY <1>4, DropStored
  <2> HIDE DEF d
  <2>3. ASSUME HistoryTrue, StoredTrue
        PROVE  /\ \A i \in DOMAIN history' : EntryTrue(history'[i])
               /\ \A id \in DOMAIN disk' : TrueAt(id, disk'[id].text)
    <3>1. \A id \in DOMAIN d : TrueAt(id, d[id].text)
      BY <2>2, <2>3 DEF StoredTrue
    <3>2. \A id \in DOMAIN disk' : TrueAt(id, disk'[id].text)
      BY <1>4, <2>1, <2>2, <3>1, PageTrue
    <3> QED
      BY <2>1, <2>3, <3>2 DEF HistoryTrue
  <2> QED
    BY <1>1, <1>2, <1>3, <1>4, <2>1, <2>3, TrueKept
<1>6. CASE ShowHistory
  <2>1. history' = Refreshed(history, load.page, load.baseline) /\ disk' = disk
    BY <1>6 DEF ShowHistory
  <2>2. /\ history' \in Histories
        /\ \A k \in DOMAIN history' :
              \/ \E i \in 1..load.page : history'[k] = Entry(i, server[i].text, "settled")
              \/ \E i \in DOMAIN history : history'[k] = history[i]
    BY <1>4, <2>1, RefreshedEntries
  <2>3. \A i \in 1..load.page : i \in DOMAIN server
    BY <1>4, PageEntries
  <2>4. \A i \in 1..load.page : EntryTrue(Entry(i, server[i].text, "settled"))
    BY <2>3, ServerTrue DEF Entry, EntryTrue
  <2>5. HistoryTrue => \A k \in DOMAIN history' : EntryTrue(history'[k])
    BY <2>2, <2>4 DEF HistoryTrue
  <2> QED
    BY <1>1, <1>2, <1>3, <2>1, <2>2, <2>5, TrueKept DEF StoredTrue
<1> QED
  BY <1>5, <1>6

\* What a start or a restored connection shows was stored, shown or sent by Telegram.
LEMMA ReturnTrue ==
    ASSUME KeptInv, WorldInv, TrueInv, Launch \/ \E first \in BOOLEAN : Reconnect(first)
    PROVE  TrueInv'
<1>1. Carried /\ DOMAIN sends' = DOMAIN sends
  BY StepKeeps, ReturnWorld DEF SendsNext
<1>2. \A t \in DOMAIN sends : Used(t)' => Used(t)
  BY StepUsed DEF SendsNext
<1>3. /\ Len(server) \in Nat /\ Len(server) <= Len(server) /\ server \in Seq(Post)
      /\ history \in Histories /\ StoredAs(disk)
  BY MembersTyped DEF KeptInv, ServerTyped, WorldInv, StoredTyped, TrueInv
<1>4. clashed' = clashed
  BY DEF Launch, Reconnect, ghostVars
<1>5. /\ Cached(disk) \in Histories
      /\ \A n \in DOMAIN Cached(disk) : \E id \in DOMAIN disk :
            Cached(disk)[n] = Entry(id, disk[id].text, disk[id].delivery)
  <2>1. DOMAIN disk \in SUBSET Int
    BY DEF KeptInv, DiskTyped, StoredMessage
  <2> QED
    BY <1>3, <2>1, CachedEntries DEF StoredAs
<1>6. StoredTrue => \A n \in DOMAIN Cached(disk) : EntryTrue(Cached(disk)[n])
  BY <1>5 DEF StoredTrue, EntryTrue, Entry
<1>7. CASE Launch
  <2>1. history' = WithOutbox(Cached(disk), sends') /\ disk' = disk
    BY <1>7 DEF Launch
  <2>2. SameButDelivery(history', Cached(disk))
    BY <1>5, <2>1, WithOutboxEntries
  <2>3. history' \in Histories
    BY <2>2 DEF SameButDelivery
  <2>4. StoredTrue => \A i \in DOMAIN history' : EntryTrue(history'[i])
    BY <1>6, <2>2, SameTrue
  <2> QED
    BY <1>1, <1>2, <1>4, <2>1, <2>3, <2>4, TrueKept DEF StoredTrue
<1>8. ASSUME NEW first \in BOOLEAN, Reconnect(first) PROVE TrueInv'
  <2> DEFINE base == IF first THEN Page(Len(server)) ELSE Cached(disk)
  <2>1. /\ history' = Merged(base, history)
        /\ disk' = IF first THEN PutPage(disk, Len(server)) ELSE disk
    BY <1>8 DEF Reconnect
  <2>2. /\ base \in Histories
        /\ StoredTrue => \A i \in DOMAIN base : EntryTrue(base[i])
    <3>1. CASE first
      <4>1. /\ Page(Len(server)) \in Histories /\ DOMAIN Page(Len(server)) = 1..Len(server)
            /\ \A i \in 1..Len(server) : /\ i \in DOMAIN server
                                         /\ Page(Len(server))[i] = Entry(i, server[i].text, "settled")
        BY <1>3, PageEntries
      <4>2. \A i \in 1..Len(server) : EntryTrue(Entry(i, server[i].text, "settled"))
        BY <4>1, ServerTrue DEF Entry, EntryTrue
      <4> QED
        BY <3>1, <4>1, <4>2
    <3>2. CASE ~first
      BY <1>5, <1>6, <3>2
    <3> QED
      BY <3>1, <3>2
  <2> HIDE DEF base
  <2>3. /\ history' \in Histories
        /\ \A n \in DOMAIN history' : (\E i \in DOMAIN base : history'[n] = base[i])
                                      \/ (\E i \in DOMAIN history : history'[n] = history[i])
    BY <1>3, <2>1, <2>2, MergedEntries
  <2>4. HistoryTrue /\ StoredTrue => \A i \in DOMAIN history' : EntryTrue(history'[i])
    BY <2>2, <2>3 DEF HistoryTrue
  <2>5. StoredTrue => \A id \in DOMAIN disk' : TrueAt(id, disk'[id].text)
    BY <1>3, <2>1, PageTrue DEF StoredTrue
  <2> QED
    BY <1>1, <1>2, <1>4, <2>3, <2>4, <2>5, TrueKept
<1> QED
  BY <1>7, <1>8

LEMMA StepTrue ==
    ASSUME KeptInv, WorldInv, TrueInv, SendsNext
    PROVE  TrueInv'
<1>1. Carried /\ \A t \in DOMAIN sends : Used(t)' => Used(t)
  BY StepWorld, StepUsed
<1>2. ASSUME DOMAIN sends' = DOMAIN sends, UNCHANGED <<history, disk, clashed>>
      PROVE  TrueInv'
  BY <1>1, <1>2, TrueKept DEF TrueInv, HistoryTrue, StoredTrue
<1>3. CASE \E text \in Bodies : Send(text)
  BY <1>3, SendTrue
<1>4. CASE Admit
  BY <1>4, AdmitTrue
<1>5. ASSUME NEW s \in DOMAIN sends, Retry(s) PROVE TrueInv'
  <2>1. DOMAIN sends' = DOMAIN sends /\ Projected(s, "ready") /\ disk' = disk /\ clashed' = clashed
    BY <1>5, DecisionWorld DEF Retry, ghostVars
  <2>2. SameButDelivery(history', history)
    BY <2>1, ProjectedTrue DEF TrueInv
  <2>3. history' \in Histories
    BY <2>2 DEF SameButDelivery
  <2>4. HistoryTrue => \A i \in DOMAIN history' : EntryTrue(history'[i])
    BY <2>2, SameTrue DEF HistoryTrue
  <2> QED
    BY <1>1, <2>1, <2>3, <2>4, TrueKept DEF StoredTrue
<1>6. ASSUME NEW s \in DOMAIN sends, Dismiss(s) \/ Claim(s) \/ Refuse(s) PROVE TrueInv'
  <2>1. DOMAIN sends' = DOMAIN sends
    BY <1>6, DecisionWorld, AttemptWorld
  <2>2. UNCHANGED <<history, disk, clashed>>
    BY <1>6 DEF Dismiss, Claim, Refuse, viewVars, ghostVars
  <2> QED
    BY <1>2, <2>1, <2>2
<1>7. ASSUME NEW s \in DOMAIN sends, Complete(s) PROVE TrueInv'
  BY <1>7, CompleteTrue
<1>8. CASE CoordinatorReports
  BY <1>8, ReportTrue
<1>9. CASE CommitUpdate \/ ShowUpdate
  BY <1>9, CommitTrue, ShowUpdateTrue
<1>10. CASE SaveHistory \/ ShowHistory
  BY <1>10, LoadTrue
<1>11. CASE Launch \/ \E first \in BOOLEAN : Reconnect(first)
  BY <1>11, ReturnTrue
<1>12. CASE \/ \E text \in Bodies : PostedElsewhere(text)
            \/ \E s \in wire : Lands(s)
            \/ ReadElsewhere \/ AskHistory \/ AnswerHistory \/ Disconnect
  <2>1. sends' = sends /\ UNCHANGED <<history, disk, clashed>>
    BY <1>12 DEF PostedElsewhere, Lands, ReadElsewhere, AskHistory, AnswerHistory, Disconnect,
                 viewVars, ghostVars
  <2> QED
    BY <1>2, <2>1
<1>13. CASE Stop
  <2>1. sends' = sends /\ history' = <<>> /\ UNCHANGED <<disk, clashed>>
    BY <1>13 DEF Stop, ghostVars
  <2>2. history' \in Histories /\ DOMAIN history' = {}
    BY <2>1, EmptySeq DEF Histories
  <2> QED
    BY <1>1, <2>1, <2>2, TrueKept DEF StoredTrue
<1> QED
  BY <1>3, <1>4, <1>5, <1>6, <1>7, <1>8, <1>9, <1>10, <1>11, <1>12, <1>13 DEF SendsNext

-----------------------------------------------------------------------------
(* UnderwayShown: what is under way is shown, and as long as it is not, but  *)
(* for its delivery, what Telegram sent, it is shown as unsettled or was     *)
(* there for the page under way to have it.                                  *)

ShownAs(s) == \E i \in DOMAIN history : \/ history[i].id = sends[s].local
                                        \/ Landed(s) /\ history[i].id = ServerId(s)

\* Telegram has it, and so has the page the process is about to show.
OnPage(s) == /\ Landed(s)
             /\ load.pc \in {"answered", "saved"} => ServerId(s) <= load.page

SettledLanded(s) ==
    \A i \in DOMAIN history :
        history[i].id = sends[s].local /\ history[i].delivery \notin Unsettled => OnPage(s)

\* What was shown when the page was asked for is no newer than the page.
BaselineKnown ==
    \A id \in load.baseline : id \in Int /\ id <= IF load.pc = "asked" THEN Len(server) ELSE load.page

ShownInv ==
    ~clashed => /\ BaselineKnown
                /\ process # "off" /\ AllDiffer =>
                       \A s \in DOMAIN sends :
                           Underway(s) /\ s \notin misread => ShownAs(s) /\ SettledLanded(s)

LEMMA StepUnderway ==
    ASSUME KeptInv, WorldInv, SendsNext
    PROVE  \A t \in DOMAIN sends : Underway(t)' => Underway(t)
<1> DEFINE Goal == \A t \in DOMAIN sends : Underway(t)' => Underway(t)
<1>1. CASE \E text \in Bodies : Send(text)
  <2>1. PICK text \in Bodies : Send(text)
    BY <1>1
  <2>2. PICK n : /\ n \notin DOMAIN sends /\ lane' = Append(lane, n) /\ n \in Nat \ {0}
                 /\ \A s \in DOMAIN sends : sends'[s] = sends[s]
    BY <2>1, SendCarries
  <2>3. /\ lane'[Len(lane) + 1] = n
        /\ \A i \in DOMAIN lane : lane'[i] = lane[i]
        /\ \A i \in DOMAIN lane' : i \in DOMAIN lane \/ i = Len(lane) + 1
    BY <2>2, OneMore DEF KeptInv, SendsTyped
  <2> QED
    BY <2>2, <2>3 DEF Underway, Unresolved
<1>2. CASE Admit
  <2>1. KeptInv'
    BY <1>2, AdmitKeeps
  <2>2. /\ Head(lane) \in DOMAIN sends /\ Underway(Head(lane))
        /\ \A i \in DOMAIN lane' : i + 1 \in DOMAIN lane /\ lane'[i] = lane[i + 1]
        /\ \A t \in DOMAIN sends : t # Head(lane) => sends'[t].row = sends[t].row
    BY <1>2, <2>1, AdmitWorld
  <2> QED
    BY <2>2 DEF Underway, Unresolved
<1>3. ASSUME NEW s \in DOMAIN sends,
             Retry(s) \/ Dismiss(s) \/ Claim(s) \/ Complete(s) \/ Refuse(s)
      PROVE  Goal
  <2>1. \A t \in DOMAIN sends : t # s => sends'[t].row = sends[t].row
    BY <1>3, DecisionWorld, AttemptWorld, CompleteWorld
  <2>2. Unresolved(s) /\ lane' = lane
    BY <1>3 DEF Retry, Dismiss, Decides, Claim, Complete, Answered, Refuse, Unresolved, Waiting
  <2> QED
    BY <2>1, <2>2 DEF Underway, Unresolved
<1>4. CASE Launch \/ \E first \in BOOLEAN : Reconnect(first)
  <2>1. sends' = Recovered /\ lane' = lane
    BY <1>4 DEF Launch, Reconnect
  <2>2. \A s \in DOMAIN sends : Unresolved(s)' => Unresolved(s)
    BY <2>1, RecoveredKeeps DEF KeptInv, SendsTyped, Unresolved
  <2> QED
    BY <2>1, <2>2 DEF Underway
<1>5. CASE \/ \E text \in Bodies : PostedElsewhere(text)
           \/ \E s \in wire : Lands(s)
           \/ CoordinatorReports
           \/ ReadElsewhere \/ CommitUpdate \/ ShowUpdate
           \/ AskHistory \/ AnswerHistory \/ SaveHistory \/ ShowHistory
           \/ Disconnect \/ Stop
  <2>1. sends' = sends
    BY <1>5 DEF PostedElsewhere, Lands, CoordinatorReports, ReadElsewhere, CommitUpdate, ShowUpdate,
                AskHistory, AnswerHistory, SaveHistory, ShowHistory, Disconnect, Stop
  <2>2. lane' = lane \/ lane' = <<>>
    BY <1>5 DEF PostedElsewhere, Lands, CoordinatorReports, ReadElsewhere, CommitUpdate, ShowUpdate,
                AskHistory, AnswerHistory, SaveHistory, ShowHistory, Disconnect, Stop
  <2> QED
    BY <2>1, <2>2 DEF Underway, Unresolved
<1> QED
  BY <1>1, <1>2, <1>3, <1>4, <1>5 DEF SendsNext

\* What Telegram has of a send keeps its identity.
LEMMA LandedStays ==
    ASSUME KeptInv, WorldInv, Carried, PostsTrue', NEW s \in DOMAIN sends, Landed(s)
    PROVE  /\ Landed(s)' /\ ServerId(s)' = ServerId(s)
           /\ ServerId(s) \in DOMAIN server /\ ServerId(s) \in Nat \ {0}
           /\ server[ServerId(s)].send = s
<1>1. ServerId(s) \in DOMAIN server /\ server[ServerId(s)].send = s
  BY DEF Landed, ServerId
<1>2. ServerId(s) \in DOMAIN server' /\ server'[ServerId(s)].send = s
  BY <1>1 DEF Carried
<1>3. s # 0 /\ ServerId(s) \in Nat \ {0}
  BY <1>1, MembersTyped
<1>4. \A j \in DOMAIN server' : server'[j].send = s => j = ServerId(s)
  BY <1>2, <1>3 DEF PostsTrue
<1>5. Landed(s)' /\ ServerId(s)' = ServerId(s)
  BY <1>2, <1>4 DEF Landed, ServerId
<1> QED
  BY <1>1, <1>3, <1>5

\* Only what Telegram knows of was admitted, and the lane holds nothing else.
LEMMA LaneNotLanded ==
    ASSUME KeptInv, WorldInv, NEW s \in DOMAIN sends, Underway(s), ~Unresolved(s)
    PROVE  ~Landed(s)
BY DEF Underway, WorldInv, LaneFresh, SentAdmitted

LEMMA DifferBefore == Carried /\ AllDiffer' => AllDiffer
BY DEF Carried, AllDiffer

\* A step that gives out no identity has to keep shown what was.
LEMMA ShownKept ==
    ASSUME Carried, \A t \in DOMAIN sends : Underway(t)' => Underway(t),
           DOMAIN sends' = DOMAIN sends, clashed' = clashed, misread \subseteq misread',
           process' # "off" => process # "off", ShownInv,
           ~clashed => BaselineKnown',
           \A s \in DOMAIN sends :
               /\ process # "off" /\ ~clashed /\ AllDiffer /\ BaselineKnown
               /\ Underway(s) /\ s \notin misread' /\ ShownAs(s) /\ SettledLanded(s)
               => ShownAs(s)' /\ SettledLanded(s)'
    PROVE  ShownInv'
BY DifferBefore DEF ShownInv

\* What the load under way says of a page stays so.
LEMMA PageStays ==
    ASSUME KeptInv, WorldInv, Carried, PostsTrue', NEW s \in DOMAIN sends, OnPage(s),
           \/ load' = load
           \/ load'.pc \notin {"answered", "saved"}
           \/ load'.page = Len(server)
           \/ load.pc = "answered" /\ load'.page = load.page
    PROVE  OnPage(s)'
<1>1. /\ Landed(s)' /\ ServerId(s)' = ServerId(s)
      /\ ServerId(s) \in DOMAIN server
  BY LandedStays DEF OnPage
<1>2. ServerId(s) <= Len(server)
  BY <1>1, MembersTyped
<1> QED
  BY <1>1, <1>2 DEF OnPage

\* Where the history and the load stay, so does what is shown.
LEMMA HistoryKept ==
    ASSUME KeptInv, WorldInv, Carried, PostsTrue', NEW s \in DOMAIN sends,
           history' = history, ShownAs(s), SettledLanded(s),
           \/ load' = load
           \/ load'.pc \notin {"answered", "saved"}
           \/ load'.page = Len(server)
           \/ load.pc = "answered" /\ load'.page = load.page
    PROVE  ShownAs(s)' /\ SettledLanded(s)'
<1>1. sends'[s].local = sends[s].local
  BY DEF Carried
<1>2. Landed(s) => Landed(s)' /\ ServerId(s)' = ServerId(s)
  BY LandedStays
<1>3. OnPage(s) => OnPage(s)'
  BY PageStays
<1> QED
  BY <1>1, <1>2, <1>3 DEF ShownAs, SettledLanded

\* So it does where deliveries become unsettled only.
LEMMA ProjectedKept ==
    ASSUME KeptInv, WorldInv, Carried, PostsTrue', NEW s \in DOMAIN sends,
           SameButDelivery(history', history), load' = load, ShownAs(s), SettledLanded(s),
           \A i \in DOMAIN history : history'[i] = history[i] \/ history'[i].delivery \in Unsettled
    PROVE  ShownAs(s)' /\ SettledLanded(s)'
<1>1. sends'[s].local = sends[s].local
  BY DEF Carried
<1>2. Landed(s) => Landed(s)' /\ ServerId(s)' = ServerId(s)
  BY LandedStays
<1>3. OnPage(s) => OnPage(s)'
  BY PageStays
<1>4. DOMAIN history' = DOMAIN history /\ \A i \in DOMAIN history : history'[i].id = history[i].id
  BY DEF SameButDelivery
<1> QED
  BY <1>1, <1>2, <1>3, <1>4 DEF ShownAs, SettledLanded

LEMMA BaselineStays ==
    ASSUME KeptInv, WorldInv, Carried, Len(server') \in Nat, BaselineKnown,
           load' = load \/ load' = NoLoad
    PROVE  BaselineKnown'
<1>1. Len(server) \in Nat /\ Len(server) <= Len(server')
  BY MembersTyped DEF Carried
<1>2. CASE load' = load
  BY <1>1, <1>2 DEF BaselineKnown
<1>3. CASE load' = NoLoad
  BY <1>3 DEF BaselineKnown, NoLoad
<1> QED
  BY <1>2, <1>3

LEMMA SendShown ==
    ASSUME KeptInv, WorldInv, TrueInv, ShownInv, NEW text \in Bodies, Send(text)
    PROVE  ShownInv'
<1>0. PICK n, l, e : n = Len(sends) + 1 /\ l = nextLocal - 1 /\ e = Entry(l, text, "saving")
  OBVIOUS
<1>1. /\ Carried
      /\ DOMAIN sends' = DOMAIN sends \cup {n} /\ n \notin DOMAIN sends
      /\ sends'[n] = [text |-> text, local |-> l, row |-> "none"]
      /\ \A s \in DOMAIN sends : sends'[s] = sends[s]
  BY <1>0, SendCarries
<1>2. /\ KeptInv' /\ WorldInv' /\ \A t \in DOMAIN sends : Underway(t)' => Underway(t)
  BY StepWorld, StepUnderway DEF SendsNext
<1>3. /\ history' = Append(history, e)
      /\ UNCHANGED <<process, server, load, misread>> /\ process # "off"
      /\ ~clashed' => ~clashed /\ ~InUse(l)
  <2>1. nextLocal' = l /\ history' = Append(history, e)
    BY <1>0 DEF Send
  <2>2. clashed' = (clashed \/ InUse(nextLocal'))
    BY DEF Send
  <2>3. ~clashed' => ~clashed /\ ~InUse(l)
    BY <2>1, <2>2, Zenon
  <2> QED
    BY <2>1, <2>3 DEF Send, wireVars
<1>4. l \in Int /\ e \in EntryRecord /\ e.id = l /\ e.delivery = "saving"
  BY <1>0 DEF Entry, EntryRecord, Deliveries, Unsettled, KeptInv, SendsTyped
<1>5. sends'[n].local = l
  BY <1>1
<1>6. /\ Len(history) + 1 \in DOMAIN history' /\ history'[Len(history) + 1] = e
      /\ \A i \in DOMAIN history : i \in DOMAIN history' /\ history'[i] = history[i]
      /\ \A i \in DOMAIN history' : i \in DOMAIN history \/ i = Len(history) + 1
  <2>1. history \in Seq(EntryRecord)
    BY DEF TrueInv, Histories
  <2> QED
    BY <1>3, <1>4, <2>1, OneMore
<1> SUFFICES ASSUME ~clashed'
             PROVE  /\ BaselineKnown'
                    /\ AllDiffer' => \A s \in DOMAIN sends' :
                           Underway(s)' /\ s \notin misread' => ShownAs(s)' /\ SettledLanded(s)'
  BY DEF ShownInv
<1>7. BaselineKnown'
  <2>1. BaselineKnown /\ Len(server') \in Nat
    BY <1>3, MembersTyped DEF ShownInv
  <2> QED
    BY <1>1, <1>3, <2>1, BaselineStays
<1>8. ASSUME AllDiffer', NEW s \in DOMAIN sends', Underway(s)', s \notin misread'
      PROVE  ShownAs(s)' /\ SettledLanded(s)'
  <2>1. CASE s = n
    <3>1. ShownAs(s)'
      BY <1>4, <1>5, <1>6, <2>1 DEF ShownAs
    <3>2. \A i \in DOMAIN history : history[i].id # l
      BY <1>3 DEF InUse, IdsOf
    <3>3. SettledLanded(s)'
      BY <1>4, <1>5, <1>6, <2>1, <3>2 DEF SettledLanded, Unsettled
    <3> QED
      BY <3>1, <3>3
  <2>2. CASE s # n
    <3>1. s \in DOMAIN sends /\ Underway(s) /\ s \notin misread /\ AllDiffer /\ sends'[s] = sends[s]
      BY <1>1, <1>2, <1>3, <1>8, <2>2, DifferBefore
    <3>2. ShownAs(s) /\ SettledLanded(s)
      BY <1>3, <3>1 DEF ShownInv
    <3>3. sends[s].local # l
      BY <1>3, <3>1 DEF InUse
    <3>4. Landed(s) => Landed(s)' /\ ServerId(s)' = ServerId(s)
      BY <1>1, <1>2, <3>1, LandedStays DEF WorldInv
    <3>5. OnPage(s) => OnPage(s)'
      BY <1>1, <1>2, <1>3, <3>1, PageStays DEF WorldInv
    <3>6. ShownAs(s)'
      BY <1>6, <3>1, <3>2, <3>4 DEF ShownAs
    <3>7. SettledLanded(s)'
      BY <1>4, <1>6, <3>1, <3>2, <3>3, <3>5 DEF SettledLanded
    <3> QED
      BY <3>6, <3>7
  <2> QED
    BY <2>1, <2>2
<1> QED
  BY <1>7, <1>8

LEMMA ReportShown ==
    ASSUME KeptInv, WorldInv, TrueInv, ShownInv, CoordinatorReports
    PROVE  ShownInv'
<1> DEFINE e == Head(outputs)
<1>1. /\ outputs # <<>> /\ UNCHANGED <<process, sends, server, load, clashed, misread>>
      /\ \/ e.kind = "changed" /\ Projected(e.send, e.state)
         \/ history' = history
         \/ e.kind = "acknowledged" /\ history' = Acknowledged(history, sends[e.send].local, e.id)
  BY DEF CoordinatorReports, wireVars, ghostVars
<1>2. e \in Event /\ EventTrue(e) /\ \E i \in DOMAIN outputs : outputs[i].send = e.send
  BY <1>1, HeadAndTail DEF WorldInv, ReportsTrue
<1> HIDE DEF e
<1>3. /\ Carried /\ PostsTrue' /\ Len(server') \in Nat
      /\ \A t \in DOMAIN sends : Underway(t)' => Underway(t)
  BY <1>1, StepWorld, StepUnderway, MembersTyped DEF SendsNext, WorldInv
<1>4. BaselineKnown => BaselineKnown'
  BY <1>1, <1>3, BaselineStays
<1>5. history \in Histories
  BY DEF TrueInv
<1>6. ASSUME NEW s \in DOMAIN sends, ~clashed, Underway(s), ShownAs(s), SettledLanded(s)
      PROVE  ShownAs(s)' /\ SettledLanded(s)'
  <2>1. CASE Projected(e.send, e.state)
    BY <1>1, <1>3, <1>5, <1>6, <2>1, ProjectedTrue, ProjectedKept
  <2>2. CASE history' = history
    BY <1>1, <1>3, <1>6, <2>2, HistoryKept
  <2>3. CASE e.kind = "acknowledged" /\ history' = Acknowledged(history, sends[e.send].local, e.id)
    <3>1. /\ e.send \in DOMAIN sends /\ e.id \in DOMAIN server /\ sends[e.send].row = "completed"
          /\ Used(e.send)
      BY <1>2, <2>3 DEF EventTrue, Used
    <3>2. e.id \in Nat \ {0} /\ sends[s].local \in Int /\ sends[s].local < 0
          /\ sends[e.send].local \in Int /\ sends[e.send].local < 0
      BY <3>1, MembersTyped
    <3>3. s # e.send
      <4>1. ~Unresolved(e.send)
        BY <3>1 DEF Unresolved, Waiting, Held
      <4>2. \A i \in DOMAIN lane : lane[i] # e.send
        BY <3>1 DEF WorldInv, LaneFresh
      <4> QED
        BY <1>6, <4>1, <4>2 DEF Underway
    <3>4. sends[s].local # sends[e.send].local
      BY <1>6, <3>1, <3>3 DEF TrueInv, UsedDiffer, Used
    <3>5. /\ DOMAIN history' = DOMAIN history
          /\ \A i \in DOMAIN history :
                history'[i] = IF history[i].id = sends[e.send].local
                              THEN Entry(e.id, history[i].text, "settled") ELSE history[i]
      BY <1>5, <2>3, <3>2, AcknowledgedEntries
    <3>6. \A i \in DOMAIN history : history[i].id # sends[e.send].local => history'[i] = history[i]
      BY <3>5
    <3>7. \A i \in DOMAIN history : history[i].id = sends[e.send].local => history'[i].id = e.id
      BY <3>5 DEF Entry
    <3>8. Landed(s) => /\ Landed(s)' /\ ServerId(s)' = ServerId(s) /\ ServerId(s) \in Nat \ {0}
      BY <1>3, LandedStays
    <3>9. OnPage(s) => OnPage(s)'
      BY <1>1, <1>3, PageStays
    <3>10. ShownAs(s)'
      <4>1. PICK i \in DOMAIN history : \/ history[i].id = sends[s].local
                                        \/ Landed(s) /\ history[i].id = ServerId(s)
        BY <1>6 DEF ShownAs
      <4>2. history[i].id # sends[e.send].local
        BY <3>2, <3>4, <3>8, <4>1
      <4> QED
        BY <1>1, <3>5, <3>6, <3>8, <4>1, <4>2 DEF ShownAs
    <3>11. SettledLanded(s)'
      <4>1. \A i \in DOMAIN history : history'[i].id = sends[s].local => history'[i] = history[i]
        BY <3>2, <3>6, <3>7
      <4> QED
        BY <1>1, <1>6, <3>5, <3>9, <4>1 DEF SettledLanded
    <3> QED
      BY <3>10, <3>11
  <2> QED
    BY <1>1, <2>1, <2>2, <2>3
<1>7. /\ DOMAIN sends' = DOMAIN sends /\ clashed' = clashed /\ misread \subseteq misread'
      /\ process' # "off" => process # "off"
  BY <1>1
<1>8. ~clashed => BaselineKnown'
  BY <1>4 DEF ShownInv
<1>9. \A s \in DOMAIN sends :
          /\ process # "off" /\ ~clashed /\ AllDiffer /\ BaselineKnown
          /\ Underway(s) /\ s \notin misread' /\ ShownAs(s) /\ SettledLanded(s)
          => ShownAs(s)' /\ SettledLanded(s)'
  BY <1>6
<1> QED
  BY <1>3, <1>7, <1>8, <1>9, ShownKept

\* A live message replaces the entry of a send only if it is Telegram's copy of it.
LEMMA UpdateShown ==
    ASSUME KeptInv, WorldInv, TrueInv, ShownInv, ShowUpdate
    PROVE  ShownInv'
<1> DEFINE update == Head(shown)
           m == Entry(update.id, server[update.id].text, "settled")
<1>1. /\ UNCHANGED <<process, sends, server, load, clashed>> /\ shown # <<>>
      /\ \/ history' = Added(history, m) /\ misread' = misread
         \/ misread' = misread \cup { s \in DOMAIN sends : Underway(s) }
  BY DEF ShowUpdate
<1>2. /\ update.id \in DOMAIN server /\ update.id \in Nat \ {0} /\ history \in Histories
      /\ server[update.id].text \in Bodies
  BY <1>1, UpdateNames DEF TrueInv
<1>3. m \in EntryRecord /\ m.id = update.id /\ m.text = server[update.id].text
  BY <1>2 DEF Entry, EntryRecord, Deliveries
<1> HIDE DEF m, update
<1>4. /\ Carried /\ PostsTrue' /\ Len(server') \in Nat
      /\ \A t \in DOMAIN sends : Underway(t)' => Underway(t)
  BY <1>1, StepWorld, StepUnderway, MembersTyped DEF SendsNext, WorldInv
<1>5. BaselineKnown => BaselineKnown'
  BY <1>1, <1>4, BaselineStays
<1>6. ASSUME NEW s \in DOMAIN sends, ~clashed, AllDiffer, Underway(s), s \notin misread',
             ShownAs(s), SettledLanded(s)
      PROVE  ShownAs(s)' /\ SettledLanded(s)'
  <2>1. history' = Added(history, m)
    BY <1>1, <1>6
  <2>2. /\ \A n \in DOMAIN history' : history'[n] = m \/ \E i \in DOMAIN history : history'[n] = history[i]
        /\ \E n \in DOMAIN history' : history'[n] = m
        /\ \A i \in DOMAIN history : history[i].id = m.id \/ Matches(history[i], m)
                                     \/ \E n \in DOMAIN history' : history'[n] = history[i]
    BY <1>2, <1>3, <2>1, AddedEntries
  <2>3. sends[s].local \in Int /\ sends[s].local < 0 /\ s # 0
    BY MembersTyped
  <2>4. Landed(s) => /\ Landed(s)' /\ ServerId(s)' = ServerId(s) /\ ServerId(s) \in Nat \ {0}
    BY <1>4, LandedStays
  <2>5. OnPage(s) => OnPage(s)'
    BY <1>1, <1>4, PageStays
  <2>6. ShownAs(s)'
    <3>1. PICK i \in DOMAIN history : \/ history[i].id = sends[s].local
                                      \/ Landed(s) /\ history[i].id = ServerId(s)
      BY <1>6 DEF ShownAs
    <3>2. CASE \E n \in DOMAIN history' : history'[n] = history[i]
      BY <1>1, <2>4, <3>1, <3>2 DEF ShownAs
    <3>3. CASE history[i].id = m.id
      <4>1. Landed(s) /\ m.id = ServerId(s)
        BY <1>2, <1>3, <2>3, <3>1, <3>3
      <4> QED
        BY <2>2, <2>4, <4>1 DEF ShownAs
    <3>4. CASE Matches(history[i], m)
      <4>1. history[i].id = sends[s].local
        BY <2>4, <3>1, <3>4 DEF Matches
      <4>2. history[i].text = sends[s].text
        BY <1>6, <4>1 DEF TrueInv, HistoryTrue, EntryTrue, TrueAt, Used
      <4>3. server[update.id].text = sends[s].text
        BY <1>3, <3>4, <4>2 DEF Matches
      <4>4. server[update.id].send = s
        BY <1>2, <1>6, <4>3 DEF AllDiffer, WorldInv, PostsTrue
      <4>5. Landed(s) /\ ServerId(s) = update.id
        <5>1. \A j \in DOMAIN server : server[j].send = s => j = update.id
          BY <1>2, <2>3, <4>4 DEF WorldInv, PostsTrue
        <5> QED
          BY <1>2, <4>4, <5>1 DEF Landed, ServerId
      <4> QED
        BY <1>3, <2>2, <2>4, <4>5 DEF ShownAs
    <3> QED
      BY <2>2, <3>2, <3>3, <3>4
  <2>7. SettledLanded(s)'
    <3>1. m.id # sends[s].local
      BY <1>2, <1>3, <2>3
    <3> QED
      BY <1>1, <1>6, <2>2, <2>5, <3>1 DEF SettledLanded
  <2> QED
    BY <2>6, <2>7
<1>7. /\ DOMAIN sends' = DOMAIN sends /\ clashed' = clashed /\ misread \subseteq misread'
      /\ process' # "off" => process # "off"
  BY <1>1
<1>8. ~clashed => BaselineKnown'
  BY <1>5 DEF ShownInv
<1>9. \A s \in DOMAIN sends :
          /\ process # "off" /\ ~clashed /\ AllDiffer /\ BaselineKnown
          /\ Underway(s) /\ s \notin misread' /\ ShownAs(s) /\ SettledLanded(s)
          => ShownAs(s)' /\ SettledLanded(s)'
  BY <1>6
<1> QED
  BY <1>4, <1>7, <1>8, <1>9, ShownKept

\* A step that leaves the history alone, and the load or drops it.
LEMMA SameShown ==
    ASSUME KeptInv, WorldInv, ShownInv, SendsNext, DOMAIN sends' = DOMAIN sends,
           UNCHANGED <<history, clashed, misread>>, process' # "off" => process # "off",
           load' = load \/ load' = NoLoad
    PROVE  ShownInv'
<1>1. /\ Carried /\ PostsTrue' /\ Len(server') \in Nat
      /\ \A t \in DOMAIN sends : Underway(t)' => Underway(t)
  <2>1. Carried /\ KeptInv' /\ WorldInv'
    BY StepWorld
  <2>2. Len(server') \in Nat
    BY <2>1, LenProperties DEF KeptInv, ServerTyped
  <2> QED
    BY <2>1, <2>2, StepUnderway DEF WorldInv
<1>2. BaselineKnown => BaselineKnown'
  BY <1>1, BaselineStays
<1>3. ~clashed => BaselineKnown'
  BY <1>2 DEF ShownInv
<1>4. load' = load \/ load'.pc \notin {"answered", "saved"}
  BY DEF NoLoad
<1>5. \A s \in DOMAIN sends :
          /\ process # "off" /\ ~clashed /\ AllDiffer /\ BaselineKnown
          /\ Underway(s) /\ s \notin misread' /\ ShownAs(s) /\ SettledLanded(s)
          => ShownAs(s)' /\ SettledLanded(s)'
  BY <1>1, <1>4, HistoryKept
<1> QED
  BY <1>1, <1>3, <1>5, ShownKept

\* What an item is shown with is unsettled.
LEMMA ItemShown ==
    ASSUME KeptInv, WorldInv, TrueInv, ShownInv, SendsNext, DOMAIN sends' = DOMAIN sends,
           UNCHANGED <<process, load, clashed, misread>>,
           NEW t, NEW state, Projected(t, state)
    PROVE  ShownInv'
<1>1. /\ Carried /\ PostsTrue' /\ Len(server') \in Nat
      /\ \A s \in DOMAIN sends : Underway(s)' => Underway(s)
  <2>1. Carried /\ KeptInv' /\ WorldInv'
    BY StepWorld
  <2>2. Len(server') \in Nat
    BY <2>1, LenProperties DEF KeptInv, ServerTyped
  <2> QED
    BY <2>1, <2>2, StepUnderway DEF WorldInv
<1>2. BaselineKnown => BaselineKnown'
  BY <1>1, BaselineStays
<1>3. ~clashed => BaselineKnown'
  BY <1>2 DEF ShownInv
<1>4. /\ SameButDelivery(history', history)
      /\ \A i \in DOMAIN history : history'[i] = history[i] \/ history'[i].delivery \in Unsettled
  BY ProjectedTrue DEF TrueInv
<1>5. \A s \in DOMAIN sends :
          /\ process # "off" /\ ~clashed /\ AllDiffer /\ BaselineKnown
          /\ Underway(s) /\ s \notin misread' /\ ShownAs(s) /\ SettledLanded(s)
          => ShownAs(s)' /\ SettledLanded(s)'
  BY <1>1, <1>4, ProjectedKept
<1> QED
  BY <1>1, <1>3, <1>5, ShownKept

\* What is shown while the page is asked for, fetched and stored.
LEMMA RequestShown ==
    ASSUME KeptInv, WorldInv, TrueInv, ShownInv, AskHistory \/ AnswerHistory \/ SaveHistory
    PROVE  ShownInv'
<1>1. /\ UNCHANGED <<process, sends, server, history, clashed, misread>>
  BY DEF AskHistory, AnswerHistory, SaveHistory, viewVars, wireVars, ghostVars
<1>2. /\ Carried /\ PostsTrue' /\ Len(server) \in Nat
      /\ \A t \in DOMAIN sends : Underway(t)' => Underway(t)
  BY StepWorld, StepUnderway, MembersTyped DEF SendsNext, WorldInv
<1>3. CASE AskHistory
  <2>1. load' = [pc |-> "asked", baseline |-> IdsOf(history), page |-> 0]
    BY <1>3 DEF AskHistory
  <2>2. load'.pc = "asked" /\ load'.baseline = IdsOf(history)
    BY <2>1
  <2>3. ASSUME ~clashed, NEW id \in IdsOf(history) PROVE id \in Int /\ id <= Len(server)
    <3>1. PICK i \in DOMAIN history : history[i].id = id
      BY <2>3 DEF IdsOf
    <3>2. history[i] \in EntryRecord /\ EntryTrue(history[i])
      <4>1. history \in Seq(EntryRecord) /\ HistoryTrue
        BY <2>3 DEF TrueInv, Histories
      <4> QED
        BY <3>1, <4>1, ElementOfSeq, LenProperties DEF HistoryTrue
    <3>3. id \in Int /\ (id > 0 => id \in DOMAIN server)
      BY <3>1, <3>2 DEF EntryRecord, EntryTrue, TrueAt
    <3>4. DOMAIN server = 1..Len(server)
      BY MembersTyped
    <3> QED
      BY <1>2, <3>3, <3>4
  <2>4. ~clashed => BaselineKnown'
    BY <1>1, <2>2, <2>3 DEF BaselineKnown
  <2>5. \A s \in DOMAIN sends :
            /\ process # "off" /\ ~clashed /\ AllDiffer /\ BaselineKnown
            /\ Underway(s) /\ s \notin misread' /\ ShownAs(s) /\ SettledLanded(s)
            => ShownAs(s)' /\ SettledLanded(s)'
    <3>1. load'.pc \notin {"answered", "saved"}
      BY <2>2
    <3> QED
      BY <1>1, <1>2, <3>1, HistoryKept
  <2> QED
    BY <1>1, <1>2, <2>4, <2>5, ShownKept
<1>4. CASE AnswerHistory
  <2>1. load.pc = "asked" /\ load' = [load EXCEPT !.pc = "answered", !.page = Len(server)]
    BY <1>4 DEF AnswerHistory
  <2>2. load'.pc = "answered" /\ load'.page = Len(server) /\ load'.baseline = load.baseline
    BY <2>1 DEF KeptInv, SendsTyped
  <2>3. ~clashed => BaselineKnown'
    BY <2>1, <2>2 DEF BaselineKnown, ShownInv
  <2>4. \A s \in DOMAIN sends :
            /\ process # "off" /\ ~clashed /\ AllDiffer /\ BaselineKnown
            /\ Underway(s) /\ s \notin misread' /\ ShownAs(s) /\ SettledLanded(s)
            => ShownAs(s)' /\ SettledLanded(s)'
    BY <1>1, <1>2, <2>2, HistoryKept
  <2> QED
    BY <1>1, <1>2, <2>3, <2>4, ShownKept
<1>5. CASE SaveHistory
  <2>1. load.pc = "answered" /\ load' = [load EXCEPT !.pc = "saved"]
    BY <1>5 DEF SaveHistory
  <2>2. load'.pc = "saved" /\ load'.page = load.page /\ load'.baseline = load.baseline
    BY <2>1 DEF KeptInv, SendsTyped
  <2>3. ~clashed => BaselineKnown'
    BY <2>1, <2>2 DEF BaselineKnown, ShownInv
  <2>4. \A s \in DOMAIN sends :
            /\ process # "off" /\ ~clashed /\ AllDiffer /\ BaselineKnown
            /\ Underway(s) /\ s \notin misread' /\ ShownAs(s) /\ SettledLanded(s)
            => ShownAs(s)' /\ SettledLanded(s)'
    BY <1>1, <1>2, <2>1, <2>2, HistoryKept
  <2> QED
    BY <1>1, <1>2, <2>3, <2>4, ShownKept
<1> QED
  BY <1>3, <1>4, <1>5

\* A loaded history takes from what was shown only what it holds itself.
LEMMA LoadShown ==
    ASSUME KeptInv, WorldInv, TrueInv, ShownInv, ShowHistory
    PROVE  ShownInv'
<1> DEFINE n == load.page
<1>1. /\ load.pc = "saved" /\ load' = NoLoad
      /\ history' = Refreshed(history, n, load.baseline)
      /\ UNCHANGED <<process, sends, server, clashed, misread>>
  BY DEF ShowHistory, wireVars, ghostVars
<1>2. /\ Carried /\ PostsTrue' /\ Len(server') \in Nat
      /\ \A t \in DOMAIN sends : Underway(t)' => Underway(t)
  BY <1>1, StepWorld, StepUnderway, MembersTyped DEF SendsNext, WorldInv
<1>3. ~clashed => BaselineKnown'
  BY <1>1 DEF BaselineKnown, NoLoad
<1>4. /\ server \in Seq(Post) /\ history \in Histories /\ n \in Nat /\ n <= Len(server)
  BY DEF KeptInv, ServerTyped, WorldInv, UpdatesTrue, TrueInv
<1>5. /\ \A k \in DOMAIN history' :
            \/ \E i \in 1..n : history'[k] = Entry(i, server[i].text, "settled")
            \/ \E i \in DOMAIN history : history'[k] = history[i]
      /\ \A i \in 1..n : \E k \in DOMAIN history' : history'[k].id = i
      /\ \A i \in DOMAIN history :
            history[i].id \notin 1..n /\ Retained(history[i], load.baseline) =>
                \E k \in DOMAIN history' : history'[k].id = history[i].id
  BY <1>1, <1>4, RefreshedEntries
<1> HIDE DEF n
<1>6. ASSUME NEW s \in DOMAIN sends, BaselineKnown, ShownAs(s), SettledLanded(s)
      PROVE  ShownAs(s)' /\ SettledLanded(s)'
  <2>1. sends[s].local \in Int /\ sends[s].local < 0 /\ sends' = sends
    BY <1>1, MembersTyped
  <2>2. Landed(s) => /\ Landed(s)' /\ ServerId(s)' = ServerId(s) /\ ServerId(s) \in Nat \ {0}
    BY <1>2, LandedStays
  <2>3. OnPage(s) => Landed(s) /\ ServerId(s) <= n
    BY <1>1 DEF OnPage, n
  <2>4. ASSUME Landed(s), ServerId(s) <= n PROVE ShownAs(s)'
    <3>1. ServerId(s) \in 1..n
      BY <1>4, <2>2, <2>4
    <3> QED
      BY <1>5, <2>2, <2>4, <3>1 DEF ShownAs
  <2>5. ShownAs(s)'
    <3>1. PICK i \in DOMAIN history : \/ history[i].id = sends[s].local
                                      \/ Landed(s) /\ history[i].id = ServerId(s)
      BY <1>6 DEF ShownAs
    <3>2. CASE history[i].id = sends[s].local
      <4>1. history[i].id \notin 1..n
        BY <1>4, <2>1, <3>2
      <4>2. CASE history[i].delivery \in Unsettled
        <5>1. Retained(history[i], load.baseline)
          BY <4>2 DEF Retained
        <5>2. PICK k \in DOMAIN history' : history'[k].id = history[i].id
          BY <1>5, <4>1, <5>1
        <5> QED
          BY <2>1, <3>2, <5>2 DEF ShownAs
      <4>3. CASE history[i].delivery \notin Unsettled
        <5>1. OnPage(s)
          BY <1>6, <3>2, <4>3 DEF SettledLanded
        <5> QED
          BY <2>3, <2>4, <5>1
      <4> QED
        BY <4>2, <4>3
    <3>3. CASE Landed(s) /\ history[i].id = ServerId(s)
      <4>1. CASE ServerId(s) <= n
        BY <2>4, <3>3, <4>1
      <4>2. CASE ~(ServerId(s) <= n)
        <5>1. history[i].id \notin 1..n
          BY <3>3, <4>2
        <5>2. history[i].id \notin load.baseline
          BY <1>1, <1>6, <3>3, <4>2 DEF BaselineKnown, n
        <5>3. Retained(history[i], load.baseline)
          BY <5>2 DEF Retained
        <5>4. PICK k \in DOMAIN history' : history'[k].id = history[i].id
          BY <1>5, <5>1, <5>3
        <5> QED
          BY <2>2, <3>3, <5>4 DEF ShownAs
      <4> QED
        BY <4>1, <4>2
    <3> QED
      BY <3>1, <3>2, <3>3
  <2>6. SettledLanded(s)'
    <3>1. ASSUME NEW k \in DOMAIN history', history'[k].id = sends[s].local,
                 history'[k].delivery \notin Unsettled
          PROVE  Landed(s)
      <4>1. ASSUME NEW i \in 1..n PROVE history'[k] # Entry(i, server[i].text, "settled")
        <5>1. i # sends[s].local
          BY <1>4, <2>1
        <5> QED
          BY <3>1, <5>1 DEF Entry
      <4>2. PICK i \in DOMAIN history : history'[k] = history[i]
        BY <1>5, <4>1
      <4> QED
        BY <1>6, <2>3, <3>1, <4>2 DEF SettledLanded
    <3>2. load'.pc \notin {"answered", "saved"}
      BY <1>1 DEF NoLoad
    <3> QED
      BY <2>1, <2>2, <3>1, <3>2 DEF SettledLanded, OnPage
  <2> QED
    BY <2>5, <2>6
<1>7. \A s \in DOMAIN sends :
          /\ process # "off" /\ ~clashed /\ AllDiffer /\ BaselineKnown
          /\ Underway(s) /\ s \notin misread' /\ ShownAs(s) /\ SettledLanded(s)
          => ShownAs(s)' /\ SettledLanded(s)'
  BY <1>6
<1> QED
  BY <1>1, <1>2, <1>3, <1>7, ShownKept

\* A restored connection has what Telegram has or what is stored, and what was
\* shown as unsettled.
LEMMA ReconnectShown ==
    ASSUME KeptInv, WorldInv, TrueInv, ShownInv, NEW first \in BOOLEAN, Reconnect(first)
    PROVE  ShownInv'
<1> DEFINE base == IF first THEN Page(Len(server)) ELSE Cached(disk)
<1>1. /\ history' = Merged(base, history) /\ process = "offline"
      /\ UNCHANGED <<server, load, clashed, misread>>
  BY DEF Reconnect, wireVars, ghostVars
<1>2. /\ Carried /\ PostsTrue' /\ Len(server') \in Nat /\ DOMAIN sends' = DOMAIN sends
      /\ \A t \in DOMAIN sends : Underway(t)' => Underway(t)
  BY <1>1, StepWorld, StepUnderway, StepKeeps, ReturnWorld, MembersTyped DEF SendsNext, WorldInv
<1>3. BaselineKnown => BaselineKnown'
  BY <1>1, <1>2, BaselineStays
<1>4. ~clashed => BaselineKnown'
  BY <1>3 DEF ShownInv
<1>5. /\ Len(server) \in Nat /\ DOMAIN server = 1..Len(server) /\ server \in Seq(Post)
      /\ history \in Histories /\ StoredAs(disk)
      /\ DOMAIN disk \in SUBSET Int
  BY MembersTyped DEF KeptInv, ServerTyped, DiskTyped, StoredMessage, WorldInv, StoredTyped, TrueInv
<1>6. /\ Page(Len(server)) \in Histories /\ DOMAIN Page(Len(server)) = 1..Len(server)
      /\ \A i \in 1..Len(server) : Page(Len(server))[i] = Entry(i, server[i].text, "settled")
  BY <1>5, PageEntries
<1>7. /\ Cached(disk) \in Histories
      /\ \A id \in DOMAIN disk : \E k \in DOMAIN Cached(disk) :
            Cached(disk)[k] = Entry(id, disk[id].text, disk[id].delivery)
  BY <1>5, CachedEntries DEF StoredAs
<1>8. /\ base \in Histories
      /\ first => \A i \in DOMAIN server : \E k \in DOMAIN base : base[k].id = i
      /\ ~first => \A id \in DOMAIN disk : \E k \in DOMAIN base : base[k].id = id
  BY <1>5, <1>6, <1>7 DEF Entry
<1> HIDE DEF base
<1>9. /\ \A k \in DOMAIN history' :
            \/ \E i \in DOMAIN base :
                  /\ history'[k] = base[i]
                  /\ \A j \in DOMAIN history :
                        history[j].id = base[i].id => history[j].delivery \notin Unsettled
            \/ \E i \in DOMAIN history : history'[k] = history[i] /\ history[i].delivery \in Unsettled
      /\ \A i \in DOMAIN base : \E k \in DOMAIN history' : history'[k].id = base[i].id
      /\ \A i \in DOMAIN history : history[i].delivery \in Unsettled =>
            \E k \in DOMAIN history' : history'[k].id = history[i].id
  BY <1>1, <1>5, <1>8, MergedEntries
<1>10. ASSUME NEW s \in DOMAIN sends, ~clashed, Underway(s), ShownAs(s), SettledLanded(s)
       PROVE  ShownAs(s)' /\ SettledLanded(s)'
  <2>1. sends'[s].local = sends[s].local
    BY <1>2 DEF Carried
  <2>2. Landed(s) => /\ Landed(s)' /\ ServerId(s)' = ServerId(s) /\ ServerId(s) \in DOMAIN server
    BY <1>2, LandedStays
  <2>3. load'.pc \notin {"answered", "saved"}
    BY <1>1 DEF WorldInv, SessionGone, NoLoad
  <2>4. PICK i \in DOMAIN history : \/ history[i].id = sends[s].local
                                    \/ Landed(s) /\ history[i].id = ServerId(s)
    BY <1>10 DEF ShownAs
  <2>5. history[i].delivery \in Unsettled \/ Landed(s)
    BY <1>10, <2>4 DEF SettledLanded, OnPage
  <2>6. ShownAs(s)'
    <3>1. CASE history[i].delivery \in Unsettled
      <4>1. PICK k \in DOMAIN history' : history'[k].id = history[i].id
        BY <1>9, <3>1
      <4> QED
        BY <2>1, <2>2, <2>4, <4>1 DEF ShownAs
    <3>2. CASE Landed(s) /\ first
      <4>1. PICK b \in DOMAIN base : base[b].id = ServerId(s)
        BY <1>8, <2>2, <3>2
      <4>2. PICK k \in DOMAIN history' : history'[k].id = base[b].id
        BY <1>9
      <4> QED
        BY <2>2, <3>2, <4>1, <4>2 DEF ShownAs
    <3>3. CASE Landed(s) /\ ~first
      <4>1. Unresolved(s)
        BY <1>10, <3>3, LaneNotLanded
      <4>2. sends[s].local \in DOMAIN disk
        BY <1>10, <4>1 DEF KeptInv, OptimisticKept
      <4>3. PICK b \in DOMAIN base : base[b].id = sends[s].local
        BY <1>8, <3>3, <4>2
      <4>4. PICK k \in DOMAIN history' : history'[k].id = base[b].id
        BY <1>9
      <4> QED
        BY <2>1, <4>3, <4>4 DEF ShownAs
    <3> QED
      BY <2>5, <3>1, <3>2, <3>3
  <2>7. SettledLanded(s)'
    <3>1. ASSUME NEW k \in DOMAIN history', history'[k].id = sends[s].local,
                 history'[k].delivery \notin Unsettled
          PROVE  Landed(s)
      <4>1. \A j \in DOMAIN history : history[j].id = sends[s].local => history[j].delivery \notin Unsettled
        BY <1>9, <3>1
      <4> QED
        BY <2>4, <2>5, <4>1
    <3> QED
      BY <2>1, <2>2, <2>3, <3>1 DEF SettledLanded, OnPage
  <2> QED
    BY <2>6, <2>7
<1>11. \A s \in DOMAIN sends :
           /\ process # "off" /\ ~clashed /\ AllDiffer /\ BaselineKnown
           /\ Underway(s) /\ s \notin misread' /\ ShownAs(s) /\ SettledLanded(s)
           => ShownAs(s)' /\ SettledLanded(s)'
  BY <1>10
<1>12. clashed' = clashed /\ misread \subseteq misread' /\ (process' # "off" => process # "off")
  BY <1>1
<1> QED
  BY <1>2, <1>4, <1>11, <1>12, ShownKept

\* A process that starts has only the outbox, and what it stored is shown.
LEMMA LaunchShown ==
    ASSUME KeptInv, WorldInv, TrueInv, ShownInv, Launch
    PROVE  ShownInv'
<1>1. /\ history' = WithOutbox(Cached(disk), sends') /\ process = "off"
      /\ UNCHANGED <<lane, server, load, clashed, misread>>
  BY DEF Launch, wireVars, ghostVars
<1>2. /\ Carried /\ PostsTrue' /\ Len(server') \in Nat /\ DOMAIN sends' = DOMAIN sends
      /\ \A t \in DOMAIN sends : Underway(t)' => Underway(t)
  BY <1>1, StepWorld, StepUnderway, StepKeeps, ReturnWorld, MembersTyped DEF SendsNext, WorldInv
<1>3. BaselineKnown => BaselineKnown'
  BY <1>1, <1>2, BaselineStays
<1>4. StoredAs(disk) /\ DOMAIN disk \in SUBSET Int
  BY DEF KeptInv, DiskTyped, StoredMessage, WorldInv, StoredTyped
<1>5. /\ Cached(disk) \in Histories
      /\ \A id \in DOMAIN disk : \E k \in DOMAIN Cached(disk) :
            Cached(disk)[k] = Entry(id, disk[id].text, disk[id].delivery)
  BY <1>4, CachedEntries DEF StoredAs
<1>6. \A id \in DOMAIN disk : \E k \in DOMAIN Cached(disk) : Cached(disk)[k].id = id
  BY <1>5 DEF Entry
<1>7. PICK items : items = sends'
  OBVIOUS
<1>8. /\ SameButDelivery(WithOutbox(Cached(disk), items), Cached(disk))
      /\ \A i \in DOMAIN Cached(disk), s \in DOMAIN items :
            items[s].local = Cached(disk)[i].id /\ items[s].row \in Waiting \cup Held
            => WithOutbox(Cached(disk), items)[i].delivery \in Unsettled
  BY <1>5, WithOutboxEntries
<1>9. /\ DOMAIN history' = DOMAIN Cached(disk)
      /\ \A i \in DOMAIN Cached(disk) : history'[i].id = Cached(disk)[i].id
      /\ \A i \in DOMAIN Cached(disk), s \in DOMAIN sends' :
            sends'[s].local = Cached(disk)[i].id /\ sends'[s].row \in Waiting \cup Held
            => history'[i].delivery \in Unsettled
  BY <1>1, <1>7, <1>8 DEF SameButDelivery
<1>10. ASSUME ~clashed, NEW s \in DOMAIN sends, Underway(s)'
       PROVE  ShownAs(s)' /\ SettledLanded(s)'
  <2>1. lane' = <<>> /\ lane = <<>>
    BY <1>1 DEF WorldInv, SessionGone
  <2>2. Unresolved(s)' /\ Unresolved(s)
    BY <1>2, <1>10, <2>1 DEF Underway
  <2>3. s \in DOMAIN sends' /\ sends'[s].local = sends[s].local
        /\ sends'[s].row \in Waiting \cup Held
    BY <1>2, <2>2 DEF Carried, Unresolved
  <2>4. sends[s].local \in DOMAIN disk
    BY <1>10, <2>2 DEF KeptInv, OptimisticKept
  <2>5. PICK k \in DOMAIN Cached(disk) : Cached(disk)[k].id = sends[s].local
    BY <1>6, <2>4
  <2>6. ShownAs(s)'
    BY <1>9, <2>3, <2>5 DEF ShownAs
  <2>7. SettledLanded(s)'
    BY <1>9, <2>3 DEF SettledLanded
  <2> QED
    BY <2>6, <2>7
<1> QED
  BY <1>1, <1>2, <1>3, <1>10 DEF ShownInv

LEMMA StepShown ==
    ASSUME KeptInv, WorldInv, TrueInv, ShownInv, SendsNext
    PROVE  ShownInv'
<1>1. CASE \E text \in Bodies : Send(text)
  BY <1>1, SendShown
<1>2. CASE Admit
  <2>1. DOMAIN sends' = DOMAIN sends
    BY <1>2, AdmitKeeps, AdmitWorld
  <2>2. UNCHANGED <<process, load, clashed, misread>> /\ Projected(Head(lane), "ready")
    BY <1>2 DEF Admit, ghostVars
  <2> QED
    BY <2>1, <2>2, ItemShown
<1>3. ASSUME NEW s \in DOMAIN sends, Retry(s) PROVE ShownInv'
  <2>1. DOMAIN sends' = DOMAIN sends
    BY <1>3, DecisionWorld
  <2>2. UNCHANGED <<process, load, clashed, misread>> /\ Projected(s, "ready")
    BY <1>3 DEF Retry, ghostVars
  <2> QED
    BY <2>1, <2>2, ItemShown
<1>4. ASSUME NEW s \in DOMAIN sends, Dismiss(s) \/ Claim(s) \/ Complete(s) \/ Refuse(s)
      PROVE  ShownInv'
  <2>1. DOMAIN sends' = DOMAIN sends
    BY <1>4, DecisionWorld, AttemptWorld, CompleteWorld
  <2>2. UNCHANGED <<process, history, load, clashed, misread>>
    BY <1>4 DEF Dismiss, Claim, Complete, Refuse, viewVars, ghostVars
  <2> QED
    BY <2>1, <2>2, SameShown
<1>5. CASE CoordinatorReports
  BY <1>5, ReportShown
<1>6. CASE ShowUpdate
  BY <1>6, UpdateShown
<1>7. CASE AskHistory \/ AnswerHistory \/ SaveHistory
  BY <1>7, RequestShown
<1>8. CASE ShowHistory
  BY <1>8, LoadShown
<1>9. CASE Launch
  BY <1>9, LaunchShown
<1>10. CASE \E first \in BOOLEAN : Reconnect(first)
  BY <1>10, ReconnectShown
<1>11. CASE \/ \E text \in Bodies : PostedElsewhere(text)
            \/ \E s \in wire : Lands(s)
            \/ ReadElsewhere \/ CommitUpdate \/ Disconnect
  <2>1. sends' = sends /\ UNCHANGED <<history, clashed, misread>>
    BY <1>11 DEF PostedElsewhere, Lands, ReadElsewhere, CommitUpdate, Disconnect, viewVars, ghostVars
  <2>2. load' = load \/ load' = NoLoad
    BY <1>11 DEF PostedElsewhere, Lands, ReadElsewhere, CommitUpdate, Disconnect, SessionLost
  <2>3. process' # "off" => process # "off"
    BY <1>11 DEF PostedElsewhere, Lands, ReadElsewhere, CommitUpdate, Disconnect
  <2> QED
    BY <2>1, <2>2, <2>3, SameShown
<1>12. CASE Stop
  <2>1. process' = "off" /\ load' = NoLoad
    BY <1>12 DEF Stop, SessionLost
  <2> QED
    BY <2>1 DEF ShownInv, BaselineKnown, NoLoad
<1> QED
  BY <1>1, <1>2, <1>3, <1>4, <1>5, <1>6, <1>7, <1>8, <1>9, <1>10, <1>11, <1>12 DEF SendsNext

-----------------------------------------------------------------------------

ShownLayers == KeptInv /\ WorldInv /\ TrueInv /\ ShownInv

LEMMA InitShown == SendsInit => ShownLayers
<1> SUFFICES ASSUME SendsInit PROVE TrueInv /\ ShownInv
  BY InitKept, InitWorld DEF ShownLayers
<1>1. /\ sends = <<>> /\ history = <<>> /\ disk = <<>> /\ load = NoLoad
      /\ DOMAIN sends = {} /\ DOMAIN history = {} /\ DOMAIN disk = {}
  BY DEF SendsInit
<1>2. history \in Histories
  BY <1>1, EmptySeq DEF Histories
<1>3. TrueInv
  BY <1>1, <1>2 DEF TrueInv, UsedDiffer, HistoryTrue, StoredTrue
<1>4. ShownInv
  BY <1>1 DEF ShownInv, BaselineKnown, NoLoad
<1> QED
  BY <1>3, <1>4

LEMMA StepLayers == ShownLayers /\ [SendsNext]_sendsVars => ShownLayers'
<1> SUFFICES ASSUME ShownLayers, [SendsNext]_sendsVars PROVE ShownLayers'
  OBVIOUS
<1>1. CASE SendsNext
  BY <1>1, StepWorld, StepTrue, StepShown DEF ShownLayers
<1>2. CASE UNCHANGED sendsVars
  <2>1. /\ UNCHANGED <<process, sends, nextLocal, history, lane, outputs, server, wire, live>>
        /\ UNCHANGED <<shown, load, disk, clashed, misread>>
    BY <1>2 DEF sendsVars, viewVars, wireVars, ghostVars
  <2>2. KeptInv'
    BY <1>2, StepKeeps DEF ShownLayers
  <2>3. \A s : Unresolved(s)' <=> Unresolved(s)
    BY <2>1 DEF Unresolved
  <2>4. \A s : (Underway(s)' <=> Underway(s)) /\ (Used(s)' <=> Used(s))
    BY <2>1, <2>3 DEF Underway, Used
  <2>5. \A s : (Landed(s)' <=> Landed(s)) /\ ServerId(s)' = ServerId(s)
    BY <2>1 DEF Landed, ServerId
  <2>6. WorldInv'
    <3>1. PostsTrue' /\ SentAdmitted' /\ LaneFresh'
      BY <2>1, <2>5 DEF ShownLayers, WorldInv, PostsTrue, SentAdmitted, LaneFresh
    <3>2. ReportsTrue' /\ UpdatesTrue'
      BY <2>1 DEF ShownLayers, WorldInv, ReportsTrue, EventTrue, UpdatesTrue
    <3>3. StoredTyped' /\ SessionGone'
      BY <2>1 DEF ShownLayers, WorldInv, StoredTyped, SessionGone
    <3> QED
      BY <3>1, <3>2, <3>3 DEF WorldInv
  <2>7. \A id, text : TrueAt(id, text)' <=> TrueAt(id, text)
    BY <2>1, <2>4 DEF TrueAt
  <2>8. TrueInv'
    BY <2>1, <2>4, <2>7 DEF ShownLayers, TrueInv, UsedDiffer, HistoryTrue, StoredTrue, EntryTrue
  <2>9. \A s : (ShownAs(s)' <=> ShownAs(s)) /\ (SettledLanded(s)' <=> SettledLanded(s))
    BY <2>1, <2>5 DEF ShownAs, SettledLanded, OnPage
  <2>10. ShownInv'
    BY <2>1, <2>4, <2>9 DEF ShownLayers, ShownInv, BaselineKnown, AllDiffer
  <2> QED
    BY <2>2, <2>6, <2>8, <2>10 DEF ShownLayers
<1> QED
  BY <1>1, <1>2

\* What the reducer shows under an identity of Telegram says what Telegram's
\* message says: an acknowledgement of one message never renames the entry of
\* another (messaging.rs acknowledge_message, message_write.rs), and neither
\* does a live message, a loaded page, the cache or a restored connection, for
\* any number of sends and of such events, as long as no local identity was
\* given out while in use.
THEOREM ServerEntriesTrueAlways == SendsSpec => []ServerEntriesTrue
<1>1. ShownLayers => ServerEntriesTrue
  BY DEF ShownLayers, TrueInv, HistoryTrue, EntryTrue, TrueAt, ServerEntriesTrue
<1> QED
  BY InitShown, StepLayers, <1>1, PTL DEF SendsSpec

\* A message under way is shown while the process runs, as itself or as the
\* copy Telegram has of it, whatever the reducer does to the history meanwhile:
\* reports, live messages, loaded pages (history.rs should_retain_cached),
\* restored connections (merge_restored_connection) and restarts; for any
\* number of sends and of such events, but for what a receipt settled too early,
\* for messages that say the same and for identities given out twice.
THEOREM UnderwayShownAlways == SendsSpec => []UnderwayShown
<1>1. ShownLayers => UnderwayShown
  BY DEF ShownLayers, ShownInv, ShownAs, UnderwayShown
<1> QED
  BY InitShown, StepLayers, <1>1, PTL DEF SendsSpec

-----------------------------------------------------------------------------
(* HistoryLoads: what the steps of the reducer leave alone.                  *)

Fields == {"key", "focus", "loading", "topics", "cached", "unread", "active", "baseline",
           "queued", "refreshed", "cursor", "remaining", "readPending", "smallActive",
           "previews", "avatars", "shown", "failed", "kept", "offActive", "offQueued"}

\* The reducer's fields, and the types of those that decide about requests.
IsApp(a) ==
    /\ a = [f \in Fields |-> a[f]]
    /\ a.key \in HistoryKeys
    /\ a.active \in HistoryKeys \cup {NoKey} /\ a.queued \in HistoryKeys \cup {NoKey}
    /\ a.cached \in [HistoryKeys -> SUBSET Messages]
    /\ a.cursor \in Nat /\ a.remaining \in Nat

\* The histories and the load under way are the same.
SameLoads(a, b) ==
    IsApp(b) /\ b.active = a.active /\ b.baseline = a.baseline /\ b.cached = a.cached

IsLoad(e) == e # NoEffect /\ e.kind = "load"

Requests == [kind : {"load", "read"}, key : HistoryKeys, page : {NoPage}]

\* A step that asks for a history waits for none before it and for that one
\* after it, and takes what is cached as the baseline; any other step goes on
\* waiting for what it waited for.
Asks(a, s) ==
    /\ IsApp(s.app) /\ s.app.cached = a.cached
    /\ s.effect = NoEffect \/ s.effect.kind \in {"small", "offline"} \/ s.effect \in Requests
    /\ IF IsLoad(s.effect)
       THEN /\ a.active = NoKey
            /\ s.app.active \in HistoryKeys /\ s.effect = LoadEffect(s.app.active)
            /\ s.app.baseline = a.cached[s.app.active]
       ELSE s.app.active = a.active /\ s.app.baseline = a.baseline

LEMMA SameAsks ==
    ASSUME NEW a, NEW b, NEW s, SameLoads(a, b), Asks(b, s)
    PROVE  Asks(a, s)
  BY DEF SameLoads, Asks

LEMMA AsksThen ==
    ASSUME NEW a, NEW s, NEW t, Asks(a, s), s.effect = NoEffect, Asks(s.app, t)
    PROVE  Asks(a, t)
  BY DEF Asks, IsLoad

LEMMA Silent ==
    ASSUME NEW a, NEW b, SameLoads(a, b)
    PROVE  Asks(a, Step(b, NoEffect))
  BY DEF SameLoads, Asks, Step, IsLoad

LEMMA ViewSame ==
    ASSUME NEW a, IsApp(a), NEW k \in HistoryKeys, NEW focus
    PROVE  SameLoads(a, View(a, k, focus)) /\ View(a, k, focus).key = k
  BY DEF View, SameLoads, IsApp, Fields

LEMMA QueuesSame ==
    ASSUME NEW a, IsApp(a), NEW c
    PROVE  /\ SameLoads(a, QueuePreviews(a)) /\ QueuePreviews(a).key = a.key
           /\ SameLoads(a, QueueAvatars(a)) /\ QueueAvatars(a).key = a.key
           /\ SameLoads(a, QueueOffline(a, c)) /\ QueueOffline(a, c).key = a.key
           /\ SameLoads(a, DeferRead(a)) /\ DeferRead(a).key = a.key
<1>1. SameLoads(a, QueuePreviews(a)) /\ QueuePreviews(a).key = a.key
  BY DEF QueuePreviews, SameLoads, IsApp, Fields
<1>2. SameLoads(a, QueueAvatars(a)) /\ QueueAvatars(a).key = a.key
  BY DEF QueueAvatars, SameLoads, IsApp, Fields
<1>3. SameLoads(a, QueueOffline(a, c)) /\ QueueOffline(a, c).key = a.key
  BY DEF QueueOffline, SameLoads, IsApp, Fields
<1>4. SameLoads(a, DeferRead(a)) /\ DeferRead(a).key = a.key
  BY DEF DeferRead, SameLoads, IsApp, Fields
<1> QED
  BY <1>1, <1>2, <1>3, <1>4

LEMMA ReadEffectGood ==
    ASSUME NEW a, IsApp(a)
    PROVE  \/ ReadEffect(a) = NoEffect
           \/ ReadEffect(a) \in Requests /\ ReadEffect(a).kind = "read"
<1> DEFINE e == [kind |-> "read", key |-> a.key, page |-> NoPage]
<1>1. e \in Requests /\ e.kind = "read"
  BY DEF IsApp, Requests
<1>2. ReadEffect(a) = e \/ ReadEffect(a) = NoEffect
  BY DEF ReadEffect
<1> HIDE DEF e
<1> QED
  BY <1>1, <1>2

LEMMA TakeReadAsks ==
    ASSUME NEW a, IsApp(a)
    PROVE  Asks(a, TakeRead(a))
<1> DEFINE b == [a EXCEPT !.readPending = FALSE]
<1>1. SameLoads(a, b) /\ SameLoads(a, a)
  BY DEF SameLoads, IsApp, Fields
<1>2. TakeRead(a) = Step(b, ReadEffect(a)) \/ TakeRead(a) = Step(a, NoEffect)
  BY DEF TakeRead
<1> HIDE DEF b
<1>3. Asks(a, Step(b, ReadEffect(a)))
  BY <1>1, ReadEffectGood DEF Asks, SameLoads, Step, IsLoad
<1> QED
  BY <1>1, <1>2, <1>3, Silent

LEMMA RequestSmallAsks ==
    ASSUME NEW a, IsApp(a)
    PROVE  /\ Asks(a, RequestSmall(a)) /\ SameLoads(a, RequestSmall(a).app)
           /\ RequestSmall(a).effect # NoEffect => RequestSmall(a).effect.kind = "small"
<1>1. ASSUME NEW wanted, NEW under
      PROVE  /\ SameLoads(a, [a EXCEPT !.previews = wanted, !.smallActive = under])
             /\ SameLoads(a, [a EXCEPT !.avatars = wanted, !.smallActive = under])
  <2>1. SameLoads(a, [a EXCEPT !.previews = wanted, !.smallActive = under])
    BY DEF SameLoads, IsApp, Fields
  <2>2. SameLoads(a, [a EXCEPT !.avatars = wanted, !.smallActive = under])
    BY DEF SameLoads, IsApp, Fields
  <2> QED
    BY <2>1, <2>2
<1>2. SameLoads(a, a)
  BY DEF SameLoads, IsApp
<1>3. \A b, i : SameLoads(a, b) => Asks(a, Step(b, [kind |-> "small", item |-> i]))
  BY DEF Asks, SameLoads, Step, IsLoad
<1>4. \/ RequestSmall(a) = Step(a, NoEffect)
      \/ \E b, i : SameLoads(a, b) /\ RequestSmall(a) = Step(b, [kind |-> "small", item |-> i])
  BY <1>1 DEF RequestSmall
<1>5. \A b, e : Step(b, e).app = b /\ Step(b, e).effect = e
  BY DEF Step
<1>6. \A i : [kind |-> "small", item |-> i].kind = "small"
  OBVIOUS
<1>7. Asks(a, RequestSmall(a))
  BY <1>2, <1>3, <1>4, Silent
<1>8. SameLoads(a, RequestSmall(a).app)
  BY <1>2, <1>4, <1>5
<1>9. RequestSmall(a).effect # NoEffect => RequestSmall(a).effect.kind = "small"
  <2>1. CASE RequestSmall(a) = Step(a, NoEffect)
    BY <1>5, <2>1
  <2>2. ASSUME NEW b, NEW i, RequestSmall(a) = Step(b, [kind |-> "small", item |-> i])
        PROVE  RequestSmall(a).effect.kind = "small"
    BY <1>5, <1>6, <2>2
  <2> QED
    BY <1>4, <2>1, <2>2
<1> QED
  BY <1>7, <1>8, <1>9

LEMMA RequestOfflineAsks ==
    ASSUME NEW a, IsApp(a)
    PROVE  /\ Asks(a, RequestOffline(a)) /\ SameLoads(a, RequestOffline(a).app)
           /\ RequestOffline(a).effect # NoEffect => RequestOffline(a).effect.kind = "offline"
<1> DEFINE target == CHOOSE m \in a.offQueued : TRUE
           b == [a EXCEPT !.offActive = {target}, !.offQueued = @ \ {target}]
           e == [kind |-> "offline", item |-> target]
<1>1. SameLoads(a, b) /\ SameLoads(a, a)
  BY DEF SameLoads, IsApp, Fields
<1>2. RequestOffline(a) = Step(b, e) \/ RequestOffline(a) = Step(a, NoEffect)
  BY DEF RequestOffline
<1>3. e.kind = "offline"
  OBVIOUS
<1> HIDE DEF b, e
<1>4. Asks(a, Step(b, e))
  BY <1>1, <1>3 DEF Asks, SameLoads, Step, IsLoad
<1>5. Asks(a, Step(a, NoEffect))
  BY <1>1, Silent
<1>6. /\ Step(b, e).effect = e /\ Step(a, NoEffect).effect = NoEffect
      /\ Step(b, e).app = b /\ Step(a, NoEffect).app = a
  BY DEF Step
<1> QED
  BY <1>1, <1>2, <1>3, <1>4, <1>5, <1>6

LEMMA StartLoadAsks ==
    ASSUME NEW a, IsApp(a), NEW k \in HistoryKeys
    PROVE  /\ Asks(a, StartLoad(a, k))
           /\ StartLoad(a, k).effect # NoEffect => IsLoad(StartLoad(a, k).effect)
<1> DEFINE visible == IF a.key # k THEN a
                    ELSE [a EXCEPT !.loading = IF a.cached[k] = {} THEN "fresh" ELSE "updating"]
           started == [visible EXCEPT !.active = k, !.baseline = a.cached[k]]
           waiting == [visible EXCEPT !.queued = IF a.active = k THEN NoKey ELSE k]
<1>1. SameLoads(a, visible)
  BY DEF SameLoads, IsApp, Fields
<1>2. StartLoad(a, k) = IF a.active = NoKey THEN Step(started, LoadEffect(k))
                        ELSE Step(waiting, NoEffect)
  BY DEF StartLoad
<1> HIDE DEF visible
<1>3. /\ IsApp(started) /\ started.active = k /\ started.baseline = a.cached[k]
      /\ started.cached = a.cached
  BY <1>1 DEF SameLoads, IsApp, Fields
<1>4. SameLoads(a, waiting)
  BY <1>1 DEF SameLoads, IsApp, Fields
<1> HIDE DEF started, waiting
<1>5. LoadEffect(k) \in Requests /\ LoadEffect(k) # NoEffect /\ LoadEffect(k).kind = "load"
  BY HistoryAssumption DEF LoadEffect, Requests
<1>6. ASSUME a.active = NoKey PROVE Asks(a, Step(started, LoadEffect(k)))
  BY <1>3, <1>5, <1>6 DEF Asks, Step, IsLoad
<1>7. /\ Step(started, LoadEffect(k)).effect = LoadEffect(k)
      /\ Step(waiting, NoEffect).effect = NoEffect
  BY DEF Step
<1> QED
  BY <1>2, <1>4, <1>5, <1>6, <1>7, Silent DEF IsLoad

LEMMA RequestLoadAsks ==
    ASSUME NEW a, IsApp(a), NEW k \in HistoryKeys
    PROVE  Asks(a, RequestLoad(a, k))
<1>1. SameLoads(a, a)
  BY DEF SameLoads, IsApp
<1> QED
  BY <1>1, Silent, StartLoadAsks DEF RequestLoad

LEMMA ForceLoadAsks ==
    ASSUME NEW a, IsApp(a), NEW c \in Chats
    PROVE  Asks(a, ForceLoad(a, c))
<1> DEFINE b == [a EXCEPT !.refreshed = @ \ {c}]
           waiting == [b EXCEPT !.queued = Root(c)]
<1>1. Root(c) \in HistoryKeys
  BY DEF Root, HistoryKeys
<1>2. SameLoads(a, b)
  BY DEF SameLoads, IsApp, Fields
<1>3. ForceLoad(a, c) = IF a.active = Root(c) THEN Step(waiting, NoEffect)
                        ELSE StartLoad(b, Root(c))
  BY DEF ForceLoad
<1> HIDE DEF b
<1>4. SameLoads(a, waiting)
  BY <1>1, <1>2 DEF SameLoads, IsApp, Fields
<1>5. Asks(b, StartLoad(b, Root(c)))
  BY <1>1, <1>2, StartLoadAsks DEF SameLoads
<1> QED
  BY <1>2, <1>3, <1>4, <1>5, Silent, SameAsks

\* The sweep asks for a chat of the directory.
LEMMA RequestBackgroundAsks ==
    ASSUME NEW a, IsApp(a)
    PROVE  /\ Asks(a, RequestBackground(a))
           /\ RequestBackground(a).effect # NoEffect => IsLoad(RequestBackground(a).effect)
<1> DEFINE At(n) == Root(ChatList[((a.cursor + n - 1) % ChatCount) + 1])
           stale == { n \in 1..a.remaining : ~WasRefreshed(a, At(n)) }
           n == IF stale = {} THEN a.remaining
                ELSE CHOOSE i \in stale : \A j \in stale : i <= j
           b == [a EXCEPT !.cursor = (@ + n) % ChatCount, !.remaining = @ - n]
<1>1. RequestBackground(a) = IF stale = {} THEN Step(b, NoEffect) ELSE StartLoad(b, At(n))
  BY DEF RequestBackground
<1>2. a.cursor \in Nat /\ a.remaining \in Nat
  BY DEF IsApp
<1>3. ChatCount \in Nat \ {0} /\ \A i \in 1..ChatCount : ChatList[i] \in Chats
  <2>1. ChatList \in Seq(Chats) /\ ChatList # <<>>
    BY HistoryAssumption
  <2> QED
    BY <2>1, LenProperties, EmptySeq, ElementOfSeq DEF ChatCount
<1>4. n \in Nat /\ n <= a.remaining /\ (stale # {} => n \in 1..a.remaining)
  <2>1. CASE stale = {}
    BY <1>2, <2>1
  <2>2. CASE stale # {}
    <3>1. stale \in SUBSET Nat
      BY <1>2
    <3>2. \E i \in stale : \A j \in stale : i <= j
      BY <2>2, <3>1, LeastNumber
    <3>3. n \in stale
      BY <2>2, <3>2
    <3> QED
      BY <1>2, <2>2, <3>3
  <2> QED
    BY <2>1, <2>2
<1> HIDE DEF stale, n
<1>5. (a.cursor + n) % ChatCount \in Nat /\ a.remaining - n \in Nat
  BY <1>2, <1>3, <1>4
<1>6. SameLoads(a, b)
  BY <1>5 DEF SameLoads, IsApp, Fields
<1>7. ASSUME stale # {} PROVE At(n) \in HistoryKeys
  <2>1. a.cursor + n - 1 \in Nat
    BY <1>2, <1>4, <1>7
  <2>2. ((a.cursor + n - 1) % ChatCount) + 1 \in 1..ChatCount
    BY <1>3, <2>1
  <2> QED
    BY <1>3, <2>2 DEF Root, HistoryKeys
<1> HIDE DEF b
<1>8. ASSUME stale # {}
      PROVE  /\ Asks(a, StartLoad(b, At(n)))
             /\ StartLoad(b, At(n)).effect # NoEffect => IsLoad(StartLoad(b, At(n)).effect)
  BY <1>6, <1>7, <1>8, StartLoadAsks, SameAsks DEF SameLoads
<1>9. Step(b, NoEffect).effect = NoEffect
  BY DEF Step
<1> QED
  BY <1>1, <1>6, <1>8, <1>9, Silent

\* When a load ends, the reducer waits for none, and asks for the next.
LEMMA CompleteLoadAsks ==
    ASSUME NEW a, IsApp(a), NEW k \in HistoryKeys, NEW refreshed
    PROVE  /\ a.active # k => Asks(a, CompleteLoad(a, k, refreshed))
           /\ a.active = k => \E b : /\ IsApp(b) /\ b.active = NoKey /\ b.cached = a.cached
                                     /\ Asks(b, CompleteLoad(a, k, refreshed))
<1> DEFINE marked == IF refreshed /\ ~k.thread
                     THEN [a EXCEPT !.refreshed = @ \cup {k.chat}] ELSE a
           ended == [marked EXCEPT !.loading = IF a.key = k THEN "idle" ELSE @,
                                   !.active = NoKey, !.baseline = {}, !.queued = NoKey]
           foreground == IF a.queued = NoKey \/ WasRefreshed(marked, a.queued)
                         THEN Step(ended, NoEffect)
                         ELSE StartLoad(ended, a.queued)
           next == OrElse(OrElse(OrElse(foreground, RequestSmall), RequestBackground), TakeRead)
<1>1. CompleteLoad(a, k, refreshed) = IF a.active # k THEN Step(marked, NoEffect) ELSE next
  BY DEF CompleteLoad
<1>2. SameLoads(a, marked)
  BY DEF SameLoads, IsApp, Fields
<1> HIDE DEF marked
<1>3. IsApp(ended) /\ ended.active = NoKey /\ ended.cached = a.cached
  BY <1>2 DEF SameLoads, IsApp, Fields
<1> HIDE DEF ended
<1>4. Asks(ended, foreground)
  <2>1. SameLoads(ended, ended)
    BY <1>3 DEF SameLoads
  <2>2. a.queued # NoKey => a.queued \in HistoryKeys
    BY DEF IsApp
  <2> QED
    BY <1>3, <2>1, <2>2, Silent, StartLoadAsks
<1> HIDE DEF foreground
<1> DEFINE small == OrElse(foreground, RequestSmall)
           background == OrElse(small, RequestBackground)
<1>5. Asks(ended, small)
  <2>1. IsApp(foreground.app)
    BY <1>4 DEF Asks
  <2>2. IF foreground.effect # NoEffect THEN small = foreground ELSE small = RequestSmall(foreground.app)
    BY DEF OrElse
  <2> HIDE DEF small
  <2>3. Asks(foreground.app, RequestSmall(foreground.app))
    BY <2>1, RequestSmallAsks
  <2> QED
    BY <1>4, <2>2, <2>3, AsksThen
<1>6. Asks(ended, background)
  <2>1. IF small.effect # NoEffect THEN background = small ELSE background = RequestBackground(small.app)
    BY DEF OrElse
  <2> HIDE DEF small, background
  <2>2. IsApp(small.app)
    BY <1>5 DEF Asks
  <2>3. Asks(small.app, RequestBackground(small.app))
    BY <2>2, RequestBackgroundAsks
  <2> QED
    BY <1>5, <2>1, <2>3, AsksThen
<1>7. Asks(ended, next)
  <2>1. IF background.effect # NoEffect THEN next = background ELSE next = TakeRead(background.app)
    BY DEF OrElse
  <2> HIDE DEF background, next
  <2>2. IsApp(background.app)
    BY <1>6 DEF Asks
  <2>3. Asks(background.app, TakeRead(background.app))
    BY <2>2, TakeReadAsks
  <2> QED
    BY <1>6, <2>1, <2>3, AsksThen
<1> HIDE DEF next
<1>8. Asks(a, Step(marked, NoEffect))
  BY <1>2, Silent
<1> QED
  BY <1>1, <1>3, <1>7, <1>8

\* A page that comes in is stored; the load ends unless an offline download takes
\* its place.
LEMMA LoadedAsks ==
    ASSUME NEW a, IsApp(a), NEW k \in HistoryKeys, NEW page \in SUBSET Messages,
           NEW stored, stored = StoreLoaded(a, k, page)
    PROVE  /\ SameLoads([a EXCEPT !.cached = stored.cached], stored)
           /\ a.active # k => Asks(stored, Loaded(a, k, page))
           /\ a.active = k =>
                \/ /\ Asks(stored, Loaded(a, k, page))
                   /\ Loaded(a, k, page).effect # NoEffect
                   /\ Loaded(a, k, page).effect.kind = "offline"
                \/ \E b : /\ IsApp(b) /\ b.active = NoKey /\ b.cached = stored.cached
                          /\ Asks(b, Loaded(a, k, page))
<1> DEFINE queued == QueueOffline(stored, k.chat)
           visible == IF a.key = k THEN DeferRead(QueueAvatars(QueuePreviews(queued))) ELSE queued
           offline == RequestOffline(visible)
           ended == CompleteLoad(offline.app, k, TRUE)
<1>1. IsApp(stored) /\ stored.active = a.active /\ stored.baseline = a.baseline
  <2>1. Reconciled(a, k, page) \in SUBSET Messages
    BY DEF Reconciled, IsApp
  <2> QED
    BY <2>1 DEF StoreLoaded, IsApp, Fields
<1>2. SameLoads([a EXCEPT !.cached = stored.cached], stored)
  BY <1>1 DEF SameLoads, IsApp, Fields
<1>3. SameLoads(stored, queued)
  BY <1>1, QueuesSame
<1>4. SameLoads(stored, visible)
  <2> DEFINE previews == QueuePreviews(queued)
             avatars == QueueAvatars(previews)
             read == DeferRead(avatars)
  <2>1. visible = IF a.key = k THEN read ELSE queued
    OBVIOUS
  <2> HIDE DEF visible, queued
  <2>2. SameLoads(stored, previews)
    BY <1>3, QueuesSame DEF SameLoads
  <2> HIDE DEF previews
  <2>3. SameLoads(stored, avatars)
    BY <2>2, QueuesSame DEF SameLoads
  <2> HIDE DEF avatars
  <2>4. SameLoads(stored, read)
    BY <2>3, QueuesSame DEF SameLoads
  <2> HIDE DEF read
  <2> QED
    BY <1>3, <2>1, <2>4
<1>5. Loaded(a, k, page) = IF offline.effect # NoEffect THEN offline ELSE ended
  BY DEF Loaded, OrElse
<1> HIDE DEF visible
<1>6. /\ Asks(stored, offline) /\ SameLoads(stored, offline.app)
      /\ offline.effect # NoEffect => offline.effect.kind = "offline"
  BY <1>4, RequestOfflineAsks, SameAsks DEF SameLoads
<1> HIDE DEF offline
<1>7. /\ offline.app.active # k => Asks(offline.app, ended)
      /\ offline.app.active = k => \E b : /\ IsApp(b) /\ b.active = NoKey
                                          /\ b.cached = offline.app.cached /\ Asks(b, ended)
  BY <1>6, CompleteLoadAsks DEF SameLoads
<1> HIDE DEF ended
<1>8. offline.app.active = a.active /\ offline.app.cached = stored.cached
  BY <1>1, <1>6 DEF SameLoads
<1> QED
  BY <1>2, <1>5, <1>6, <1>7, <1>8, SameAsks

-----------------------------------------------------------------------------
(* HistoryLoads: the control lane.                                           *)

\* Every message the page does not hold is older than all it holds.
Covers(page, ms) == \A m \in ms : m \in page \/ \E p \in page : m < p /\ \A q \in page : p <= q

Awaited(effects) == { i \in DOMAIN effects : effects[i].kind = "load" /\ effects[i].key \notin outlived }

\* There is at most one load on the lane that was asked for over this connection,
\* the one the reducer waits for, and its page covers the baseline it will be
\* compared with.
LaneGood(effects, active, baseline) ==
    /\ effects \in Seq(Effects)
    /\ \A i \in DOMAIN effects : effects[i].kind = "load" /\ effects[i].page # NoPage
                              => effects[i].page \subseteq Within(effects[i].key, remote.issued)
    /\ \A i \in Awaited(effects) : effects[i].key = active
    /\ \A i, j \in Awaited(effects) : i = j
    /\ \A i \in Awaited(effects) : effects[i].page # NoPage
                                => Covers(effects[i].page, baseline \cap remote.exists)

HasRequest(effects, active) == \E i \in DOMAIN effects : effects[i].kind = "load" /\ effects[i].key = active

\* `new` is what is left of `old` without some of its entries.
Thinned(old, new) ==
    /\ new \in Seq(Effects)
    /\ \A n \in DOMAIN new : \E i \in DOMAIN old : new[n] = old[i]
    /\ \A n, m \in DOMAIN new : n < m =>
         \E i, j \in DOMAIN old : i # j /\ new[n] = old[i] /\ new[m] = old[j]

LEMMA ThinnedGood ==
    ASSUME NEW old, NEW new, NEW active, NEW baseline,
           LaneGood(old, active, baseline), Thinned(old, new)
    PROVE  LaneGood(new, active, baseline)
<1>1. \A n \in Awaited(new) : \E i \in Awaited(old) : new[n] = old[i]
  BY DEF Thinned, Awaited
<1>2. ASSUME NEW n \in Awaited(new), NEW m \in Awaited(new), n # m PROVE FALSE
  <2>0. n \in DOMAIN new /\ m \in DOMAIN new /\ n \in Int /\ m \in Int
    <3>1. DOMAIN new = 1..Len(new) /\ Len(new) \in Nat
      BY LenProperties DEF Thinned
    <3> QED
      BY <3>1 DEF Awaited
  <2>1. \E i, j \in DOMAIN old : i # j /\ new[n] = old[i] /\ new[m] = old[j]
    <3>1. n < m \/ m < n
      BY <1>2, <2>0
    <3> QED
      BY <2>0, <3>1 DEF Thinned
  <2>2. PICK i \in DOMAIN old, j \in DOMAIN old : i # j /\ new[n] = old[i] /\ new[m] = old[j]
    BY <2>1
  <2>3. i \in Awaited(old) /\ j \in Awaited(old)
    BY <1>2, <2>2 DEF Awaited
  <2> QED
    BY <2>2, <2>3 DEF LaneGood
<1>3. \A n \in DOMAIN new : new[n].kind = "load" /\ new[n].page # NoPage
                            => new[n].page \subseteq Within(new[n].key, remote.issued)
  BY DEF LaneGood, Thinned
<1>4. \A n \in Awaited(new) : /\ new[n].key = active
                              /\ new[n].page # NoPage
                                 => Covers(new[n].page, baseline \cap remote.exists)
  BY <1>1 DEF LaneGood
<1>5. new \in Seq(Effects)
  BY DEF Thinned
<1> QED
  BY <1>2, <1>3, <1>4, <1>5 DEF LaneGood

LEMMA PickedThinned ==
    ASSUME NEW effects \in Seq(Effects), NEW K \in SUBSET DOMAIN effects
    PROVE  /\ Thinned(effects, Picked(effects, K))
           /\ \A n \in DOMAIN Picked(effects, K) : \E i \in K : Picked(effects, K)[n] = effects[i]
<1> DEFINE at == Ascending(K)
<1>1. DOMAIN effects = 1..Len(effects) /\ Len(effects) \in Nat
  BY LenProperties
<1>2. K \in SUBSET Int /\ IsFiniteSet(K)
  <2>1. 1 \in Int /\ Len(effects) \in Int /\ K \in SUBSET (1..Len(effects))
    BY <1>1
  <2>2. IsFiniteSet(1..Len(effects))
    BY <2>1, FS_Interval
  <2> QED
    BY <2>1, <2>2, FS_Subset
<1>3. /\ at \in Seq(K) /\ DOMAIN at = 1..Cardinality(K) /\ Cardinality(K) \in Nat
      /\ \A n, m \in DOMAIN at : n < m => at[n] < at[m]
  BY <1>2, AscendingLists
<1>4. \A n \in DOMAIN at : at[n] \in K
  BY <1>3, LenProperties, ElementOfSeq
<1>5. /\ Picked(effects, K) \in Seq(Effects)
      /\ \A n \in DOMAIN Picked(effects, K) : \E i \in K : Picked(effects, K)[n] = effects[i]
  BY PickedEntries
<1>6. Picked(effects, K) = [n \in DOMAIN at |-> effects[at[n]]]
  BY DEF Picked
<1> HIDE DEF at
<1>7. DOMAIN Picked(effects, K) = DOMAIN at /\ \A n \in DOMAIN at : Picked(effects, K)[n] = effects[at[n]]
  BY <1>6
<1>8. ASSUME NEW n \in DOMAIN Picked(effects, K), NEW m \in DOMAIN Picked(effects, K), n < m
      PROVE  \E i, j \in DOMAIN effects : /\ i # j /\ Picked(effects, K)[n] = effects[i]
                                       /\ Picked(effects, K)[m] = effects[j]
  <2>1. at[n] \in DOMAIN effects /\ at[m] \in DOMAIN effects /\ at[n] < at[m]
    BY <1>3, <1>4, <1>7, <1>8
  <2>2. at[n] # at[m]
    BY <1>1, <2>1
  <2> QED
    BY <1>7, <2>1, <2>2
<1> QED
  BY <1>5, <1>8 DEF Thinned

LEMMA TailThinned ==
    ASSUME NEW effects \in Seq(Effects), effects # <<>>
    PROVE  /\ Thinned(effects, Tail(effects))
           /\ \A i \in DOMAIN effects : i # 1 => i - 1 \in DOMAIN Tail(effects) /\ Tail(effects)[i - 1] = effects[i]
           /\ \A n \in DOMAIN Tail(effects) : n + 1 \in DOMAIN effects /\ Tail(effects)[n] = effects[n + 1] /\ n + 1 # 1
           /\ 1 \in DOMAIN effects /\ Head(effects) = effects[1] /\ effects[1] \in Effects
<1>1. /\ Len(effects) \in Nat \ {0} /\ DOMAIN effects = 1..Len(effects)
      /\ Tail(effects) \in Seq(Effects) /\ Len(Tail(effects)) = Len(effects) - 1
      /\ \A n \in 1..Len(effects) - 1 : Tail(effects)[n] = effects[n + 1]
  BY LenProperties, EmptySeq, HeadTailProperties
<1>2. DOMAIN Tail(effects) = 1..Len(effects) - 1
  BY <1>1, LenProperties
<1>3. 1 \in DOMAIN effects /\ Head(effects) = effects[1] /\ effects[1] \in Effects
  BY <1>1, ElementOfSeq
<1>4. \A n \in DOMAIN Tail(effects) : n + 1 \in DOMAIN effects /\ Tail(effects)[n] = effects[n + 1] /\ n + 1 # 1
  BY <1>1, <1>2
<1>5. \A i \in DOMAIN effects : i # 1 => i - 1 \in DOMAIN Tail(effects) /\ Tail(effects)[i - 1] = effects[i]
  BY <1>1, <1>2
<1>6. Thinned(effects, Tail(effects))
  <2>1. \A n, m \in DOMAIN Tail(effects) : n < m => n + 1 # m + 1
    BY <1>1, <1>2
  <2> QED
    BY <1>1, <1>4, <2>1 DEF Thinned
<1> QED
  BY <1>3, <1>4, <1>5, <1>6

\* An entry behind the others.
LEMMA Appended ==
    ASSUME NEW effects \in Seq(Effects), NEW e \in Effects
    PROVE  /\ Append(effects, e) \in Seq(Effects)
           /\ \A i \in DOMAIN effects : i \in DOMAIN Append(effects, e) /\ Append(effects, e)[i] = effects[i]
           /\ \A i \in DOMAIN Append(effects, e) :
                 \/ i \in DOMAIN effects /\ Append(effects, e)[i] = effects[i]
                 \/ i = Len(effects) + 1 /\ Append(effects, e)[i] = e
           /\ Len(effects) + 1 \in DOMAIN Append(effects, e) /\ Append(effects, e)[Len(effects) + 1] = e
<1>1. /\ Len(effects) \in Nat /\ DOMAIN effects = 1..Len(effects)
      /\ Append(effects, e) \in Seq(Effects) /\ Len(Append(effects, e)) = Len(effects) + 1
      /\ \A i \in 1..Len(effects) : Append(effects, e)[i] = effects[i]
      /\ Append(effects, e)[Len(effects) + 1] = e
  BY LenProperties, AppendProperties
<1>2. DOMAIN Append(effects, e) = 1..Len(effects) + 1
  BY <1>1, LenProperties
<1> QED
  BY <1>1, <1>2

LEMMA AppendGood ==
    ASSUME NEW effects, NEW e \in Effects, NEW active, NEW baseline,
           LaneGood(effects, active, baseline), e.kind # "load"
    PROVE  /\ LaneGood(Append(effects, e), active, baseline)
           /\ HasRequest(effects, active) => HasRequest(Append(effects, e), active)
<1>1. effects \in Seq(Effects)
  BY DEF LaneGood
<1>2. \A i \in DOMAIN Append(effects, e) : Append(effects, e)[i].kind = "load" =>
        i \in DOMAIN effects /\ Append(effects, e)[i] = effects[i]
  BY <1>1, Appended
<1>3. \A i \in Awaited(Append(effects, e)) : i \in Awaited(effects) /\ Append(effects, e)[i] = effects[i]
  BY <1>2 DEF Awaited
<1>4. Append(effects, e) \in Seq(Effects)
  BY <1>1, Appended
<1>5. LaneGood(Append(effects, e), active, baseline)
  BY <1>2, <1>3, <1>4 DEF LaneGood
<1>6. HasRequest(effects, active) => HasRequest(Append(effects, e), active)
  BY <1>1, Appended DEF HasRequest
<1> QED
  BY <1>5, <1>6

\* A load enters when nothing is waited for.
LEMMA AppendLoad ==
    ASSUME NEW effects, NEW k \in HistoryKeys, NEW baseline, NEW before,
           LaneGood(effects, NoKey, before)
    PROVE  /\ LaneGood(Append(effects, LoadEffect(k)), k, baseline)
           /\ HasRequest(Append(effects, LoadEffect(k)), k)
<1> DEFINE e == LoadEffect(k)
<1>1. effects \in Seq(Effects)
  BY DEF LaneGood
<1>2. e \in Effects /\ e.kind = "load" /\ e.key = k /\ e.page = NoPage
  BY DEF LoadEffect, Effects
<1> HIDE DEF e
<1>3. Awaited(effects) = {}
  <2>1. \A i \in DOMAIN effects : effects[i].key \in HistoryKeys
    <3>1. \A i \in DOMAIN effects : effects[i] \in Effects
      BY <1>1, ElementOfSeq, LenProperties
    <3> QED
      BY <3>1 DEF Effects
  <2> QED
    BY <2>1, HistoryAssumption DEF LaneGood, Awaited
<1>4. \A i \in Awaited(Append(effects, e)) : i = Len(effects) + 1 /\ Append(effects, e)[i] = e
  BY <1>1, <1>2, <1>3, Appended DEF Awaited
<1>5. Append(effects, e) \in Seq(Effects)
  BY <1>1, <1>2, Appended
<1>6. \A i \in DOMAIN Append(effects, e) :
        \/ i \in DOMAIN effects /\ Append(effects, e)[i] = effects[i]
        \/ Append(effects, e)[i].page = NoPage
  BY <1>1, <1>2, Appended
<1>7. LaneGood(Append(effects, e), k, baseline)
  BY <1>2, <1>4, <1>5, <1>6 DEF LaneGood
<1>8. HasRequest(Append(effects, e), k)
  BY <1>1, <1>2, Appended DEF HasRequest
<1> QED
  BY <1>7, <1>8 DEF e

LEMMA WithoutNavigationLoads ==
    ASSUME NEW effects \in Seq(Effects)
    PROVE  /\ Thinned(effects, WithoutNavigation(effects))
           /\ \A i \in DOMAIN WithoutNavigation(effects) : WithoutNavigation(effects)[i].kind # "load"
<1> DEFINE K == { i \in DOMAIN effects : ~Navigates(effects[i]) }
<1>1. /\ Thinned(effects, Picked(effects, K))
      /\ \A n \in DOMAIN Picked(effects, K) : \E i \in K : Picked(effects, K)[n] = effects[i]
  <2>1. K \in SUBSET DOMAIN effects
    OBVIOUS
  <2> HIDE DEF K
  <2> QED
    BY <2>1, PickedThinned
<1>2. WithoutNavigation(effects) = Picked(effects, K)
  BY DEF WithoutNavigation
<1>3. \A i \in K : effects[i].kind # "load"
  BY DEF Navigates
<1> QED
  BY <1>1, <1>2, <1>3

\* The first entry gets an answer.
LEMMA HeadAnswered ==
    ASSUME NEW effects, NEW active, NEW baseline, LaneGood(effects, active, baseline), effects # <<>>,
           NEW page \in SUBSET Messages, NEW new, new = [effects EXCEPT ![1].page = page],
           Head(effects).kind = "load" => page \subseteq Within(Head(effects).key, remote.issued),
           1 \in Awaited(effects) => Covers(page, baseline \cap remote.exists)
    PROVE  /\ LaneGood(new, active, baseline)
           /\ HasRequest(effects, active) => HasRequest(new, active)
<1>1. effects \in Seq(Effects)
  BY DEF LaneGood
<1>2. 1 \in DOMAIN effects /\ Head(effects) = effects[1] /\ effects[1] \in Effects
  BY <1>1, TailThinned
<1>3. /\ DOMAIN new = DOMAIN effects
      /\ \A i \in DOMAIN effects : i # 1 => new[i] = effects[i]
      /\ new[1] = [effects[1] EXCEPT !.page = page]
  BY <1>2
<1>4. new[1].kind = effects[1].kind /\ new[1].key = effects[1].key /\ new[1].page = page /\ new[1] \in Effects
  BY <1>2, <1>3 DEF Effects
<1>5. new \in Seq(Effects)
  <2>1. Len(effects) \in Nat /\ DOMAIN effects = 1..Len(effects) /\ \A i \in DOMAIN effects : effects[i] \in Effects
    BY <1>1, LenProperties, ElementOfSeq
  <2>2. \A i \in 1..Len(effects) : new[i] \in Effects
    BY <1>3, <1>4, <2>1
  <2>3. new = [i \in 1..Len(effects) |-> new[i]]
    BY <1>3, <2>1
  <2>4. new \in [1..Len(effects) -> Effects]
    BY <2>2, <2>3
  <2> QED
    BY <2>1, <2>4
<1>6. \A i \in DOMAIN effects : new[i].kind = effects[i].kind /\ new[i].key = effects[i].key
  BY <1>3, <1>4
<1>7. Awaited(new) = Awaited(effects)
  BY <1>3, <1>6 DEF Awaited
<1>8. \A i \in DOMAIN new : new[i].kind = "load" /\ new[i].page # NoPage
                            => new[i].page \subseteq Within(new[i].key, remote.issued)
  BY <1>2, <1>3, <1>4 DEF LaneGood
<1>9. \A i \in Awaited(new) : new[i].page # NoPage
                              => Covers(new[i].page, baseline \cap remote.exists)
  BY <1>2, <1>3, <1>4, <1>7 DEF LaneGood, Awaited
<1>10. \A i \in Awaited(new) : new[i].key = active
  BY <1>6, <1>7 DEF LaneGood, Awaited
<1>11. LaneGood(new, active, baseline)
  BY <1>5, <1>7, <1>8, <1>9, <1>10 DEF LaneGood
<1> QED
  BY <1>3, <1>6, <1>11 DEF HasRequest

-----------------------------------------------------------------------------
(* HistoryLoads: the invariant, and what an input does to it.                *)

RemoteUpdate == [kind : {"added", "deleted"}, message : remote.issued]

RemoteGood ==
    /\ remote = [issued |-> remote.issued, exists |-> remote.exists]
    /\ remote.exists \subseteq remote.issued /\ remote.issued \subseteq Messages
    /\ IsFiniteSet(remote.issued)
    /\ updates \in Seq(RemoteUpdate)

\* What is cached was issued, and belongs to the history it is cached in.
Known(cached) == \A k \in HistoryKeys : cached[k] \subseteq Within(k, remote.issued)

ReducerGood ==
    /\ IsApp(app) /\ Known(app.cached)
    /\ app.active # NoKey => app.baseline \subseteq Within(app.active, remote.issued)

\* What a history was told to hold was issued.
DueKnown == \A k \in HistoryKeys : due[k] \subseteq remote.issued

HistoryInv ==
    /\ RemoteGood /\ ReducerGood /\ DueKnown
    /\ LaneGood(control, app.active, app.baseline)
    /\ LoadHasRequest /\ LiveKept

\* Opening a list, and a notification, leave the loads alone.
Opens(a, s) ==
    /\ SameLoads(a, s.app)
    /\ s.effect # NoEffect
    /\ \/ s.effect.kind = "notify"
       \/ s.effect \in [kind : {"topics"}, key : HistoryKeys, page : {NoPage}]

LEMMA RequestsAreEffects == Requests \subseteq Effects
  BY DEF Requests, Effects

\* What is asked for, or waited for, after an input.
LEMMA ReducerAfter ==
    ASSUME NEW b, NEW s, ReducerGood, IsApp(b), Known(b.cached),
           b.active # NoKey => b.active = app.active /\ b.baseline = app.baseline,
           Asks(b, s) \/ Opens(b, s), app' = s.app, UNCHANGED remote
    PROVE  ReducerGood' /\ app'.cached = b.cached
<1>1. Known(b.cached)'
  BY DEF Known
<1>2. IsApp(s.app) /\ s.app.cached = b.cached
  BY DEF Asks, Opens, SameLoads
<1>3. IsApp(app)'
  BY <1>2 DEF IsApp
<1>4. s.app.active # NoKey => s.app.baseline \subseteq Within(s.app.active, remote.issued)
  <2>1. CASE Opens(b, s)
    BY <2>1 DEF Opens, SameLoads, ReducerGood
  <2>2. CASE Asks(b, s) /\ IsLoad(s.effect)
    BY <2>2 DEF Asks, Known
  <2>3. CASE Asks(b, s) /\ ~IsLoad(s.effect)
    BY <2>3 DEF Asks, ReducerGood
  <2> QED
    BY <2>1, <2>2, <2>3
<1> QED
  BY <1>1, <1>2, <1>3, <1>4 DEF ReducerGood, Known

\* An input whose effect is enqueued.
LEMMA TransitionKeeps ==
    ASSUME NEW b, NEW s, HistoryInv, IsApp(b), Known(b.cached),
           b.active = app.active, b.baseline = app.baseline,
           Asks(b, s) \/ Opens(b, s), Transition(s), UNCHANGED remote
    PROVE  /\ ReducerGood' /\ app'.cached = b.cached
           /\ LaneGood(control, app.active, app.baseline)'
           /\ LoadHasRequest' /\ UNCHANGED outlived
<1> DEFINE active == s.app.active
           baseline == s.app.baseline
<1>1. app' = s.app /\ UNCHANGED outlived /\ displaced' = (active # NoKey /\ Dropped(s, control'))
  BY DEF Transition
<1>2. ReducerGood' /\ app'.cached = b.cached
  BY <1>1, ReducerAfter DEF HistoryInv
<1>3. LaneGood(control, b.active, b.baseline) /\ control \in Seq(Effects)
  BY DEF HistoryInv, LaneGood
<1>4. b.active = NoKey \/ displaced \/ HasRequest(control, b.active)
  BY DEF HistoryInv, LoadHasRequest, HasRequest
<1>5. SUFFICES /\ LaneGood(control', active, baseline)
               /\ active = NoKey \/ displaced' \/ HasRequest(control', active)
  <2>1. LaneGood(control', active, baseline) => LaneGood(control, app.active, app.baseline)'
    BY <1>1 DEF LaneGood, Awaited
  <2>2. active = NoKey \/ displaced' \/ HasRequest(control', active) => LoadHasRequest'
    BY <1>1 DEF LoadHasRequest, HasRequest
  <2> QED
    BY <1>1, <1>2, <2>1, <2>2
<1>6. active # NoKey /\ displaced => displaced'
  BY <1>1 DEF Dropped
<1>7. \/ (s.effect = NoEffect \/ s.effect.kind = "offline") /\ control' = control
      \/ /\ s.effect # NoEffect /\ s.effect.kind # "offline"
         /\ \E late \in BOOLEAN : Enqueue(s.effect, late)
  BY DEF Transition
<1>8. CASE control' = control /\ ~IsLoad(s.effect)
  <2>1. active = b.active /\ baseline = b.baseline
    BY <1>8 DEF Asks, Opens, SameLoads
  <2> QED
    BY <1>3, <1>4, <1>6, <1>8, <2>1
<1>9. CASE s.effect \in Effects /\ s.effect.kind = "read" /\ control' = Append(control, s.effect)
  <2>1. active = b.active /\ baseline = b.baseline
    BY <1>9 DEF Asks, Opens, SameLoads, IsLoad
  <2>2. /\ LaneGood(Append(control, s.effect), active, baseline)
        /\ HasRequest(control, active) => HasRequest(Append(control, s.effect), active)
    BY <1>3, <1>9, <2>1, AppendGood
  <2> QED
    BY <1>4, <1>6, <1>9, <2>1, <2>2
<1>10. ASSUME NEW K \in SUBSET DOMAIN control, s.effect # NoEffect,
              s.effect.kind \in {"load", "topics"},
              control' = Append(Picked(control, K), s.effect)
       PROVE  /\ LaneGood(control', active, baseline)
              /\ active = NoKey \/ displaced' \/ HasRequest(control', active)
  <2>1. LaneGood(Picked(control, K), b.active, b.baseline)
    BY <1>3, PickedThinned, ThinnedGood
  <2>2. CASE IsLoad(s.effect)
    <3>1. /\ b.active = NoKey /\ active \in HistoryKeys /\ s.effect = LoadEffect(active)
      BY <2>2 DEF Asks, Opens, IsLoad
    <3> HIDE DEF active, baseline
    <3>2. LaneGood(Append(Picked(control, K), LoadEffect(active)), active, baseline)
          /\ HasRequest(Append(Picked(control, K), LoadEffect(active)), active)
      BY <2>1, <3>1, AppendLoad
    <3> QED
      BY <1>10, <3>1, <3>2
  <2>3. CASE ~IsLoad(s.effect)
    <3>1. /\ s.effect.kind = "topics" /\ s.effect \in Effects
          /\ active = b.active /\ baseline = b.baseline
      <4>1. s.effect.kind = "topics"
        BY <1>10, <2>3 DEF IsLoad
      <4>2. Opens(b, s)
        BY <1>10, <4>1 DEF Asks, Requests
      <4> QED
        BY <4>1, <4>2 DEF Opens, SameLoads, Effects
    <3>2. LaneGood(control', active, baseline)
      BY <1>10, <2>1, <3>1, AppendGood
    <3>3. displaced' = (active # NoKey /\ (displaced \/ ~HasRequest(control', active)))
      BY <1>1, <1>10, <3>1 DEF Dropped, HasRequest
    <3> QED
      BY <3>2, <3>3
  <2> QED
    BY <2>2, <2>3
<1>11. ASSUME s.effect # NoEffect, s.effect.kind # "offline", NEW late \in BOOLEAN, Enqueue(s.effect, late)
       PROVE  \/ control' = control /\ ~IsLoad(s.effect)
              \/ s.effect \in Effects /\ s.effect.kind = "read" /\ control' = Append(control, s.effect)
              \/ /\ s.effect.kind \in {"load", "topics"}
                 /\ \E K \in SUBSET DOMAIN control : control' = Append(Picked(control, K), s.effect)
  <2>1. CASE s.effect.kind \in {"small", "notify"}
    BY <1>11, <2>1 DEF Enqueue, IsLoad
  <2>2. CASE s.effect.kind \notin {"small", "notify"} /\ ~Navigates(s.effect)
    <3>1. control' = Append(control, s.effect)
      BY <1>11, <2>2 DEF Enqueue
    <3>2. s.effect \in Effects /\ s.effect.kind = "read"
      BY <1>11, <2>2, RequestsAreEffects DEF Asks, Opens, Requests, Navigates
    <3> QED
      BY <3>1, <3>2
  <2>3. CASE s.effect.kind \notin {"small", "notify"} /\ Navigates(s.effect)
    <3> DEFINE K == { i \in DOMAIN control : \/ ~Navigates(control[i])
                                             \/ i = 1 /\ late /\ control[1].page # NoPage }
    <3>1. control' = Append(Picked(control, K), s.effect)
      BY <1>11, <2>3 DEF Enqueue
    <3>2. K \in SUBSET DOMAIN control
      OBVIOUS
    <3> HIDE DEF K
    <3> QED
      BY <2>3, <3>1, <3>2 DEF Navigates
  <2> QED
    BY <2>1, <2>2, <2>3
<1> QED
  BY <1>7, <1>8, <1>9, <1>10, <1>11 DEF IsLoad

\* An input that takes the first effect off the lane: `b` is the reducer once
\* that effect is reported.
LEMMA PopKeeps ==
    ASSUME NEW b, NEW s, HistoryInv, control # <<>>, IsApp(b), Known(b.cached),
           b.active # NoKey => b.active = app.active /\ b.baseline = app.baseline,
           LaneGood(Tail(control), b.active, b.baseline),
           Asks(b, s), TransitionAndPop(s), UNCHANGED remote,
           \/ b.active = NoKey \/ displaced \/ HasRequest(Tail(control), b.active)
           \/ /\ s.effect # NoEffect /\ s.effect.kind = "offline"
              /\ b.active = Head(control).key
    PROVE  /\ ReducerGood' /\ app'.cached = b.cached
           /\ LaneGood(control, app.active, app.baseline)'
           /\ LoadHasRequest' /\ UNCHANGED outlived
<1> DEFINE active == s.app.active
           baseline == s.app.baseline
           rest == Tail(control)
<1>1. /\ app' = s.app /\ UNCHANGED outlived
      /\ displaced' = /\ active # NoKey
                      /\ \/ displaced
                         \/ /\ s.effect # NoEffect /\ s.effect.kind = "offline"
                            /\ active = Head(control).key
  BY DEF TransitionAndPop
<1>2. ReducerGood' /\ app'.cached = b.cached
  BY <1>1, ReducerAfter DEF HistoryInv
<1>3. LaneGood(rest, b.active, b.baseline) /\ rest \in Seq(Effects)
  BY DEF LaneGood
<1>4. SUFFICES /\ LaneGood(control', active, baseline)
               /\ active = NoKey \/ displaced' \/ HasRequest(control', active)
  <2>1. LaneGood(control', active, baseline) => LaneGood(control, app.active, app.baseline)'
    BY <1>1 DEF LaneGood, Awaited
  <2>2. active = NoKey \/ displaced' \/ HasRequest(control', active) => LoadHasRequest'
    BY <1>1 DEF LoadHasRequest, HasRequest
  <2> QED
    BY <1>1, <1>2, <2>1, <2>2
<1>5. /\ ~IsLoad(s.effect) => active = b.active /\ baseline = b.baseline
      /\ IsLoad(s.effect) => /\ b.active = NoKey /\ active \in HistoryKeys
                             /\ s.effect = LoadEffect(active)
  BY DEF Asks
<1> HIDE DEF active, baseline, rest
<1>6. CASE ~IsLoad(s.effect) /\ control' = rest
  BY <1>1, <1>3, <1>5, <1>6 DEF rest
<1>7. CASE /\ s.effect # NoEffect /\ s.effect \in Requests
           /\ control' = Append(IF Navigates(s.effect) THEN WithoutNavigation(rest) ELSE rest,
                                s.effect)
  <2>1. CASE s.effect.kind = "load"
    <3>1. LaneGood(WithoutNavigation(rest), b.active, b.baseline)
      BY <1>3, WithoutNavigationLoads, ThinnedGood
    <3>2. control' = Append(WithoutNavigation(rest), LoadEffect(active))
      BY <1>5, <1>7, <2>1 DEF Navigates, IsLoad
    <3>3. b.active = NoKey /\ active \in HistoryKeys
      BY <1>5, <1>7, <2>1 DEF IsLoad
    <3>4. /\ LaneGood(Append(WithoutNavigation(rest), LoadEffect(active)), active, baseline)
          /\ HasRequest(Append(WithoutNavigation(rest), LoadEffect(active)), active)
      BY <3>1, <3>3, AppendLoad
    <3> QED
      BY <3>2, <3>4
  <2>2. CASE s.effect.kind = "read"
    <3>1. control' = Append(rest, s.effect) /\ s.effect \in Effects
      BY <1>7, <2>2, RequestsAreEffects DEF Navigates
    <3>2. active = b.active /\ baseline = b.baseline
      BY <1>5, <2>2 DEF IsLoad
    <3>3. /\ LaneGood(Append(rest, s.effect), active, baseline)
          /\ HasRequest(rest, active) => HasRequest(Append(rest, s.effect), active)
      BY <1>3, <2>2, <3>1, <3>2, AppendGood
    <3> QED
      BY <1>1, <2>2, <3>1, <3>2, <3>3 DEF rest
  <2> QED
    BY <1>7, <2>1, <2>2 DEF Requests
<1>8. \/ ~IsLoad(s.effect) /\ control' = rest
      \/ /\ s.effect # NoEffect /\ s.effect \in Requests
         /\ control' = Append(IF Navigates(s.effect) THEN WithoutNavigation(rest) ELSE rest,
                              s.effect)
  <2>1. CASE s.effect = NoEffect \/ s.effect.kind \in {"offline", "small"}
    <3>1. control' = Tail(control) /\ ~IsLoad(s.effect)
      BY <2>1 DEF TransitionAndPop, IsLoad
    <3> QED
      BY <3>1 DEF rest
  <2>2. CASE ~(s.effect = NoEffect \/ s.effect.kind \in {"offline", "small"})
    <3>1. s.effect # NoEffect /\ s.effect \in Requests
      BY <2>2 DEF Asks
    <3>2. control' = Append(IF Navigates(s.effect)
                            THEN WithoutNavigation(Tail(control))
                            ELSE Tail(control), s.effect)
      BY <2>2 DEF TransitionAndPop
    <3> QED
      BY <3>1, <3>2 DEF rest
  <2> QED
    BY <2>1, <2>2
<1> QED
  BY <1>6, <1>7, <1>8

\* What is left of the lane when its first effect goes.
LEMMA RestGood ==
    ASSUME HistoryInv, control # <<>>
    PROVE  /\ LaneGood(Tail(control), app.active, app.baseline)
           /\ Head(control).kind # "load" \/ Head(control).key # app.active
              => (app.active = NoKey \/ displaced \/ HasRequest(Tail(control), app.active))
           /\ Head(control).kind = "load" /\ Head(control).key = app.active
              => \A baseline : LaneGood(Tail(control), NoKey, baseline)
<1>1. control \in Seq(Effects) /\ LaneGood(control, app.active, app.baseline)
  BY DEF HistoryInv, LaneGood
<1>2. /\ Thinned(control, Tail(control))
      /\ \A i \in DOMAIN control :
            i # 1 => i - 1 \in DOMAIN Tail(control) /\ Tail(control)[i - 1] = control[i]
      /\ \A n \in DOMAIN Tail(control) :
            n + 1 \in DOMAIN control /\ Tail(control)[n] = control[n + 1] /\ n + 1 # 1
      /\ 1 \in DOMAIN control /\ Head(control) = control[1]
  BY <1>1, TailThinned
<1>3. LaneGood(Tail(control), app.active, app.baseline)
  BY <1>1, <1>2, ThinnedGood
<1>4. ASSUME Head(control).kind # "load" \/ Head(control).key # app.active
      PROVE  app.active = NoKey \/ displaced \/ HasRequest(Tail(control), app.active)
  <2>1. app.active = NoKey \/ displaced
        \/ \E i \in DOMAIN control : control[i].kind = "load" /\ control[i].key = app.active
    BY DEF HistoryInv, LoadHasRequest
  <2> QED
    BY <1>2, <1>4, <2>1 DEF HasRequest
<1>5. ASSUME Head(control).kind = "load", Head(control).key = app.active, NEW baseline
      PROVE  LaneGood(Tail(control), NoKey, baseline)
  <2>1. \A n \in Awaited(Tail(control)) :
          n + 1 \in Awaited(control) /\ control[n + 1].key = app.active /\ n + 1 # 1
    BY <1>1, <1>2 DEF Awaited, LaneGood
  <2>2. \A n \in Awaited(Tail(control)) : 1 \in Awaited(control)
    BY <1>2, <1>5, <2>1 DEF Awaited
  <2>3. Awaited(Tail(control)) = {}
    BY <1>1, <2>1, <2>2 DEF LaneGood
  <2> QED
    BY <1>3, <2>3 DEF LaneGood
<1> QED
  BY <1>3, <1>4, <1>5

-----------------------------------------------------------------------------
(* HistoryLoads: pages.                                                      *)

LEMMA RecentPageCovers ==
    ASSUME RemoteGood, NEW k \in HistoryKeys
    PROVE  /\ RecentPage(k) \subseteq Within(k, remote.exists)
           /\ RecentPage(k) \in SUBSET Messages
           /\ Covers(RecentPage(k), Within(k, remote.exists))
<1> DEFINE all == Within(k, remote.exists)
           above(m) == { n \in all : n > m }
           page == RecentPage(k)
<1>1. page = { m \in all : Cardinality(above(m)) < PageSize }
  BY DEF RecentPage
<1>2. /\ all \in SUBSET remote.exists /\ all \in SUBSET Nat /\ all \in SUBSET Messages
      /\ IsFiniteSet(all)
  <2>1. all \in SUBSET remote.issued /\ all \in SUBSET remote.exists
    BY DEF Within, RemoteGood
  <2>2. IsFiniteSet(all)
    BY <2>1, FS_Subset DEF RemoteGood
  <2> QED
    BY <2>1, <2>2, HistoryAssumption DEF RemoteGood
<1> HIDE DEF all, page
<1>3. ASSUME NEW m \in all PROVE IsFiniteSet(above(m)) /\ Cardinality(above(m)) \in Nat
  <2>1. above(m) \in SUBSET all
    OBVIOUS
  <2> HIDE DEF above
  <2> QED
    BY <1>2, <2>1, FS_Subset, FS_CardinalityType
<1>4. ASSUME NEW m \in all, m \notin page
      PROVE  \E p \in page : m < p /\ \A q \in page : p <= q
  <2>1. page # {}
    <3>1. PICK x \in all : \A y \in all : y <= x
      <4>1. all \in SUBSET Int
        BY <1>2
      <4> QED
        BY <1>2, <4>1, Greatest
    <3>2. above(x) = {}
      <4>1. x \in Int /\ \A y \in all : y \in Int /\ y <= x
        BY <1>2, <3>1
      <4>2. \A y \in all : ~(y > x)
        BY <4>1
      <4> QED
        BY <4>2
    <3>3. Cardinality(above(x)) = 0
      BY <3>2, FS_EmptySet
    <3> QED
      BY <1>1, <3>1, <3>3, HistoryAssumption
  <2>2. ASSUME NEW q \in page PROVE m < q
    <3>1. q \in all /\ q \in Nat /\ m \in Nat
      BY <1>1, <1>2
    <3>2. ASSUME q <= m PROVE FALSE
      <4>1. above(m) \in SUBSET above(q)
        <5>1. \A n \in all : n \in Nat
          BY <1>2
        <5>2. \A n \in Nat : n > m => n > q
          BY <3>1, <3>2
        <5> QED
          BY <5>1, <5>2
      <4>2. Cardinality(above(m)) <= Cardinality(above(q))
        <5>1. IsFiniteSet(above(q))
          BY <1>3, <3>1
        <5> HIDE DEF above
        <5> QED
          BY <4>1, <5>1, FS_Subset
      <4>3. Cardinality(above(q)) < PageSize /\ ~(Cardinality(above(m)) < PageSize)
        BY <1>1, <1>4, <2>2
      <4>4. /\ Cardinality(above(q)) \in Nat /\ Cardinality(above(m)) \in Nat
            /\ PageSize \in Nat
        BY <1>3, <3>1, HistoryAssumption
      <4> HIDE DEF above
      <4> QED
        BY <4>2, <4>3, <4>4
    <3> QED
      BY <3>1, <3>2
  <2>3. page \in SUBSET Nat
    BY <1>1, <1>2
  <2>4. PICK p \in page : \A q \in page : p <= q
    BY <2>1, <2>3, LeastNumber
  <2> QED
    BY <2>2, <2>4
<1>5. Covers(page, all)
  BY <1>4 DEF Covers
<1>6. page \in SUBSET all
  BY <1>1
<1> QED
  BY <1>2, <1>5, <1>6 DEF all, page

-----------------------------------------------------------------------------
(* HistoryLoads: the actions.                                                *)

\* LiveKept speaks of what is told, what exists and what is cached.
LEMMA KeptStill ==
    ASSUME HistoryInv, UNCHANGED <<due, remote, outlived>>, app'.cached = app.cached
    PROVE  LiveKept' /\ DueKnown'
  BY DEF HistoryInv, LiveKept, DueKnown

\* The user, and what else leaves Telegram and the histories alone.
LEMMA InputKeeps ==
    ASSUME NEW b, NEW s, HistoryInv, SameLoads(app, b), Asks(b, s) \/ Opens(b, s),
           Transition(s), UNCHANGED <<remote, updates, due>>
    PROVE  HistoryInv'
<1>1. /\ IsApp(b) /\ Known(b.cached) /\ b.cached = app.cached
      /\ b.active = app.active /\ b.baseline = app.baseline
  BY DEF SameLoads, HistoryInv, ReducerGood
<1>2. /\ ReducerGood' /\ app'.cached = app.cached
      /\ LaneGood(control, app.active, app.baseline)'
      /\ LoadHasRequest' /\ UNCHANGED outlived
  BY <1>1, TransitionKeeps
<1>3. LiveKept' /\ DueKnown'
  BY <1>2, KeptStill
<1>4. RemoteGood'
  BY DEF HistoryInv, RemoteGood, RemoteUpdate
<1> QED
  BY <1>2, <1>3, <1>4 DEF HistoryInv

LEMMA SameStill ==
    ASSUME HistoryInv
    PROVE  /\ IsApp(app) /\ SameLoads(app, app)
           /\ app.key \in HistoryKeys /\ app.key.chat \in Chats
           /\ Root(app.key.chat) \in HistoryKeys /\ Thread(app.key.chat) \in HistoryKeys
           /\ \A c \in Chats : Root(c) \in HistoryKeys
  BY DEF HistoryInv, ReducerGood, IsApp, SameLoads, Root, Thread, HistoryKeys

LEMMA SameTrans ==
    ASSUME NEW a, NEW b, NEW c, SameLoads(a, b), SameLoads(b, c)
    PROVE  SameLoads(a, c)
  BY DEF SameLoads

\* The queues of pictures after a move.
LEMMA QueuedAfter ==
    ASSUME NEW a, NEW b, SameLoads(a, b)
    PROVE  /\ SameLoads(a, QueueAvatars(QueuePreviews(b)))
           /\ SameLoads(a, DeferRead(QueueAvatars(QueuePreviews(b))))
<1>1. SameLoads(a, QueuePreviews(b))
  BY QueuesSame, SameTrans DEF SameLoads
<1>2. SameLoads(a, QueueAvatars(QueuePreviews(b)))
  BY <1>1, QueuesSame, SameTrans DEF SameLoads
<1>3. SameLoads(a, DeferRead(QueueAvatars(QueuePreviews(b))))
  BY <1>2, QueuesSame, SameTrans DEF SameLoads
<1> QED
  BY <1>2, <1>3

LEMMA MoveToKeeps ==
    ASSUME HistoryInv, NEW c \in Chats, MoveTo(c)
    PROVE  HistoryInv'
<1> DEFINE viewed == View(app, Root(c), "chats")
           moved == [viewed EXCEPT !.topics = FALSE]
           queued == QueueAvatars(QueuePreviews(moved))
           s == RequestLoad(queued, Root(c))
<1>1. Transition(s) /\ UNCHANGED <<remote, updates, due>>
  BY DEF MoveTo
<1>2. SameLoads(app, viewed)
  BY SameStill, ViewSame
<1> HIDE DEF viewed
<1>3. SameLoads(app, moved)
  BY <1>2 DEF SameLoads, IsApp, Fields
<1> HIDE DEF moved
<1>4. SameLoads(app, queued)
  BY <1>3, QueuedAfter
<1> HIDE DEF queued
<1>5. Asks(queued, s)
  BY <1>4, SameStill, RequestLoadAsks DEF SameLoads
<1> HIDE DEF s
<1> QED
  BY <1>1, <1>4, <1>5, InputKeeps

LEMMA OpenChatKeeps ==
    ASSUME HistoryInv, OpenChat
    PROVE  HistoryInv'
<1> DEFINE c == app.key.chat
           viewed == View(app, Root(c), "history")
           opened == DeferRead(QueueAvatars(QueuePreviews(viewed)))
           ReadIfIdle(a) == IF a.active = NoKey THEN TakeRead(a) ELSE Step(a, NoEffect)
           asked == RequestLoad(opened, Root(c))
           small == OrElse(asked, RequestSmall)
           s == OrElse(small, ReadIfIdle)
           listed == View(app, Root(c), "topics")
           topics == [listed EXCEPT !.topics = TRUE]
           e == [kind |-> "topics", key |-> Root(c), page |-> NoPage]
<1>1. Transition(Step(topics, e)) \/ Transition(s)
  BY DEF OpenChat
<1>2. UNCHANGED <<remote, updates, due>>
  BY DEF OpenChat
<1>3. SameLoads(app, topics) /\ e \in [kind : {"topics"}, key : HistoryKeys, page : {NoPage}]
  <2>1. SameLoads(app, listed)
    BY SameStill, ViewSame
  <2> HIDE DEF listed
  <2>2. SameLoads(app, topics)
    BY <2>1 DEF SameLoads, IsApp, Fields
  <2> QED
    BY <2>2, SameStill
<1>4. SameLoads(app, opened)
  BY SameStill, ViewSame, QueuedAfter
<1>5. Asks(opened, s)
  <2> HIDE DEF opened
  <2>1. Asks(opened, asked)
    BY <1>4, SameStill, RequestLoadAsks DEF SameLoads
  <2> HIDE DEF asked
  <2>2. IF asked.effect # NoEffect THEN small = asked ELSE small = RequestSmall(asked.app)
    BY DEF OrElse
  <2> HIDE DEF small
  <2>3. Asks(asked.app, RequestSmall(asked.app))
    BY <2>1, RequestSmallAsks DEF Asks
  <2>4. Asks(opened, small)
    BY <2>1, <2>2, <2>3, AsksThen
  <2>5. IF small.effect # NoEffect THEN s = small
        ELSE s = TakeRead(small.app) \/ s = Step(small.app, NoEffect)
    BY DEF OrElse
  <2> HIDE DEF s
  <2>6. Asks(small.app, TakeRead(small.app)) /\ Asks(small.app, Step(small.app, NoEffect))
    <3>1. SameLoads(small.app, small.app)
      BY <2>4 DEF Asks, SameLoads
    <3> QED
      BY <3>1, TakeReadAsks, Silent DEF SameLoads
  <2> QED
    BY <2>4, <2>5, <2>6, AsksThen
<1> HIDE DEF opened, s, topics, e
<1>6. CASE Transition(s)
  BY <1>2, <1>4, <1>5, <1>6, InputKeeps
<1>7. CASE Transition(Step(topics, e))
  <2>1. Opens(topics, Step(topics, e))
    BY <1>3, HistoryAssumption DEF Opens, Step, SameLoads
  <2> QED
    BY <1>2, <1>3, <1>7, <2>1, InputKeeps
<1> QED
  BY <1>1, <1>6, <1>7

LEMMA OpenThreadKeeps ==
    ASSUME HistoryInv, OpenThread
    PROVE  HistoryInv'
<1> DEFINE k == Thread(app.key.chat)
           b == View(app, k, "history")
<1>1. Transition(RequestLoad(b, k)) /\ UNCHANGED <<remote, updates, due>>
  BY DEF OpenThread
<1>2. k \in HistoryKeys /\ SameLoads(app, b)
  BY SameStill, ViewSame
<1> HIDE DEF k, b
<1>3. Asks(b, RequestLoad(b, k))
  BY <1>2, RequestLoadAsks DEF SameLoads
<1> QED
  BY <1>1, <1>2, <1>3, InputKeeps

LEMMA KeepOfflineKeeps ==
    ASSUME HistoryInv, NEW c \in Chats, KeepOffline(c)
    PROVE  HistoryInv'
<1> DEFINE kept == [app EXCEPT !.kept = @ \cup {c}]
           queued == QueueOffline(kept, c)
<1>1. Transition(RequestOffline(queued)) /\ UNCHANGED <<remote, updates, due>>
  BY DEF KeepOffline
<1>2. SameLoads(app, kept)
  BY SameStill DEF SameLoads, IsApp, Fields
<1> HIDE DEF kept
<1>3. SameLoads(app, queued)
  BY <1>2, QueuesSame, SameTrans DEF SameLoads
<1> HIDE DEF queued
<1>4. Asks(queued, RequestOffline(queued))
  BY <1>3, RequestOfflineAsks DEF SameLoads
<1> QED
  BY <1>1, <1>3, <1>4, InputKeeps

LEMMA PinMissingKeeps ==
    ASSUME HistoryInv, NEW c \in Chats, PinMissing(c)
    PROVE  HistoryInv'
<1>1. Transition(ForceLoad(app, c)) /\ UNCHANGED <<remote, updates, due>>
  BY DEF PinMissing
<1>2. Asks(app, ForceLoad(app, c)) /\ SameLoads(app, app)
  BY SameStill, ForceLoadAsks
<1> QED
  BY <1>1, <1>2, InputKeeps

\* Nothing is asked for, and the lane and Telegram stay.
LEMMA QuietKeeps ==
    ASSUME HistoryInv, SameLoads(app, app'),
           UNCHANGED <<control, remote, updates, due, displaced, outlived>>
    PROVE  HistoryInv'
<1>1. ReducerGood'
  BY DEF HistoryInv, ReducerGood, SameLoads, IsApp, Known
<1>2. LaneGood(control, app.active, app.baseline)'
  BY DEF HistoryInv, LaneGood, Awaited, SameLoads
<1>3. LoadHasRequest'
  BY DEF HistoryInv, LoadHasRequest, SameLoads
<1>4. LiveKept' /\ DueKnown'
  BY KeptStill DEF SameLoads
<1>5. RemoteGood'
  BY DEF HistoryInv, RemoteGood, RemoteUpdate
<1> QED
  BY <1>1, <1>2, <1>3, <1>4, <1>5 DEF HistoryInv

LEMMA LeaveKeeps ==
    ASSUME HistoryInv, Leave
    PROVE  HistoryInv'
<1>1. UNCHANGED <<control, remote, updates, due, displaced, outlived>>
  BY DEF Leave
<1>2. \E k \in HistoryKeys, focus \in {"chats", "topics", "history"} : app' = View(app, k, focus)
  BY SameStill DEF Leave
<1>3. SameLoads(app, app')
  BY <1>2, SameStill, ViewSame
<1> QED
  BY <1>1, <1>3, QuietKeeps

LEMMA AcceptedSame ==
    ASSUME NEW a, IsApp(a)
    PROVE  SameLoads(a, Accepted(a).app)
<1> DEFINE offline == RequestOffline(a)
<1>1. IF offline.effect # NoEffect THEN Accepted(a) = offline
      ELSE Accepted(a) = RequestSmall(offline.app)
  BY DEF Accepted, OrElse
<1>2. SameLoads(a, offline.app)
  BY RequestOfflineAsks
<1> HIDE DEF offline
<1>3. SameLoads(a, RequestSmall(offline.app).app)
  BY <1>2, RequestSmallAsks, SameTrans DEF SameLoads
<1> QED
  BY <1>1, <1>2, <1>3

LEMMA StartNotifyKeeps ==
    ASSUME HistoryInv, NEW c \in Chats, StartNotify(c)
    PROVE  HistoryInv'
<1>1. /\ app' = Accepted(app).app
      /\ UNCHANGED <<control, remote, updates, due, displaced, outlived>>
  BY DEF StartNotify
<1>2. SameLoads(app, app')
  BY <1>1, SameStill, AcceptedSame
<1> QED
  BY <1>1, <1>2, QuietKeeps

LEMMA StartSmallKeeps ==
    ASSUME HistoryInv, NEW i \in SmallItems, StartSmall(i)
    PROVE  HistoryInv'
<1>1. /\ app' = RequestSmall(app).app
      /\ UNCHANGED <<control, remote, updates, due, displaced, outlived>>
  BY DEF StartSmall
<1>2. SameLoads(app, app')
  BY <1>1, SameStill, RequestSmallAsks
<1> QED
  BY <1>1, <1>2, QuietKeeps

LEMMA SmallDoneKeeps ==
    ASSUME HistoryInv, NEW i \in SmallItems, NEW ok \in BOOLEAN, SmallDone(i, ok)
    PROVE  HistoryInv'
<1> DEFINE avatar == i[1] = "avatar"
           ended == [app EXCEPT !.smallActive = @ \ {i},
                                !.shown = IF ok THEN @ \cup {i} ELSE @,
                                !.failed = IF ~ok /\ avatar THEN @ \cup {i} ELSE @]
           BackgroundIfIdle(a) == IF a.active = NoKey THEN RequestBackground(a)
                                  ELSE Step(a, NoEffect)
           small == RequestSmall(ended)
           read == OrElse(small, TakeRead)
           sweep == OrElse(small, BackgroundIfIdle)
           s == IF avatar THEN OrElse(read, RequestBackground) ELSE OrElse(sweep, TakeRead)
<1>1. Transition(s) /\ UNCHANGED <<remote, updates, due>>
  BY DEF SmallDone
<1>2. SameLoads(app, ended)
  BY SameStill DEF SameLoads, IsApp, Fields
<1> HIDE DEF ended
<1>3. Asks(ended, small)
  BY <1>2, RequestSmallAsks DEF SameLoads
<1> HIDE DEF small
<1>4. \A t : Asks(ended, t) /\ t.effect = NoEffect =>
        /\ Asks(ended, TakeRead(t.app)) /\ Asks(ended, RequestBackground(t.app))
        /\ Asks(ended, Step(t.app, NoEffect))
  <2> SUFFICES ASSUME NEW t, Asks(ended, t), t.effect = NoEffect
               PROVE  /\ Asks(ended, TakeRead(t.app)) /\ Asks(ended, RequestBackground(t.app))
                      /\ Asks(ended, Step(t.app, NoEffect))
    OBVIOUS
  <2>1. IsApp(t.app) /\ SameLoads(t.app, t.app)
    BY DEF Asks, SameLoads
  <2>2. /\ Asks(t.app, TakeRead(t.app)) /\ Asks(t.app, RequestBackground(t.app))
        /\ Asks(t.app, Step(t.app, NoEffect))
    BY <2>1, TakeReadAsks, RequestBackgroundAsks, Silent
  <2> QED
    BY <2>2, AsksThen
<1>5. Asks(ended, read)
  <2>1. IF small.effect # NoEffect THEN read = small ELSE read = TakeRead(small.app)
    BY DEF OrElse
  <2> HIDE DEF read
  <2> QED
    BY <1>3, <1>4, <2>1
<1>6. Asks(ended, sweep)
  <2>1. IF small.effect # NoEffect THEN sweep = small
        ELSE sweep = RequestBackground(small.app) \/ sweep = Step(small.app, NoEffect)
    BY DEF OrElse
  <2> HIDE DEF sweep
  <2> QED
    BY <1>3, <1>4, <2>1
<1>7. Asks(ended, s)
  <2>1. IF avatar
        THEN IF read.effect # NoEffect THEN s = read ELSE s = RequestBackground(read.app)
        ELSE IF sweep.effect # NoEffect THEN s = sweep ELSE s = TakeRead(sweep.app)
    BY DEF OrElse
  <2> HIDE DEF s, read, sweep
  <2> QED
    BY <1>4, <1>5, <1>6, <2>1
<1> HIDE DEF s
<1> QED
  BY <1>1, <1>2, <1>7, InputKeeps

LEMMA OfflineDoneKeeps ==
    ASSUME HistoryInv, OfflineDone
    PROVE  HistoryInv'
<1> DEFINE ended == [app EXCEPT !.offActive = {}]
           offline == RequestOffline(ended)
           small == OrElse(offline, RequestSmall)
           s == OrElse(small, RequestBackground)
<1>1. Transition(s) /\ UNCHANGED <<remote, updates, due>>
  BY DEF OfflineDone
<1>2. SameLoads(app, ended)
  BY SameStill DEF SameLoads, IsApp, Fields
<1> HIDE DEF ended
<1>3. Asks(ended, offline)
  BY <1>2, RequestOfflineAsks DEF SameLoads
<1> HIDE DEF offline
<1>4. Asks(ended, small)
  <2>1. IF offline.effect # NoEffect THEN small = offline ELSE small = RequestSmall(offline.app)
    BY DEF OrElse
  <2> HIDE DEF small
  <2>2. Asks(offline.app, RequestSmall(offline.app))
    BY <1>3, RequestSmallAsks DEF Asks
  <2> QED
    BY <1>3, <2>1, <2>2, AsksThen
<1>5. Asks(ended, s)
  <2>1. IF small.effect # NoEffect THEN s = small ELSE s = RequestBackground(small.app)
    BY DEF OrElse
  <2> HIDE DEF s, small
  <2>2. Asks(small.app, RequestBackground(small.app))
    BY <1>4, RequestBackgroundAsks DEF Asks
  <2> QED
    BY <1>4, <2>1, <2>2, AsksThen
<1> HIDE DEF s
<1> QED
  BY <1>1, <1>2, <1>5, InputKeeps

\* The first effect ends, and it was not the load the reducer waits for.
LEMMA PopInputKeeps ==
    ASSUME NEW b, NEW s, HistoryInv, control # <<>>, Head(control).kind # "load",
           SameLoads(app, b), Asks(b, s), TransitionAndPop(s), UNCHANGED <<remote, updates, due>>
    PROVE  HistoryInv'
<1>1. /\ IsApp(b) /\ Known(b.cached) /\ b.cached = app.cached
      /\ b.active = app.active /\ b.baseline = app.baseline
  BY DEF SameLoads, HistoryInv, ReducerGood
<1>2. /\ LaneGood(Tail(control), b.active, b.baseline)
      /\ b.active = NoKey \/ displaced \/ HasRequest(Tail(control), b.active)
  BY <1>1, RestGood
<1>3. /\ ReducerGood' /\ app'.cached = app.cached
      /\ LaneGood(control, app.active, app.baseline)'
      /\ LoadHasRequest' /\ UNCHANGED outlived
  BY <1>1, <1>2, PopKeeps
<1>4. LiveKept' /\ DueKnown'
  BY <1>3, KeptStill
<1>5. RemoteGood'
  BY DEF HistoryInv, RemoteGood, RemoteUpdate
<1> QED
  BY <1>3, <1>4, <1>5 DEF HistoryInv

LEMMA TopicsDoneKeeps ==
    ASSUME HistoryInv, TopicsDone
    PROVE  HistoryInv'
<1> DEFINE b == [app EXCEPT !.topics = IF app.key.chat = Head(control).key.chat
                                       THEN FALSE ELSE @]
<1>1. /\ control # <<>> /\ Head(control).kind # "load"
      /\ TransitionAndPop(Step(b, NoEffect)) /\ UNCHANGED <<remote, updates, due>>
  BY DEF TopicsDone
<1>2. SameLoads(app, b)
  BY SameStill DEF SameLoads, IsApp, Fields
<1> HIDE DEF b
<1>3. Asks(b, Step(b, NoEffect))
  BY <1>2, Silent DEF SameLoads
<1> QED
  BY <1>1, <1>2, <1>3, PopInputKeeps

LEMMA ReadDoneKeeps ==
    ASSUME HistoryInv, ReadDone
    PROVE  HistoryInv'
<1> DEFINE b == [app EXCEPT !.unread = IF Head(control).key.thread THEN @
                                       ELSE @ \ {Head(control).key.chat}]
<1>1. /\ control # <<>> /\ Head(control).kind # "load"
      /\ TransitionAndPop(Step(b, NoEffect)) /\ UNCHANGED <<remote, updates, due>>
  BY DEF ReadDone
<1>2. SameLoads(app, b)
  BY SameStill DEF SameLoads, IsApp, Fields
<1> HIDE DEF b
<1>3. Asks(b, Step(b, NoEffect))
  BY <1>2, Silent DEF SameLoads
<1> QED
  BY <1>1, <1>2, <1>3, PopInputKeeps

\* An entry is rewritten, and the reducer waits for what it waited for.
LEMMA LaneStays ==
    ASSUME LaneGood(control', app.active, app.baseline), UNCHANGED <<remote, outlived>>,
           app'.active = app.active, app'.baseline = app.baseline
    PROVE  LaneGood(control, app.active, app.baseline)'
<1>1. remote' = remote /\ outlived' = outlived
  OBVIOUS
<1>2. LaneGood(control, app.active, app.baseline)' <=> LaneGood(control', app.active, app.baseline)
  BY <1>1 DEF LaneGood, Awaited
<1> QED
  BY <1>2

LEMMA StartReadKeeps ==
    ASSUME HistoryInv, StartRead
    PROVE  HistoryInv'
<1>1. /\ control # <<>> /\ Head(control).kind = "read"
      /\ app' = Accepted(app).app /\ control' = [control EXCEPT ![1].page = {}]
      /\ UNCHANGED <<remote, updates, due, displaced, outlived>>
  BY DEF StartRead
<1>2. SameLoads(app, app')
  BY <1>1, SameStill, AcceptedSame
<1>3. /\ LaneGood(control, app.active, app.baseline) /\ control \in Seq(Effects)
  BY DEF HistoryInv, LaneGood
<1>4. 1 \notin Awaited(control)
  <2>1. Head(control) = control[1]
    BY <1>1, <1>3, TailThinned
  <2> QED
    BY <1>1, <2>1 DEF Awaited
<1>5. /\ LaneGood(control', app.active, app.baseline)
      /\ HasRequest(control, app.active) => HasRequest(control', app.active)
  <2> DEFINE page == {}
  <2>1. page \in SUBSET Messages /\ Head(control).kind # "load"
    BY <1>1
  <2>2. control' = [control EXCEPT ![1].page = page]
    BY <1>1
  <2> HIDE DEF page
  <2> QED
    BY <1>1, <1>3, <1>4, <2>1, <2>2, HeadAnswered
<1>6. LaneGood(control, app.active, app.baseline)'
  BY <1>1, <1>2, <1>5, LaneStays DEF SameLoads
<1>7. LoadHasRequest'
  BY <1>1, <1>2, <1>5 DEF HistoryInv, LoadHasRequest, HasRequest, SameLoads
<1>8. ReducerGood'
  BY <1>1, <1>2 DEF HistoryInv, ReducerGood, SameLoads, IsApp, Known
<1>9. LiveKept' /\ DueKnown'
  BY <1>1, <1>2, KeptStill DEF SameLoads
<1>10. RemoteGood'
  BY <1>1 DEF HistoryInv, RemoteGood, RemoteUpdate
<1> QED
  BY <1>6, <1>7, <1>8, <1>9, <1>10 DEF HistoryInv

LEMMA AnswerKeeps ==
    ASSUME HistoryInv, Answer
    PROVE  HistoryInv'
<1> DEFINE page == IF Head(control).kind = "load" THEN RecentPage(Head(control).key) ELSE {}
<1>1. /\ control # <<>> /\ control' = [control EXCEPT ![1].page = page]
      /\ UNCHANGED <<app, remote, updates, due, displaced, outlived>>
  BY DEF Answer
<1>2. /\ LaneGood(control, app.active, app.baseline) /\ control \in Seq(Effects)
      /\ RemoteGood
  BY DEF HistoryInv, LaneGood
<1>3. Head(control) = control[1] /\ control[1].key \in HistoryKeys /\ 1 \in DOMAIN control
  BY <1>1, <1>2, TailThinned DEF Effects
<1>4. ASSUME Head(control).kind = "load"
      PROVE  /\ page \in SUBSET Messages
             /\ page \subseteq Within(Head(control).key, remote.exists)
             /\ Covers(page, Within(Head(control).key, remote.exists))
  BY <1>2, <1>3, <1>4, RecentPageCovers
<1>5. page \in SUBSET Messages
  BY <1>4
<1>6. Head(control).kind = "load" => page \subseteq Within(Head(control).key, remote.issued)
  BY <1>2, <1>4 DEF Within, RemoteGood
<1>7. ASSUME 1 \in Awaited(control) PROVE Covers(page, app.baseline \cap remote.exists)
  <2>1. Head(control).kind = "load" /\ Head(control).key = app.active
    BY <1>2, <1>3, <1>7 DEF Awaited, LaneGood
  <2>2. app.baseline \subseteq Within(app.active, remote.issued)
    BY <1>3, <2>1, HistoryAssumption DEF HistoryInv, ReducerGood
  <2>3. app.baseline \cap remote.exists \subseteq Within(app.active, remote.exists)
    BY <2>2 DEF Within
  <2> QED
    BY <1>4, <2>1, <2>3 DEF Covers
<1> HIDE DEF page
<1>8. /\ LaneGood(control', app.active, app.baseline)
      /\ HasRequest(control, app.active) => HasRequest(control', app.active)
  BY <1>1, <1>2, <1>5, <1>6, <1>7, HeadAnswered
<1>9. LaneGood(control, app.active, app.baseline)'
  BY <1>1, <1>8, LaneStays
<1>10. LoadHasRequest'
  BY <1>1, <1>8 DEF HistoryInv, LoadHasRequest, HasRequest
<1>11. ReducerGood'
  BY <1>1 DEF HistoryInv, ReducerGood, IsApp, Known
<1>12. LiveKept' /\ DueKnown'
  BY <1>1, KeptStill
<1>13. RemoteGood'
  BY <1>1 DEF HistoryInv, RemoteGood, RemoteUpdate
<1> QED
  BY <1>9, <1>10, <1>11, <1>12, <1>13 DEF HistoryInv

LEMMA LoadFailedKeeps ==
    ASSUME HistoryInv, LoadFailed
    PROVE  HistoryInv'
<1> DEFINE k == Head(control).key
           s == CompleteLoad(app, k, FALSE)
<1>1. /\ control # <<>> /\ Head(control).kind = "load"
      /\ TransitionAndPop(s) /\ UNCHANGED <<remote, updates, due>>
  BY DEF LoadFailed
<1>2. k \in HistoryKeys
  <2>1. control \in Seq(Effects)
    BY DEF HistoryInv, LaneGood
  <2> QED
    BY <1>1, <2>1, TailThinned DEF Effects
<1>3. IsApp(app) /\ Known(app.cached)
  BY DEF HistoryInv, ReducerGood
<1>4. /\ app.active # k => Asks(app, s)
      /\ app.active = k => \E b : /\ IsApp(b) /\ b.active = NoKey /\ b.cached = app.cached
                                  /\ Asks(b, s)
  BY <1>2, <1>3, CompleteLoadAsks
<1> HIDE DEF s
<1>5. /\ ReducerGood' /\ app'.cached = app.cached
      /\ LaneGood(control, app.active, app.baseline)'
      /\ LoadHasRequest' /\ UNCHANGED outlived
  <2>1. CASE app.active # k
    <3>1. /\ LaneGood(Tail(control), app.active, app.baseline)
          /\ app.active = NoKey \/ displaced \/ HasRequest(Tail(control), app.active)
      BY <1>1, <2>1, RestGood
    <3> QED
      BY <1>1, <1>3, <1>4, <2>1, <3>1, PopKeeps
  <2>2. CASE app.active = k
    <3>1. PICK b : IsApp(b) /\ b.active = NoKey /\ b.cached = app.cached /\ Asks(b, s)
      BY <1>4, <2>2
    <3>2. LaneGood(Tail(control), b.active, b.baseline)
      BY <1>1, <2>2, <3>1, RestGood
    <3>3. Known(b.cached) /\ b.active = NoKey
      BY <1>3, <3>1
    <3> QED
      BY <1>1, <3>1, <3>2, <3>3, PopKeeps
  <2> QED
    BY <2>1, <2>2
<1>6. LiveKept' /\ DueKnown'
  BY <1>1, <1>5, KeptStill
<1>7. RemoteGood'
  BY <1>1 DEF HistoryInv, RemoteGood, RemoteUpdate
<1> QED
  BY <1>5, <1>6, <1>7 DEF HistoryInv

\* A page displaces nothing that exists, unless its load outlived its connection.
LEMMA LoadDoneKeeps ==
    ASSUME HistoryInv, LoadDone
    PROVE  HistoryInv'
<1> DEFINE k == Head(control).key
           page == Head(control).page
           stored == StoreLoaded(app, k, page)
           s == Loaded(app, k, page)
<1>1. /\ control # <<>> /\ Head(control).kind = "load" /\ page # NoPage
      /\ TransitionAndPop(s) /\ UNCHANGED <<remote, updates, due>>
  BY DEF LoadDone
<1>2. /\ control \in Seq(Effects) /\ LaneGood(control, app.active, app.baseline)
      /\ IsApp(app) /\ Known(app.cached)
  BY DEF HistoryInv, LaneGood, ReducerGood
<1>3. /\ k \in HistoryKeys /\ page \in SUBSET Messages
      /\ 1 \in DOMAIN control /\ Head(control) = control[1]
  BY <1>1, <1>2, TailThinned DEF Effects
<1>4. page \subseteq Within(k, remote.issued)
  BY <1>1, <1>2, <1>3 DEF LaneGood
<1>5. stored.cached = [app.cached EXCEPT ![k] = page \cup Reconciled(app, k, page)]
  BY <1>2 DEF StoreLoaded, IsApp, Fields
<1>6. Known(stored.cached)
  <2>1. Reconciled(app, k, page) \subseteq app.cached[k]
    BY DEF Reconciled
  <2> QED
    BY <1>2, <1>3, <1>4, <1>5, <2>1 DEF Known, IsApp
<1>7. k \notin outlived => app.cached[k] \cap remote.exists \subseteq page \cup Reconciled(app, k, page)
  <2> SUFFICES ASSUME k \notin outlived, NEW m \in app.cached[k] \cap remote.exists, m \notin page
               PROVE  m \in Reconciled(app, k, page)
    OBVIOUS
  <2>1. 1 \in Awaited(control)
    BY <1>1, <1>3 DEF Awaited
  <2>2. Covers(page, app.baseline \cap remote.exists)
    BY <1>1, <1>2, <1>3, <2>1 DEF LaneGood
  <2>3. m \in app.baseline => \E p \in page : m < p /\ \A q \in page : p <= q
    BY <2>2 DEF Covers
  <2> QED
    BY <2>3 DEF Reconciled
<1> HIDE DEF stored
<1>8. /\ IsApp(stored) /\ stored.active = app.active /\ stored.baseline = app.baseline
      /\ app.active # k => Asks(stored, s)
      /\ app.active = k =>
           \/ /\ Asks(stored, s) /\ s.effect # NoEffect /\ s.effect.kind = "offline"
           \/ \E b : IsApp(b) /\ b.active = NoKey /\ b.cached = stored.cached /\ Asks(b, s)
  <2>1. stored = StoreLoaded(app, k, page)
    BY DEF stored
  <2>2. /\ SameLoads([app EXCEPT !.cached = stored.cached], stored)
        /\ app.active # k => Asks(stored, s)
        /\ app.active = k =>
             \/ Asks(stored, s) /\ s.effect # NoEffect /\ s.effect.kind = "offline"
             \/ \E b : IsApp(b) /\ b.active = NoKey /\ b.cached = stored.cached /\ Asks(b, s)
    BY <1>2, <1>3, <2>1, LoadedAsks
  <2>3. IsApp(stored) /\ stored.active = app.active /\ stored.baseline = app.baseline
    BY <1>2, <2>2 DEF SameLoads, IsApp, Fields
  <2> HIDE DEF s
  <2> QED
    BY <2>2, <2>3
<1> HIDE DEF s
<1>9. /\ ReducerGood' /\ app'.cached = stored.cached
      /\ LaneGood(control, app.active, app.baseline)'
      /\ LoadHasRequest' /\ UNCHANGED outlived
  <2>1. CASE app.active # k
    <3>1. /\ LaneGood(Tail(control), stored.active, stored.baseline)
          /\ stored.active = NoKey \/ displaced \/ HasRequest(Tail(control), stored.active)
      BY <1>1, <1>8, <2>1, RestGood
    <3> QED
      BY <1>1, <1>6, <1>8, <2>1, <3>1, PopKeeps
  <2>2. CASE app.active = k /\ Asks(stored, s) /\ s.effect # NoEffect /\ s.effect.kind = "offline"
    <3>1. LaneGood(Tail(control), stored.active, stored.baseline)
      BY <1>1, <1>8, RestGood
    <3>2. stored.active = Head(control).key
      BY <1>8, <2>2
    <3> QED
      BY <1>1, <1>6, <1>8, <2>2, <3>1, <3>2, PopKeeps
  <2>3. CASE app.active = k /\ \E b : /\ IsApp(b) /\ b.active = NoKey
                                      /\ b.cached = stored.cached /\ Asks(b, s)
    <3>1. PICK b : IsApp(b) /\ b.active = NoKey /\ b.cached = stored.cached /\ Asks(b, s)
      BY <2>3
    <3>2. LaneGood(Tail(control), b.active, b.baseline)
      BY <1>1, <2>3, <3>1, RestGood
    <3>3. Known(b.cached)
      BY <1>6, <3>1
    <3> QED
      BY <1>1, <3>1, <3>2, <3>3, PopKeeps
  <2> QED
    BY <1>8, <2>1, <2>2, <2>3
<1>10. LiveKept' /\ DueKnown'
  <2>1. \A j \in HistoryKeys \ outlived : due[j] \cap remote.exists \subseteq app.cached[j]
    BY DEF HistoryInv, LiveKept
  <2>2. \A j \in HistoryKeys : stored.cached[j] = IF j = k THEN page \cup Reconciled(app, k, page)
                                                  ELSE app.cached[j]
    BY <1>2, <1>5 DEF IsApp
  <2>3. \A j \in HistoryKeys \ outlived : due[j] \cap remote.exists \subseteq stored.cached[j]
    BY <1>7, <2>1, <2>2
  <2>4. LiveKept'
    BY <1>1, <1>9, <2>3 DEF LiveKept
  <2>5. DueKnown'
    BY <1>1 DEF DueKnown, HistoryInv
  <2> QED
    BY <2>4, <2>5
<1>11. RemoteGood'
  BY <1>1 DEF HistoryInv, RemoteGood, RemoteUpdate
<1> QED
  BY <1>9, <1>10, <1>11 DEF HistoryInv

-----------------------------------------------------------------------------
(* HistoryLoads: live updates and Telegram.                                  *)

LEMMA UpdateHeads ==
    ASSUME HistoryInv, updates # <<>>
    PROVE  /\ Head(updates).message \in remote.issued /\ Head(updates).message \in Messages
           /\ Tail(updates) \in Seq(RemoteUpdate)
<1>1. updates \in Seq(RemoteUpdate) /\ remote.issued \subseteq Messages
  BY DEF HistoryInv, RemoteGood
<1>2. Head(updates) \in RemoteUpdate /\ Tail(updates) \in Seq(RemoteUpdate)
  BY <1>1, HeadTailProperties
<1>3. Head(updates).message \in remote.issued
  BY <1>2 DEF RemoteUpdate
<1> QED
  BY <1>1, <1>2, <1>3

\* A message that is told of is cached in every history that shows it.
LEMMA AddedAsks ==
    ASSUME NEW a, IsApp(a), NEW m \in Messages
    PROVE  \E b : /\ IsApp(b) /\ b.active = a.active /\ b.baseline = a.baseline
                  /\ \A k \in HistoryKeys : b.cached[k] = a.cached[k] \cup Within(k, {m})
                  /\ Asks(b, MessageAdded(a, m)) \/ Opens(b, MessageAdded(a, m))
<1> DEFINE c == ChatOf[m]
           into == { k \in HistoryKeys : m \in Within(k, {m}) }
           seen == a.focus # "chats" /\ a.key.chat = c /\ (a.key.thread <=> m \in Threaded)
           present == \E k \in HistoryKeys : k.chat = c /\ m \in a.cached[k]
           cached == [k \in HistoryKeys |-> IF k \in into THEN a.cached[k] \cup {m}
                                            ELSE a.cached[k]]
           stored == [a EXCEPT !.cached = cached]
           counted == IF present \/ seen THEN stored
                      ELSE [stored EXCEPT !.unread = @ \cup {c}]
           effect == IF present THEN NoEffect
                     ELSE IF seen THEN [kind |-> "read", key |-> a.key, page |-> NoPage]
                     ELSE [kind |-> "notify", item |-> <<"notify", c>>]
           queued == QueueOffline(counted, c)
           visible == IF a.key.chat = c THEN QueuePreviews(queued) ELSE queued
           s == MessageAdded(a, m)
<1>1. s = OrElse(Step(visible, effect), RequestOffline)
  BY DEF MessageAdded
<1>2. \A k \in HistoryKeys : cached[k] = a.cached[k] \cup Within(k, {m})
  BY DEF Within
<1>3. cached \in [HistoryKeys -> SUBSET Messages]
  BY DEF IsApp
<1> HIDE DEF cached
<1>4. /\ IsApp(stored) /\ stored.active = a.active /\ stored.baseline = a.baseline
      /\ stored.cached = cached
  BY <1>3 DEF IsApp, Fields
<1> HIDE DEF stored
<1>5. SameLoads(stored, counted)
  BY <1>4 DEF SameLoads, IsApp, Fields
<1>6. \/ effect = NoEffect \/ effect.kind = "notify"
      \/ effect \in Requests /\ effect.kind = "read"
  <2> DEFINE read == [kind |-> "read", key |-> a.key, page |-> NoPage]
             notify == [kind |-> "notify", item |-> <<"notify", c>>]
  <2>1. read \in Requests /\ read.kind = "read"
    BY DEF IsApp, Requests
  <2>2. notify.kind = "notify"
    OBVIOUS
  <2>3. effect = NoEffect \/ effect = read \/ effect = notify
    OBVIOUS
  <2> HIDE DEF effect, read, notify
  <2> QED
    BY <2>1, <2>2, <2>3
<1> HIDE DEF counted, effect
<1>7. SameLoads(stored, queued)
  BY <1>5, QueuesSame, SameTrans DEF SameLoads
<1> HIDE DEF queued
<1>8. SameLoads(stored, visible)
  BY <1>7, QueuesSame, SameTrans DEF SameLoads
<1> HIDE DEF visible, s
<1>9. IF effect # NoEffect THEN s = Step(visible, effect) ELSE s = RequestOffline(visible)
  BY <1>1 DEF OrElse, Step
<1>10. Asks(stored, s) \/ Opens(stored, s)
  <2>1. CASE effect = NoEffect
    BY <1>8, <1>9, <2>1, RequestOfflineAsks, SameAsks DEF SameLoads
  <2>2. CASE effect # NoEffect /\ effect.kind = "notify"
    BY <1>8, <1>9, <2>2 DEF Opens, Step
  <2>3. CASE effect # NoEffect /\ effect \in Requests /\ effect.kind = "read"
    BY <1>8, <1>9, <2>3 DEF Asks, SameLoads, Step, IsLoad
  <2> QED
    BY <1>6, <2>1, <2>2, <2>3
<1> QED
  BY <1>2, <1>4, <1>10 DEF s

LEMMA DeliverKeeps ==
    ASSUME HistoryInv, Deliver
    PROVE  HistoryInv'
<1> DEFINE m == Head(updates).message
<1>1. /\ updates # <<>> /\ updates' = Tail(updates) /\ remote' = remote
      /\ \/ /\ Transition(MessageAdded(app, m))
            /\ due' = [k \in HistoryKeys |-> due[k] \cup Within(k, {m})]
         \/ /\ Transition(Step(Deleted(app, m), NoEffect))
            /\ due' = [k \in HistoryKeys |-> due[k] \ {m}]
  BY DEF Deliver
<1>2. m \in remote.issued /\ m \in Messages /\ Tail(updates) \in Seq(RemoteUpdate)
  BY <1>1, UpdateHeads
<1> HIDE DEF m
<1>3. IsApp(app) /\ Known(app.cached)
  BY DEF HistoryInv, ReducerGood
<1>4. RemoteGood'
  BY <1>1, <1>2 DEF HistoryInv, RemoteGood, RemoteUpdate
<1>5. /\ \A k \in HistoryKeys \ outlived : due[k] \cap remote.exists \subseteq app.cached[k]
      /\ \A k \in HistoryKeys : due[k] \subseteq remote.issued
  BY DEF HistoryInv, LiveKept, DueKnown
<1>6. CASE /\ Transition(MessageAdded(app, m))
           /\ due' = [k \in HistoryKeys |-> due[k] \cup Within(k, {m})]
  <2>1. PICK b : /\ IsApp(b) /\ b.active = app.active /\ b.baseline = app.baseline
                 /\ \A k \in HistoryKeys : b.cached[k] = app.cached[k] \cup Within(k, {m})
                 /\ Asks(b, MessageAdded(app, m)) \/ Opens(b, MessageAdded(app, m))
    BY <1>2, <1>3, AddedAsks
  <2>2. Known(b.cached)
    <3>1. \A k \in HistoryKeys : Within(k, {m}) \subseteq Within(k, remote.issued)
      BY <1>2 DEF Within
    <3> QED
      BY <1>3, <2>1, <3>1 DEF Known
  <2>3. /\ ReducerGood' /\ app'.cached = b.cached
        /\ LaneGood(control, app.active, app.baseline)'
        /\ LoadHasRequest' /\ UNCHANGED outlived
    BY <1>1, <1>6, <2>1, <2>2, TransitionKeeps
  <2>4. LiveKept'
    <3>1. /\ remote' = remote /\ outlived' = outlived
          /\ \A k \in HistoryKeys : app'.cached[k] = app.cached[k] \cup Within(k, {m})
          /\ \A k \in HistoryKeys : due'[k] = due[k] \cup Within(k, {m})
      BY <1>1, <1>6, <2>1, <2>3
    <3> QED
      BY <1>5, <3>1 DEF LiveKept
  <2>5. DueKnown'
    <3>1. \A k \in HistoryKeys : Within(k, {m}) \subseteq remote.issued
      BY <1>2 DEF Within
    <3> QED
      BY <1>1, <1>5, <1>6, <3>1 DEF DueKnown
  <2> QED
    BY <1>4, <2>3, <2>4, <2>5 DEF HistoryInv
<1>7. CASE /\ Transition(Step(Deleted(app, m), NoEffect))
           /\ due' = [k \in HistoryKeys |-> due[k] \ {m}]
  <2> DEFINE b == Deleted(app, m)
  <2>1. /\ IsApp(b) /\ b.active = app.active /\ b.baseline = app.baseline
        /\ b.cached = [k \in HistoryKeys |-> app.cached[k] \ {m}]
    BY <1>3 DEF Deleted, IsApp, Fields
  <2>2. Known(b.cached)
    BY <1>3, <2>1 DEF Known
  <2> HIDE DEF b
  <2>3. Asks(b, Step(b, NoEffect))
    BY <2>1, Silent DEF SameLoads
  <2>4. /\ ReducerGood' /\ app'.cached = b.cached
        /\ LaneGood(control, app.active, app.baseline)'
        /\ LoadHasRequest' /\ UNCHANGED outlived
    BY <1>1, <1>7, <2>1, <2>2, <2>3, TransitionKeeps DEF b
  <2>5. LiveKept'
    BY <1>1, <1>5, <1>7, <2>1, <2>4 DEF LiveKept
  <2>6. DueKnown'
    BY <1>1, <1>5, <1>7 DEF DueKnown
  <2> QED
    BY <1>4, <2>4, <2>5, <2>6 DEF HistoryInv
<1> QED
  BY <1>1, <1>6, <1>7

\* What Telegram issues is new, and what it deletes only leaves fewer to hold.
LEMMA RemoteMoves ==
    ASSUME HistoryInv, UNCHANGED <<app, control, due, displaced, outlived>>,
           remote.issued \subseteq remote'.issued,
           remote'.exists \cap remote.issued \subseteq remote.exists
    PROVE  /\ ReducerGood' /\ DueKnown' /\ LoadHasRequest' /\ LiveKept'
           /\ LaneGood(control, app.active, app.baseline)'
<1>1. /\ app' = app /\ control' = control /\ due' = due /\ displaced' = displaced
      /\ outlived' = outlived
  OBVIOUS
<1>2. \A k : Within(k, remote.issued) \subseteq Within(k, remote'.issued)
  BY DEF Within
<1>3. ReducerGood'
  BY <1>1, <1>2 DEF HistoryInv, ReducerGood, Known, IsApp
<1>4. DueKnown' /\ LoadHasRequest'
  BY <1>1 DEF HistoryInv, DueKnown, LoadHasRequest
<1>5. LiveKept'
  BY <1>1 DEF HistoryInv, DueKnown, LiveKept
<1>6. LaneGood(control, app.active, app.baseline)
  BY DEF HistoryInv
<1>7. \A i \in Awaited(control) : control[i].key \in HistoryKeys
  <2>1. \A i \in DOMAIN control : control[i] \in Effects
    BY <1>6, ElementOfSeq, LenProperties DEF LaneGood
  <2> QED
    BY <2>1 DEF Awaited, Effects
<1>8. ASSUME NEW i \in Awaited(control)
      PROVE  app.baseline \cap remote'.exists \subseteq app.baseline \cap remote.exists
  <2>1. app.active \in HistoryKeys
    BY <1>6, <1>7, <1>8 DEF LaneGood
  <2>2. app.baseline \subseteq remote.issued
    BY <2>1, HistoryAssumption DEF HistoryInv, ReducerGood, Within
  <2> QED
    BY <2>2
<1>9. \A i \in Awaited(control) : control[i].page # NoPage
                                  => Covers(control[i].page, app.baseline \cap remote'.exists)
  BY <1>6, <1>8 DEF LaneGood, Covers
<1>10. Awaited(control)' = Awaited(control)
  BY <1>1 DEF Awaited
<1>11. \A i \in DOMAIN control : control[i].kind = "load" /\ control[i].page # NoPage
                                 => control[i].page \subseteq Within(control[i].key, remote'.issued)
  BY <1>2, <1>6 DEF LaneGood
<1>12. LaneGood(control, app.active, app.baseline)'
  BY <1>1, <1>6, <1>9, <1>10, <1>11 DEF LaneGood
<1> QED
  BY <1>3, <1>4, <1>5, <1>12

LEMMA UpdatesGrow ==
    ASSUME HistoryInv, remote.issued \subseteq remote'.issued,
           NEW kind \in {"added", "deleted"}, NEW m \in remote'.issued,
           updates' = Append(updates, [kind |-> kind, message |-> m])
    PROVE  updates' \in Seq(RemoteUpdate')
<1>1. RemoteUpdate \subseteq RemoteUpdate'
  BY DEF RemoteUpdate
<1>2. updates \in Seq(RemoteUpdate')
  BY <1>1, SeqMonotonic DEF HistoryInv, RemoteGood
<1>3. [kind |-> kind, message |-> m] \in RemoteUpdate'
  BY DEF RemoteUpdate
<1> QED
  BY <1>2, <1>3, AppendProperties

LEMMA IssueKeeps ==
    ASSUME HistoryInv, NEW m \in Messages, Issue(m)
    PROVE  HistoryInv'
<1>1. /\ m \notin remote.issued
      /\ remote' = [issued |-> remote.issued \cup {m}, exists |-> remote.exists \cup {m}]
      /\ updates' = Append(updates, [kind |-> "added", message |-> m])
      /\ UNCHANGED <<app, control, due, displaced, outlived>>
  BY DEF Issue
<1>2. /\ remote'.issued = remote.issued \cup {m} /\ remote'.exists = remote.exists \cup {m}
      /\ remote' = [issued |-> remote'.issued, exists |-> remote'.exists]
  BY <1>1
<1>3. /\ ReducerGood' /\ DueKnown' /\ LoadHasRequest' /\ LiveKept'
      /\ LaneGood(control, app.active, app.baseline)'
  BY <1>1, <1>2, RemoteMoves
<1>4. updates' \in Seq(RemoteUpdate')
  BY <1>1, <1>2, UpdatesGrow
<1>5. IsFiniteSet(remote'.issued)
  BY <1>2, FS_AddElement DEF HistoryInv, RemoteGood
<1>6. RemoteGood'
  BY <1>2, <1>4, <1>5 DEF HistoryInv, RemoteGood
<1> QED
  BY <1>3, <1>6 DEF HistoryInv

LEMMA DeleteKeeps ==
    ASSUME HistoryInv, NEW m \in Messages, Delete(m)
    PROVE  HistoryInv'
<1>1. /\ m \in remote.exists /\ remote' = [remote EXCEPT !.exists = @ \ {m}]
      /\ updates' = Append(updates, [kind |-> "deleted", message |-> m])
      /\ UNCHANGED <<app, control, due, displaced, outlived>>
  BY DEF Delete
<1>2. remote = [issued |-> remote.issued, exists |-> remote.exists] /\ m \in remote.issued
  BY <1>1 DEF HistoryInv, RemoteGood
<1>3. /\ remote'.issued = remote.issued /\ remote'.exists = remote.exists \ {m}
      /\ remote' = [issued |-> remote'.issued, exists |-> remote'.exists]
  BY <1>1, <1>2
<1>4. /\ ReducerGood' /\ DueKnown' /\ LoadHasRequest' /\ LiveKept'
      /\ LaneGood(control, app.active, app.baseline)'
  BY <1>1, <1>3, RemoteMoves
<1>5. updates' \in Seq(RemoteUpdate')
  BY <1>1, <1>2, <1>3, UpdatesGrow
<1>6. RemoteGood'
  BY <1>3, <1>5 DEF HistoryInv, RemoteGood
<1> QED
  BY <1>4, <1>6 DEF HistoryInv
-----------------------------------------------------------------------------
(* HistoryLoads: the connection, and the theorems.                           *)

LEMMA AtMostNat ==
    ASSUME NEW m \in Nat, NEW n \in Nat
    PROVE  AtMost(m, n) \in Nat
  BY DEF AtMost

LEMMA ChatsListed ==
    /\ ChatCount \in Nat \ {0} /\ SweepLimit \in Nat
    /\ Root(ChatList[1]) \in HistoryKeys
    /\ \A c \in Chats : IndexOf(c) - 1 \in Nat
<1>1. ChatList \in Seq(Chats) /\ ChatList # <<>> /\ SweepLimit \in Nat
  BY HistoryAssumption
<1>2. ChatCount \in Nat \ {0} /\ DOMAIN ChatList = 1..ChatCount
  BY <1>1, LenProperties, EmptySeq DEF ChatCount
<1>3. Root(ChatList[1]) \in HistoryKeys
  BY <1>2 DEF Chats, Root, HistoryKeys
<1>4. ASSUME NEW c \in Chats PROVE IndexOf(c) - 1 \in Nat
  <2>1. \E i \in DOMAIN ChatList : ChatList[i] = c
    BY DEF Chats
  <2>2. IndexOf(c) \in DOMAIN ChatList
    BY <2>1 DEF IndexOf
  <2> QED
    BY <1>2, <2>2
<1> QED
  BY <1>1, <1>2, <1>3, <1>4

\* The lane of a restored connection asks everything again.
LEMMA AskedAgain ==
    ASSUME NEW effects \in Seq(Effects), NEW again,
           again = [i \in DOMAIN effects |-> [effects[i] EXCEPT !.page = NoPage]]
    PROVE  again \in Seq(Effects) /\ \A i \in DOMAIN again : again[i].page = NoPage
<1>1. Len(effects) \in Nat /\ DOMAIN effects = 1..Len(effects) /\ \A i \in DOMAIN effects : effects[i] \in Effects
  BY LenProperties, ElementOfSeq
<1>2. \A i \in 1..Len(effects) : again[i] \in Effects /\ again[i].page = NoPage
  BY <1>1 DEF Effects
<1>3. again \in [1..Len(effects) -> Effects]
  BY <1>1, <1>2
<1> QED
  BY <1>1, <1>2, <1>3

LEMMA ConnectionRestoredKeeps ==
    ASSUME HistoryInv, ConnectionRestored
    PROVE  HistoryInv'
<1> DEFINE known == UNION { app.cached[k] : k \in HistoryKeys }
                    \cup { updates[i].message : i \in DOMAIN updates }
           cached == [k \in HistoryKeys |-> Within(k, known \cap remote.exists)]
           reset == ResetLoads(app)
           fresh == [reset EXCEPT !.cached = cached, !.topics = FALSE,
                                  !.offActive = {}, !.offQueued = {},
                                  !.smallActive = {}, !.previews = {}, !.avatars = {},
                                  !.failed = {}]
           offline == [fresh EXCEPT !.offQueued =
                         UNION { QueueOffline(fresh, c).offQueued : c \in Chats }]
           again == [i \in DOMAIN control |-> [control[i] EXCEPT !.page = NoPage]]
           visible == QueueAvatars(QueuePreviews(offline))
           off == RequestOffline(visible)
           swept == OrElse(off, RequestBackground)
           s == OrElse(swept, RequestSmall)
<1>1. /\ app' = s.app /\ due' = cached /\ remote' = remote
      /\ updates' = <<>>
      /\ control' = IF s.effect # NoEffect /\ s.effect.kind = "load"
                    THEN Append(WithoutNavigation(again), s.effect)
                    ELSE again
      /\ outlived' = { control'[i].key : i \in { j \in DOMAIN control' :
                         control'[j].kind = "load" /\ s.app.active = NoKey } }
  BY DEF ConnectionRestored
<1>2. /\ IsApp(app) /\ control \in Seq(Effects) /\ RemoteGood /\ ReducerGood
  BY DEF HistoryInv, LaneGood, ReducerGood
<1>3. /\ again \in Seq(Effects)
      /\ \A i \in DOMAIN again : again[i].page = NoPage
  BY <1>2, AskedAgain
<1> HIDE DEF known, again
<1>4. /\ cached \in [HistoryKeys -> SUBSET Messages]
      /\ \A k \in HistoryKeys : cached[k] \subseteq Within(k, remote.issued)
  BY <1>2 DEF Within, RemoteGood
<1> HIDE DEF cached
<1>5. /\ IsApp(reset) /\ reset.active = NoKey /\ reset.baseline = {}
  <2>1. IndexOf(app.key.chat) - 1 \in Nat /\ AtMost(ChatCount, SweepLimit) \in Nat
    BY <1>2, ChatsListed, AtMostNat DEF IsApp, HistoryKeys
  <2> QED
    BY <1>2, <2>1 DEF ResetLoads, IsApp, Fields
<1> HIDE DEF reset
<1>6. IsApp(fresh) /\ fresh.active = NoKey /\ fresh.cached = cached
  BY <1>4, <1>5 DEF IsApp, Fields
<1> HIDE DEF fresh
<1>7. SameLoads(fresh, offline)
  BY <1>6 DEF SameLoads, IsApp, Fields
<1> HIDE DEF offline
<1>8. SameLoads(fresh, visible)
  BY <1>7, QueuedAfter
<1> HIDE DEF visible
<1>9. Asks(fresh, off)
  BY <1>8, RequestOfflineAsks, SameAsks DEF SameLoads
<1> HIDE DEF off
<1>10. Asks(fresh, swept)
  <2>1. IF off.effect # NoEffect THEN swept = off ELSE swept = RequestBackground(off.app)
    BY DEF OrElse
  <2> HIDE DEF swept
  <2>2. Asks(off.app, RequestBackground(off.app))
    BY <1>9, RequestBackgroundAsks DEF Asks
  <2> QED
    BY <1>9, <2>1, <2>2, AsksThen
<1>11. Asks(fresh, s)
  <2>1. IF swept.effect # NoEffect THEN s = swept ELSE s = RequestSmall(swept.app)
    BY DEF OrElse
  <2> HIDE DEF s, swept
  <2>2. Asks(swept.app, RequestSmall(swept.app))
    BY <1>10, RequestSmallAsks DEF Asks
  <2> QED
    BY <1>10, <2>1, <2>2, AsksThen
<1> HIDE DEF s, swept
<1>12. ReducerGood' /\ app'.cached = cached
  <2>1. Known(fresh.cached)
    BY <1>4, <1>6 DEF Known
  <2> QED
    BY <1>1, <1>2, <1>6, <1>11, <2>1, ReducerAfter
<1>13. LiveKept' /\ DueKnown'
  <2>1. \A k \in HistoryKeys : cached[k] \subseteq remote.issued
    BY <1>4 DEF Within
  <2> QED
    BY <1>1, <1>12, <2>1 DEF LiveKept, DueKnown
<1>14. RemoteGood'
  <2>1. updates' \in Seq(RemoteUpdate')
    BY <1>1, EmptySeq
  <2> QED
    BY <1>1, <1>2, <2>1 DEF RemoteGood
<1>15. CASE IsLoad(s.effect)
  <2> DEFINE rest == WithoutNavigation(again)
             active == app'.active
             e == LoadEffect(active)
  <2>1. active \in HistoryKeys /\ s.effect = e
    BY <1>1, <1>11, <1>15 DEF Asks
  <2>2. /\ e \in Effects /\ e.kind = "load" /\ e.key = active /\ e.page = NoPage
    BY <2>1 DEF LoadEffect, Effects
  <2>3. rest \in Seq(Effects) /\ \A i \in DOMAIN rest : rest[i].kind # "load"
    BY <1>3, WithoutNavigationLoads DEF Thinned
  <2> HIDE DEF rest, active, e
  <2>4. control' = Append(rest, e)
    BY <1>1, <1>15, <2>1 DEF IsLoad, rest
  <2>5. /\ control' \in Seq(Effects)
        /\ \A i \in DOMAIN control' : control'[i].kind = "load" =>
              i = Len(rest) + 1 /\ control'[i].key = active /\ control'[i].page = NoPage
        /\ \E i \in DOMAIN control' : control'[i].kind = "load" /\ control'[i].key = active
    BY <2>2, <2>3, <2>4, Appended
  <2>6. LaneGood(control, app.active, app.baseline)'
    BY <2>5 DEF LaneGood, Awaited, active
  <2>7. LoadHasRequest'
    BY <2>5 DEF LoadHasRequest, active
  <2> QED
    BY <1>12, <1>13, <1>14, <2>6, <2>7 DEF HistoryInv
<1>16. CASE ~IsLoad(s.effect)
  <2>1. control' = again /\ app'.active = NoKey
    BY <1>1, <1>6, <1>11, <1>16 DEF Asks, IsLoad
  <2>2. \A i \in DOMAIN control' : control'[i].kind = "load" => control'[i].key \in outlived'
    BY <1>1, <2>1
  <2>3. Awaited(control)' = {}
    BY <2>2 DEF Awaited
  <2>4. LaneGood(control, app.active, app.baseline)'
    BY <1>3, <2>1, <2>3 DEF LaneGood
  <2>5. LoadHasRequest'
    BY <2>1 DEF LoadHasRequest
  <2> QED
    BY <1>12, <1>13, <1>14, <2>4, <2>5 DEF HistoryInv
<1> QED
  BY <1>15, <1>16

LEMMA HistoryStarts == HistoryInit => HistoryInv
<1> DEFINE s == RequestBackground(InitialApp)
<1> SUFFICES ASSUME HistoryInit PROVE HistoryInv
  OBVIOUS
<1>1. /\ app = s.app /\ control = IF s.effect = NoEffect THEN <<>> ELSE <<s.effect>>
      /\ remote = [issued |-> {}, exists |-> {}] /\ updates = <<>>
      /\ due = [k \in HistoryKeys |-> {}]
  BY DEF HistoryInit
<1>2. IsApp(InitialApp) /\ InitialApp.active = NoKey
      /\ InitialApp.cached = [k \in HistoryKeys |-> {}]
  <2>1. 1 % ChatCount \in Nat /\ AtMost(ChatCount - 1, SweepLimit) \in Nat
    <3>1. ChatCount \in Nat \ {0} /\ SweepLimit \in Nat
      BY ChatsListed
    <3> QED
      BY <3>1, AtMostNat
  <2> QED
    BY <2>1, ChatsListed DEF InitialApp, IsApp, Fields
<1>3. Asks(InitialApp, s) /\ (s.effect # NoEffect => IsLoad(s.effect))
  BY <1>2, RequestBackgroundAsks
<1> HIDE DEF s
<1>4. IsApp(app) /\ app.cached = [k \in HistoryKeys |-> {}]
  BY <1>1, <1>2, <1>3 DEF Asks
<1>5. RemoteGood
  <2>1. updates \in Seq(RemoteUpdate)
    BY <1>1, EmptySeq
  <2>2. IsFiniteSet(remote.issued)
    BY <1>1, FS_EmptySet
  <2> QED
    BY <1>1, <2>1, <2>2 DEF RemoteGood
<1>6. LiveKept /\ DueKnown
  BY <1>1 DEF LiveKept, DueKnown
<1>7. CASE s.effect = NoEffect
  <2>1. app.active = NoKey /\ control = <<>>
    BY <1>1, <1>2, <1>3, <1>7 DEF Asks, IsLoad
  <2>2. control \in Seq(Effects) /\ DOMAIN control = {}
    BY <2>1, EmptySeq
  <2>3. LaneGood(control, app.active, app.baseline)
    BY <2>2 DEF LaneGood, Awaited
  <2>4. ReducerGood
    BY <1>4, <2>1 DEF ReducerGood, Known
  <2>5. LoadHasRequest
    BY <2>1 DEF LoadHasRequest
  <2> QED
    BY <1>5, <1>6, <2>3, <2>4, <2>5 DEF HistoryInv
<1>8. CASE s.effect # NoEffect
  <2> DEFINE e == LoadEffect(app.active)
  <2>1. app.active \in HistoryKeys /\ control = <<e>> /\ app.baseline = {}
    BY <1>1, <1>2, <1>3, <1>8 DEF Asks
  <2>2. e \in Effects /\ e.kind = "load" /\ e.key = app.active /\ e.page = NoPage
    BY <2>1 DEF LoadEffect, Effects
  <2> HIDE DEF e
  <2>3. control \in Seq(Effects) /\ DOMAIN control = {1} /\ control[1] = e
    BY <2>1, <2>2
  <2>4. LaneGood(control, app.active, app.baseline)
    BY <2>2, <2>3 DEF LaneGood, Awaited
  <2>5. ReducerGood
    BY <1>4, <2>1 DEF ReducerGood, Known
  <2>6. LoadHasRequest
    BY <2>2, <2>3 DEF LoadHasRequest
  <2> QED
    BY <1>5, <1>6, <2>4, <2>5, <2>6 DEF HistoryInv
<1> QED
  BY <1>7, <1>8

LEMMA HistoryUnchanged ==
    ASSUME HistoryInv, UNCHANGED vars
    PROVE  HistoryInv'
<1>1. /\ app' = app /\ control' = control /\ remote' = remote /\ updates' = updates
      /\ due' = due /\ displaced' = displaced /\ outlived' = outlived
  BY DEF vars
<1>2. /\ ReducerGood' /\ DueKnown' /\ LoadHasRequest' /\ LiveKept'
      /\ LaneGood(control, app.active, app.baseline)'
  BY <1>1, RemoteMoves
<1>3. RemoteGood'
  BY <1>1 DEF HistoryInv, RemoteGood, RemoteUpdate
<1> QED
  BY <1>2, <1>3 DEF HistoryInv

LEMMA HistoryKeeps == HistoryInv /\ [HistoryNext]_vars => HistoryInv'
<1> SUFFICES ASSUME HistoryInv, [HistoryNext]_vars PROVE HistoryInv'
  OBVIOUS
<1>1. CASE User
  BY <1>1, MoveToKeeps, KeepOfflineKeeps, OpenChatKeeps, OpenThreadKeeps, LeaveKeeps DEF User
<1>2. CASE Telegram
  BY <1>2, IssueKeeps, DeleteKeeps, PinMissingKeeps DEF Telegram
<1>3. CASE Serve
  BY <1>3, AnswerKeeps, LoadDoneKeeps, LoadFailedKeeps, TopicsDoneKeeps, StartReadKeeps,
     ReadDoneKeeps DEF Serve
<1>4. CASE StartOffered \/ EndSmall \/ OfflineDone
  BY <1>4, StartNotifyKeeps, StartSmallKeeps, SmallDoneKeeps, OfflineDoneKeeps
     DEF StartOffered, EndSmall
<1>5. CASE Deliver \/ ConnectionRestored
  BY <1>5, DeliverKeeps, ConnectionRestoredKeeps
<1>6. CASE UNCHANGED vars
  BY <1>6, HistoryUnchanged
<1> QED
  BY <1>1, <1>2, <1>3, <1>4, <1>5, <1>6 DEF HistoryNext

LEMMA HistoryInvAlways == HistorySpec => []HistoryInv
  BY HistoryStarts, HistoryKeeps, PTL DEF HistorySpec

\* A history that was told to hold a message holds it as long as it exists,
\* whatever page comes in and whatever was asked for before it came, unless the
\* load of that history outlived its connection (reconcile_refresh,
\* apply_added_message).
THEOREM LiveKeptAlways == HistorySpec => []LiveKept
<1>1. HistoryInv => LiveKept
  BY DEF HistoryInv
<1> QED
  BY <1>1, HistoryInvAlways, PTL

\* The load the reducer waits for has its request on the control lane, unless an
\* offline download or a list of topics took its place (input.rs,
\* runtime/types.rs).
THEOREM LoadHasRequestAlways == HistorySpec => []LoadHasRequest
<1>1. HistoryInv => LoadHasRequest
  BY DEF HistoryInv
<1> QED
  BY <1>1, HistoryInvAlways, PTL
=============================================================================
