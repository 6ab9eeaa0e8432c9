-------------------------- MODULE SessionRuntimeProofs --------------------------
(***************************************************************************)
(* Proofs about SessionRuntime, for any effects, lanes, limits, capacity   *)
(* and faults: what is held is held once and fits its bounds, effects of a *)
(* serial lane never overtake each other, and nothing is forgotten.        *)
(*                                                                         *)
(* The queue is rewritten in four ways: an effect enters behind what it    *)
(* does not replace, one starts, one returns to the front, or all leave.   *)
(* Each is shown once to keep the members apart and in order.  The rest is *)
(* that an effect which asks to enter is not held yet, because each is     *)
(* asked for once, and that no effect is active but in a running loop.     *)
(***************************************************************************)
EXTENDS SessionRuntime, FiniteSetTheorems, SequenceTheorems, WellFoundedInduction, TLAPS

USE RuntimeAssumption

-------------------------------------------------------------------------------
(* Queues.                                                                 *)

\* a stands in front of b.
InOrder(queue, a, b) ==
    \E i, k \in DOMAIN queue : i < k /\ queue[i] = a /\ queue[k] = b

LEMMA LeastNumber ==
    ASSUME NEW T \in SUBSET Nat, T # {}
    PROVE  \E x \in T : \A y \in T : x <= y
<1>. DEFINE R == OpToRel(<, Nat)
<1>1. IsWellFoundedOn(R, Nat)
  BY NatLessThanWellFounded
<1>2. \A x, y \in Nat : x < y => <<x, y>> \in R
  BY DEF OpToRel
<1>. HIDE DEF R
<1>3. PICK x \in T : \A y \in T : ~ (<<y, x>> \in R)
  BY <1>1, WFMin
<1>4. ASSUME NEW y \in T PROVE x <= y
  <2>1. ~(y < x)
    BY <1>2, <1>3
  <2>. QED
    BY <2>1
<1>. QED
  BY <1>4

\* What holds of 0, and of n + 1 when it holds of n, holds up to any bound: the
\* numbers it does not hold of have no least one.
LEMMA UpTo ==
    ASSUME NEW N \in Nat, NEW T, 0 \in T, \A n \in 0..N : n < N /\ n \in T => n + 1 \in T
    PROVE  \A n \in 0..N : n \in T
<1>. DEFINE rest == {n \in 0..N : n \notin T}
<1>1. SUFFICES ASSUME rest # {} PROVE FALSE
  OBVIOUS
<1>2. rest \in SUBSET Nat
  OBVIOUS
<1>3. PICK x \in rest : \A y \in rest : x <= y
  BY <1>1, <1>2, LeastNumber
<1>4. x \in 0..N /\ x # 0 /\ x \notin T
  BY <1>3
<1>5. x - 1 \in 0..N /\ x - 1 < N /\ (x - 1) + 1 = x
  BY <1>4
<1>6. x - 1 \in T
  BY <1>3, <1>5
<1>. QED
  BY <1>4, <1>5, <1>6

\* The steps by which Kept goes through the queue.
IsRun(queue, e, first, N) ==
    first = [n \in 0..N |-> IF n = 0 THEN <<>>
                            ELSE IF SameGroup(queue[n], e) THEN first[n - 1]
                            ELSE Append(first[n - 1], queue[n])]

\* There is a run of any length.
LEMMA RunExists ==
    ASSUME NEW queue \in Seq(Effects), NEW e
    PROVE  \E first : IsRun(queue, e, first, Len(queue))
<1>. DEFINE T == {N \in 0..Len(queue) : \E first : IsRun(queue, e, first, N)}
<1>0. Len(queue) \in Nat
  BY LenProperties
<1>1. 0 \in T
  <2>. DEFINE one == [n \in 0..0 |-> <<>>]
  <2>1. IsRun(queue, e, one, 0)
    <3>1. \A n \in 0..0 : n = 0
      OBVIOUS
    <3>. QED
      BY <3>1 DEF IsRun
  <2>. QED
    BY <1>0, <2>1
<1>2. ASSUME NEW n \in 0..Len(queue), n < Len(queue), n \in T PROVE n + 1 \in T
  <2>1. PICK first : IsRun(queue, e, first, n)
    BY <1>2
  <2>. DEFINE last == IF SameGroup(queue[n + 1], e) THEN first[n] ELSE Append(first[n], queue[n + 1])
              more == [m \in 0..(n + 1) |-> IF m = n + 1 THEN last ELSE first[m]]
  <2>2. \A m \in 0..n : first[m] = IF m = 0 THEN <<>>
                                   ELSE IF SameGroup(queue[m], e) THEN first[m - 1]
                                   ELSE Append(first[m - 1], queue[m])
    BY <2>1 DEF IsRun
  <2>3. ASSUME NEW m \in 0..(n + 1)
        PROVE  more[m] = IF m = 0 THEN <<>>
                         ELSE IF SameGroup(queue[m], e) THEN more[m - 1]
                         ELSE Append(more[m - 1], queue[m])
    <3>1. CASE m = n + 1
      <4>1. m # 0 /\ m - 1 = n /\ n \in 0..(n + 1) /\ n # n + 1
        <5>. HIDE DEF more, last
        <5>1. n \in Nat
          BY <1>0
        <5>. QED
          BY <3>1, <5>1
      <4>2. more[m - 1] = first[n] /\ more[m] = last
        BY <3>1, <4>1
      <4>. QED
        BY <3>1, <4>1, <4>2
    <3>2. CASE m # n + 1
      <4>1. m \in 0..n /\ more[m] = first[m]
        BY <1>0, <3>2
      <4>2. m # 0 => m - 1 \in 0..(n + 1) /\ m - 1 # n + 1
        BY <1>0, <4>1
      <4>3. m # 0 => more[m - 1] = first[m - 1]
        BY <4>2
      <4>. HIDE DEF more
      <4>. QED
        BY <2>2, <4>1, <4>3
    <3>. QED
      BY <3>1, <3>2
  <2>4. more = [m \in 0..(n + 1) |-> more[m]]
    OBVIOUS
  <2>. HIDE DEF more
  <2>5. IsRun(queue, e, more, n + 1)
    BY <2>3, <2>4 DEF IsRun
  <2>6. n + 1 \in 0..Len(queue)
    BY <1>0, <1>2
  <2>. QED
    BY <2>5, <2>6
<1>. HIDE DEF T
<1>3. \A n \in 0..Len(queue) : n \in T
  BY <1>0, <1>1, <1>2, UpTo
<1>4. Len(queue) \in T
  BY <1>0, <1>3
<1>. QED
  BY <1>4 DEF T

\* place is where each of the kept stood among the first n of the queue.
Places(queue, e, kept, n, place) ==
    /\ \A j \in 1..Len(kept) : /\ place[j] \in 1..n /\ kept[j] = queue[place[j]]
                               /\ ~SameGroup(queue[place[j]], e)
    /\ \A j, k \in 1..Len(kept) : j < k => place[j] < place[k]
    /\ \A i \in 1..n : ~SameGroup(queue[i], e) => \E j \in 1..Len(kept) : place[j] = i

\* The kept are the first n of the queue that e does not replace, in their order.
Embeds(queue, e, kept, n) ==
    kept \in Seq(Effects) /\ \E place : Places(queue, e, kept, n, place)

LEMMA EmbedsSkip ==
    ASSUME NEW queue \in Seq(Effects), NEW e, NEW n \in Nat, NEW kept,
           Embeds(queue, e, kept, n), SameGroup(queue[n + 1], e)
    PROVE  Embeds(queue, e, kept, n + 1)
<1>1. PICK place : Places(queue, e, kept, n, place)
  BY DEF Embeds
<1>2. \A j \in 1..Len(kept) : place[j] \in 1..(n + 1)
  BY <1>1 DEF Places
<1>3. ASSUME NEW i \in 1..(n + 1), ~SameGroup(queue[i], e)
      PROVE  \E j \in 1..Len(kept) : place[j] = i
  <2>1. i # n + 1
    BY <1>3
  <2>2. i \in 1..n
    BY <2>1
  <2>. QED
    BY <1>1, <1>3, <2>2 DEF Places
<1>4. kept \in Seq(Effects)
  BY DEF Embeds
<1>5. Places(queue, e, kept, n + 1, place)
  BY <1>1, <1>2, <1>3 DEF Places
<1>. QED
  BY <1>4, <1>5 DEF Embeds

LEMMA EmbedsTake ==
    ASSUME NEW queue \in Seq(Effects), NEW e, NEW n \in Nat, n + 1 \in DOMAIN queue, NEW kept,
           Embeds(queue, e, kept, n), ~SameGroup(queue[n + 1], e)
    PROVE  Embeds(queue, e, Append(kept, queue[n + 1]), n + 1)
<1>. DEFINE more == Append(kept, queue[n + 1])
            last == Len(kept) + 1
<1>0. kept \in Seq(Effects) /\ queue[n + 1] \in Effects
  BY ElementOfSeq, LenProperties DEF Embeds
<1>1. PICK place : Places(queue, e, kept, n, place)
  BY DEF Embeds
<1>2. /\ more \in Seq(Effects) /\ Len(more) = last /\ Len(kept) \in Nat
      /\ \A j \in 1..Len(kept) : more[j] = kept[j]
      /\ more[last] = queue[n + 1]
  BY <1>0, AppendProperties, LenProperties
<1>. HIDE DEF more
<1>. DEFINE wider == [j \in 1..last |-> IF j = last THEN n + 1 ELSE place[j]]
<1>3. /\ wider[last] = n + 1 /\ n + 1 \in 1..(n + 1)
      /\ \A j \in 1..Len(kept) : wider[j] = place[j] /\ j \in 1..last /\ place[j] \in 1..n
  <2>1. \A j \in 1..Len(kept) : j \in 1..last /\ j # last
    BY <1>2
  <2>2. last \in 1..last
    BY <1>2
  <2>3. \A j \in 1..Len(kept) : place[j] \in 1..n
    BY <1>1 DEF Places
  <2>4. \A j \in 1..last : wider[j] = IF j = last THEN n + 1 ELSE place[j]
    OBVIOUS
  <2>. HIDE DEF wider
  <2>. QED
    BY <2>1, <2>2, <2>3, <2>4
<1>. HIDE DEF wider
<1>4. \A j \in 1..last : j = last \/ j \in 1..Len(kept)
  BY <1>2
<1>5. ASSUME NEW j \in 1..last
      PROVE  /\ wider[j] \in 1..(n + 1) /\ more[j] = queue[wider[j]]
             /\ ~SameGroup(queue[wider[j]], e)
  <2>1. CASE j = last
    BY <1>2, <1>3, <2>1
  <2>2. CASE j \in 1..Len(kept)
    <3>1. wider[j] = place[j] /\ more[j] = kept[j]
      BY <1>2, <1>3, <2>2
    <3>2. place[j] \in 1..n /\ kept[j] = queue[place[j]] /\ ~SameGroup(queue[place[j]], e)
      BY <1>1, <2>2 DEF Places
    <3>3. place[j] \in 1..(n + 1)
      BY <3>2
    <3>. QED
      BY <3>1, <3>2, <3>3
  <2>. QED
    BY <1>4, <2>1, <2>2
<1>6. ASSUME NEW j \in 1..last, NEW k \in 1..last, j < k
      PROVE  wider[j] < wider[k]
  <2>1. j \in 1..Len(kept)
    BY <1>2, <1>4, <1>6
  <2>2. CASE k = last
    <3>1. wider[j] = place[j] /\ place[j] \in 1..n /\ wider[k] = n + 1
      BY <1>3, <2>1, <2>2
    <3>2. \A m \in 1..n : m < n + 1
      OBVIOUS
    <3>. QED
      BY <3>1, <3>2
  <2>3. CASE k \in 1..Len(kept)
    <3>1. wider[j] = place[j] /\ wider[k] = place[k]
      BY <1>3, <2>1, <2>3
    <3>2. place[j] < place[k]
      BY <1>1, <1>6, <2>1, <2>3 DEF Places
    <3>. QED
      BY <3>1, <3>2
  <2>. QED
    BY <1>4, <2>2, <2>3
<1>7. ASSUME NEW i \in 1..(n + 1), ~SameGroup(queue[i], e)
      PROVE  \E j \in 1..last : wider[j] = i
  <2>1. CASE i = n + 1
    <3>1. last \in 1..last
      BY <1>2
    <3>. QED
      BY <1>3, <2>1, <3>1
  <2>2. CASE i # n + 1
    <3>1. i \in 1..n
      BY <2>2
    <3>. QED
      BY <1>1, <1>3, <1>7, <3>1 DEF Places
  <2>. QED
    BY <2>1, <2>2
<1>8. Places(queue, e, more, n + 1, wider)
  <2>1. Len(more) = last
    BY <1>2
  <2>. HIDE DEF last
  <2>. QED
    BY <1>5, <1>6, <1>7, <2>1 DEF Places
<1>9. Embeds(queue, e, more, n + 1)
  BY <1>2, <1>8 DEF Embeds
<1>. QED
  BY <1>9 DEF more

\* What stays in a queue stays in its order.
LEMMA KeptEmbeds ==
    ASSUME NEW queue \in Seq(Effects), NEW e
    PROVE  Embeds(queue, e, Kept(queue, e), Len(queue))
<1>. DEFINE N == Len(queue)
            run == CHOOSE first : IsRun(queue, e, first, N)
<1>0. N \in Nat /\ DOMAIN queue = 1..N
  BY LenProperties
<1>1. Kept(queue, e) = run[N]
  BY DEF Kept, IsRun
<1>2. IsRun(queue, e, run, N)
  BY RunExists
<1>. HIDE DEF run
<1>3. \A n \in 0..N : run[n] = IF n = 0 THEN <<>>
                               ELSE IF SameGroup(queue[n], e) THEN run[n - 1]
                               ELSE Append(run[n - 1], queue[n])
  BY <1>2 DEF IsRun
<1>. DEFINE T == {n \in 0..N : Embeds(queue, e, run[n], n)}
<1>4. 0 \in T
  <2>1. run[0] = <<>>
    BY <1>0, <1>3
  <2>2. Len(<<>>) = 0 /\ <<>> \in Seq(Effects) /\ (\A j \in 1..0 : FALSE)
    BY EmptySeq
  <2>3. Embeds(queue, e, <<>>, 0)
    BY <2>2 DEF Embeds, Places
  <2>. QED
    BY <1>0, <2>1, <2>3
<1>5. ASSUME NEW n \in 0..N, n < N, n \in T PROVE n + 1 \in T
  <2>1. n + 1 \in 0..N /\ n + 1 \in DOMAIN queue /\ n + 1 # 0 /\ (n + 1) - 1 = n /\ n \in Nat
    BY <1>0, <1>5
  <2>2. run[n + 1] = IF SameGroup(queue[n + 1], e) THEN run[n] ELSE Append(run[n], queue[n + 1])
    BY <1>3, <2>1
  <2>3. Embeds(queue, e, run[n], n)
    BY <1>5
  <2>4. Embeds(queue, e, run[n + 1], n + 1)
    BY <2>1, <2>2, <2>3, EmbedsSkip, EmbedsTake
  <2>. QED
    BY <2>1, <2>4
<1>. HIDE DEF T
<1>6. N \in T
  <2>1. \A n \in 0..N : n \in T
    BY <1>0, <1>4, <1>5, UpTo
  <2>2. N \in 0..N
    BY <1>0
  <2>. HIDE DEF N
  <2>. QED
    BY <2>1, <2>2
<1>. QED
  BY <1>1, <1>6 DEF T

\* What stays keeps apart and in order.
LEMMA KeptIs ==
    ASSUME NEW queue \in Seq(Effects), NEW e
    PROVE  /\ Kept(queue, e) \in Seq(Effects)
           /\ Range(Kept(queue, e)) = {a \in Range(queue) : ~SameGroup(a, e)}
           /\ IsInjective(queue) => IsInjective(Kept(queue, e))
           /\ \A a, b : InOrder(queue, a, b) /\ ~SameGroup(a, e) /\ ~SameGroup(b, e)
                           => InOrder(Kept(queue, e), a, b)
<1>. DEFINE kept == Kept(queue, e)
<1>1. Embeds(queue, e, kept, Len(queue))
  BY KeptEmbeds
<1>. HIDE DEF kept
<1>2. /\ Len(queue) \in Nat /\ DOMAIN queue = 1..Len(queue)
      /\ kept \in Seq(Effects)
  BY <1>1, LenProperties DEF Embeds
<1>3. Len(kept) \in Nat /\ DOMAIN kept = 1..Len(kept)
  BY <1>2, LenProperties
<1>4. PICK place : Places(queue, e, kept, Len(queue), place)
  BY <1>1 DEF Embeds
<1>5. Range(kept) = {a \in Range(queue) : ~SameGroup(a, e)}
  <2>1. ASSUME NEW j \in DOMAIN kept
        PROVE  kept[j] \in Range(queue) /\ ~SameGroup(kept[j], e)
    <3>1. place[j] \in DOMAIN queue /\ kept[j] = queue[place[j]] /\ ~SameGroup(queue[place[j]], e)
      BY <1>2, <1>3, <1>4 DEF Places
    <3>2. queue[place[j]] \in Range(queue)
      BY <3>1 DEF Range
    <3>. QED
      BY <3>1, <3>2
  <2>2. ASSUME NEW i \in DOMAIN queue, ~SameGroup(queue[i], e)
        PROVE  queue[i] \in Range(kept)
    <3>1. PICK j \in DOMAIN kept : place[j] = i
      BY <1>2, <1>3, <1>4, <2>2 DEF Places
    <3>2. kept[j] = queue[i]
      BY <1>3, <1>4, <3>1 DEF Places
    <3>. QED
      BY <3>2 DEF Range
  <2>. QED
    BY <2>1, <2>2 DEF Range
<1>6. ASSUME NEW j \in DOMAIN kept, NEW k \in DOMAIN kept, place[j] = place[k]
      PROVE  j = k
  <2>1. j \in 1..Len(kept) /\ k \in 1..Len(kept)
    BY <1>3
  <2>2. place[j] \in Int /\ place[k] \in Int
    BY <1>4, <2>1 DEF Places
  <2>3. ~(j < k) /\ ~(k < j)
    BY <1>4, <1>6, <2>1, <2>2 DEF Places
  <2>. QED
    BY <2>1, <2>3
<1>7. ASSUME IsInjective(queue) PROVE IsInjective(kept)
  <2>1. ASSUME NEW j \in DOMAIN kept, NEW k \in DOMAIN kept, kept[j] = kept[k]
        PROVE  j = k
    <3>1. /\ place[j] \in DOMAIN queue /\ kept[j] = queue[place[j]]
          /\ place[k] \in DOMAIN queue /\ kept[k] = queue[place[k]]
      BY <1>2, <1>3, <1>4 DEF Places
    <3>2. place[j] = place[k]
      BY <1>7, <2>1, <3>1 DEF IsInjective
    <3>. QED
      BY <1>6, <3>2
  <2>. QED
    BY <2>1 DEF IsInjective
<1>8. ASSUME NEW a, NEW b, InOrder(queue, a, b), ~SameGroup(a, e), ~SameGroup(b, e)
      PROVE  InOrder(kept, a, b)
  <2>1. PICK i, k \in 1..Len(queue) : i < k /\ queue[i] = a /\ queue[k] = b
    BY <1>2, <1>8 DEF InOrder
  <2>2. PICK j \in 1..Len(kept) : place[j] = i
    BY <1>4, <1>8, <2>1 DEF Places
  <2>3. PICK l \in 1..Len(kept) : place[l] = k
    BY <1>4, <1>8, <2>1 DEF Places
  <2>4. j < l
    <3>1. l < j => place[l] < place[j]
      BY <1>4 DEF Places
    <3>2. ~(k < i) /\ k # i
      BY <2>1
    <3>3. ~(l < j) /\ l # j
      BY <2>2, <2>3, <3>1, <3>2
    <3>. QED
      BY <3>3
  <2>5. kept[j] = a /\ kept[l] = b
    BY <1>4, <2>1, <2>2, <2>3 DEF Places
  <2>. QED
    BY <1>3, <2>4, <2>5 DEF InOrder
<1>. QED
  BY <1>2, <1>5, <1>7, <1>8 DEF kept


\* A queue without one of its places.
LEMMA RemovedAt ==
    ASSUME NEW queue \in Seq(Effects), NEW i \in DOMAIN queue
    PROVE  /\ RemoveAt(queue, i) \in Seq(Effects)
           /\ Len(RemoveAt(queue, i)) = Len(queue) - 1
           /\ \A j \in 1..(Len(queue) - 1) :
                 RemoveAt(queue, i)[j] = IF j < i THEN queue[j] ELSE queue[j + 1]
<1>. DEFINE N == Len(queue)
            front == SubSeq(queue, 1, i - 1)
            back == SubSeq(queue, i + 1, N)
<1>1. N \in Nat /\ DOMAIN queue = 1..N /\ i \in 1..N
  BY LenProperties
<1>2. /\ front \in Seq(Effects) /\ Len(front) = i - 1
      /\ \A j \in 1..(i - 1) : front[j] = queue[j]
  <2>1. \A j \in 1..(i - 1) : queue[j] \in Effects
    BY <1>1, ElementOfSeq
  <2>2. /\ front \in Seq(Effects)
        /\ Len(front) = IF 1 <= i - 1 THEN (i - 1) - 1 + 1 ELSE 0
        /\ \A j \in 1..((i - 1) - 1 + 1) : front[j] = queue[1 + j - 1]
    BY <1>1, <2>1, SubSeqProperties
  <2>. QED
    BY <1>1, <2>2
<1>3. /\ back \in Seq(Effects) /\ Len(back) = N - i
      /\ \A j \in 1..(N - i) : back[j] = queue[i + j]
  <2>1. \A j \in (i + 1)..N : queue[j] \in Effects
    BY <1>1, ElementOfSeq
  <2>. DEFINE from == i + 1
  <2>2. from \in Int /\ N \in Int /\ \A j \in from..N : queue[j] \in Effects
    BY <1>1, <2>1
  <2>3. from = i + 1 /\ back = SubSeq(queue, from, N)
    OBVIOUS
  <2>. HIDE DEF N, from, back
  <2>4. /\ SubSeq(queue, from, N) \in Seq(Effects)
        /\ Len(SubSeq(queue, from, N)) = IF from <= N THEN N - from + 1 ELSE 0
        /\ \A j \in 1..(N - from + 1) : SubSeq(queue, from, N)[j] = queue[from + j - 1]
    BY <2>2, SubSeqProperties
  <2>5. N - from + 1 = N - i /\ (~(from <= N) => N - i = 0)
    BY <1>1, <2>3
  <2>6. \A j \in 1..(N - i) : from + j - 1 = i + j
    BY <1>1, <2>3
  <2>7. Len(back) = N - i
    BY <1>1, <2>3, <2>4, <2>5
  <2>. QED
    BY <2>3, <2>4, <2>5, <2>6, <2>7
<1>. HIDE DEF front, back
<1>4. /\ front \o back \in Seq(Effects) /\ Len(front \o back) = Len(front) + Len(back)
      /\ \A j \in 1..Len(front) + Len(back) :
            (front \o back)[j] = IF j <= Len(front) THEN front[j] ELSE back[j - Len(front)]
  <2>1. front \in Seq(Effects) /\ back \in Seq(Effects)
    BY <1>2, <1>3
  <2>. QED
    BY <2>1, ConcatProperties
<1>. HIDE DEF N
<1>5. Len(front) + Len(back) = N - 1
  BY <1>1, <1>2, <1>3
<1>6. ASSUME NEW j \in 1..(N - 1)
      PROVE  (front \o back)[j] = IF j < i THEN queue[j] ELSE queue[j + 1]
  <2>1. (front \o back)[j] = IF j <= i - 1 THEN front[j] ELSE back[j - (i - 1)]
    BY <1>2, <1>4, <1>5
  <2>2. CASE j < i
    <3>1. j \in 1..(i - 1) /\ j <= i - 1
      BY <1>1, <2>2
    <3>. QED
      BY <1>2, <2>1, <2>2, <3>1
  <2>3. CASE ~(j < i)
    <3>1. i \in Int /\ N \in Int /\ j \in Int /\ j <= N - 1 /\ i <= j
      BY <1>1, <2>3
    <3>2. 1 <= j - (i - 1) /\ j - (i - 1) <= N - i /\ i + (j - (i - 1)) = j + 1 /\ ~(j <= i - 1)
      BY <3>1
    <3>3. j - (i - 1) \in 1..(N - i)
      BY <3>1, <3>2
    <3>. QED
      BY <1>3, <2>1, <2>3, <3>2, <3>3
  <2>. QED
    BY <2>2, <2>3
<1>7. RemoveAt(queue, i) = front \o back
  BY DEF RemoveAt, front, back, N
<1>. QED
  BY <1>4, <1>5, <1>6, <1>7 DEF N

\* A queue of distinct effects keeps the others, apart and in order.
LEMMA RemoveIs ==
    ASSUME NEW queue \in Seq(Effects), IsInjective(queue), NEW i \in DOMAIN queue
    PROVE  /\ RemoveAt(queue, i) \in Seq(Effects)
           /\ Len(RemoveAt(queue, i)) = Len(queue) - 1
           /\ IsInjective(RemoveAt(queue, i))
           /\ Range(RemoveAt(queue, i)) = Range(queue) \ {queue[i]}
           /\ \A a, b : InOrder(queue, a, b) /\ a # queue[i] /\ b # queue[i]
                           => InOrder(RemoveAt(queue, i), a, b)
<1>. DEFINE rest == RemoveAt(queue, i)
            N == Len(queue)
            old(j) == IF j < i THEN j ELSE j + 1
            new(j) == IF j < i THEN j ELSE j - 1
<1>1. N \in Nat /\ DOMAIN queue = 1..N /\ i \in 1..N
  BY LenProperties
<1>2. /\ rest \in Seq(Effects) /\ Len(rest) = N - 1
      /\ \A j \in 1..(N - 1) : rest[j] = IF j < i THEN queue[j] ELSE queue[j + 1]
  BY RemovedAt
<1>3. DOMAIN rest = 1..(N - 1)
  BY <1>2, LenProperties
<1>. HIDE DEF rest
<1>4. \A j \in DOMAIN rest : rest[j] = queue[old(j)] /\ old(j) \in DOMAIN queue /\ old(j) # i
  <2>1. ASSUME NEW j \in 1..(N - 1)
        PROVE  rest[j] = queue[old(j)] /\ old(j) \in 1..N /\ old(j) # i
    <3>1. rest[j] = queue[old(j)]
      BY <1>2
    <3>. HIDE DEF N
    <3>2. old(j) \in 1..N /\ old(j) # i
      BY <1>1
    <3>. QED
      BY <3>1, <3>2
  <2>. QED
    BY <1>1, <1>3, <2>1
<1>5. \A j \in DOMAIN queue : j # i => new(j) \in DOMAIN rest /\ old(new(j)) = j
  <2>1. ASSUME NEW j \in 1..N, j # i
        PROVE  new(j) \in 1..(N - 1) /\ old(new(j)) = j
    <3>. HIDE DEF N
    <3>1. CASE j < i
      BY <1>1, <2>1, <3>1
    <3>2. CASE ~(j < i)
      BY <1>1, <2>1, <3>2
    <3>. QED
      BY <3>1, <3>2
  <2>. QED
    BY <1>1, <1>3, <2>1
<1>6. \A j, k \in DOMAIN rest : old(j) = old(k) => j = k
  <2>1. \A j, k \in Int : old(j) = old(k) => j = k
    BY <1>1
  <2>2. \A j \in DOMAIN rest : j \in Int
    BY <1>3
  <2>. HIDE DEF old
  <2>. QED
    BY <2>1, <2>2
<1>7. \A j, k \in DOMAIN queue : j < k /\ j # i /\ k # i => new(j) < new(k)
  <2>1. \A j, k \in Int : j < k /\ j # i /\ k # i => new(j) < new(k)
    BY <1>1
  <2>2. \A j \in DOMAIN queue : j \in Int
    BY <1>1
  <2>. HIDE DEF new
  <2>. QED
    BY <2>1, <2>2
<1>. HIDE DEF old, new
<1>8. \A j \in DOMAIN queue : queue[j] = queue[i] => j = i
  BY DEF IsInjective
<1>9. IsInjective(rest)
  <2>1. ASSUME NEW j \in DOMAIN rest, NEW k \in DOMAIN rest, rest[j] = rest[k]
        PROVE  j = k
    <3>1. old(j) = old(k)
      BY <1>4, <2>1 DEF IsInjective
    <3>. QED
      BY <1>6, <3>1
  <2>. QED
    BY <2>1 DEF IsInjective
<1>10. Range(rest) = Range(queue) \ {queue[i]}
  <2>1. ASSUME NEW j \in DOMAIN rest
        PROVE  rest[j] \in Range(queue) /\ rest[j] # queue[i]
    <3>1. queue[old(j)] \in Range(queue) /\ queue[old(j)] # queue[i]
      BY <1>4, <1>8 DEF Range
    <3>. QED
      BY <1>4, <3>1
  <2>2. ASSUME NEW j \in DOMAIN queue, queue[j] # queue[i]
        PROVE  queue[j] \in Range(rest)
    <3>1. new(j) \in DOMAIN rest /\ rest[new(j)] = queue[j]
      BY <1>4, <1>5, <2>2
    <3>. QED
      BY <3>1 DEF Range
  <2>. QED
    BY <2>1, <2>2 DEF Range
<1>11. ASSUME NEW a, NEW b, InOrder(queue, a, b), a # queue[i], b # queue[i]
       PROVE  InOrder(rest, a, b)
  <2>1. PICK j, k \in DOMAIN queue : j < k /\ queue[j] = a /\ queue[k] = b
    BY <1>11 DEF InOrder
  <2>2. j # i /\ k # i
    BY <1>11, <2>1
  <2>3. /\ new(j) \in DOMAIN rest /\ new(k) \in DOMAIN rest /\ new(j) < new(k)
        /\ rest[new(j)] = a /\ rest[new(k)] = b
    BY <1>4, <1>5, <1>7, <2>1, <2>2
  <2>. QED
    BY <2>3 DEF InOrder
<1>. QED
  BY <1>2, <1>9, <1>10, <1>11 DEF rest

\* An effect that is not in the queue comes behind it.
LEMMA AppendIs ==
    ASSUME NEW queue \in Seq(Effects), IsInjective(queue), NEW e \in Effects, e \notin Range(queue)
    PROVE  /\ Append(queue, e) \in Seq(Effects)
           /\ Len(Append(queue, e)) = Len(queue) + 1
           /\ IsInjective(Append(queue, e))
           /\ Range(Append(queue, e)) = Range(queue) \cup {e}
           /\ \A a, b : InOrder(queue, a, b) => InOrder(Append(queue, e), a, b)
<1>. DEFINE more == Append(queue, e)
            N == Len(queue)
<1>1. N \in Nat /\ DOMAIN queue = 1..N
  BY LenProperties
<1>2. /\ more \in Seq(Effects) /\ Len(more) = N + 1
      /\ \A j \in 1..N : more[j] = queue[j]
      /\ more[N + 1] = e
  BY AppendProperties
<1>3. DOMAIN more = 1..(N + 1)
  BY <1>2, LenProperties
<1>. HIDE DEF more
<1>4. \A j \in DOMAIN queue : j \in DOMAIN more /\ more[j] = queue[j] /\ j # N + 1
  BY <1>1, <1>2, <1>3
<1>5. \A j \in DOMAIN more : j = N + 1 \/ j \in DOMAIN queue
  BY <1>1, <1>3
<1>6. N + 1 \in DOMAIN more /\ more[N + 1] = e
  BY <1>1, <1>2, <1>3
<1>7. \A j \in DOMAIN queue : queue[j] \in Range(queue)
  BY DEF Range
<1>8. IsInjective(more)
  BY <1>4, <1>5, <1>6, <1>7 DEF IsInjective
<1>9. Range(more) = Range(queue) \cup {e}
  <2>1. \A j \in DOMAIN more : more[j] \in Range(queue) \cup {e}
    BY <1>4, <1>5, <1>6, <1>7
  <2>2. \A j \in DOMAIN queue : queue[j] \in Range(more)
    BY <1>4 DEF Range
  <2>3. e \in Range(more)
    BY <1>6 DEF Range
  <2>. QED
    BY <2>1, <2>2, <2>3 DEF Range
<1>10. ASSUME NEW a, NEW b, InOrder(queue, a, b) PROVE InOrder(more, a, b)
  BY <1>4, <1>10 DEF InOrder
<1>. QED
  BY <1>2, <1>8, <1>9, <1>10 DEF more

\* An effect that is not in the queue returns in front of it.
LEMMA FrontIs ==
    ASSUME NEW queue \in Seq(Effects), IsInjective(queue), NEW e \in Effects, e \notin Range(queue)
    PROVE  /\ <<e>> \o queue \in Seq(Effects)
           /\ Len(<<e>> \o queue) = Len(queue) + 1
           /\ IsInjective(<<e>> \o queue)
           /\ Range(<<e>> \o queue) = Range(queue) \cup {e}
           /\ \A a, b : InOrder(queue, a, b) => InOrder(<<e>> \o queue, a, b)
           /\ \A b \in Range(queue) : InOrder(<<e>> \o queue, e, b)
<1>. DEFINE more == <<e>> \o queue
            N == Len(queue)
<1>1. N \in Nat /\ DOMAIN queue = 1..N
  BY LenProperties
<1>2. <<e>> \in Seq(Effects) /\ Len(<<e>>) = 1 /\ <<e>>[1] = e
  OBVIOUS
<1>3. /\ more \in Seq(Effects) /\ Len(more) = 1 + N
      /\ \A j \in 1..(1 + N) : more[j] = IF j <= 1 THEN <<e>>[j] ELSE queue[j - 1]
  BY <1>2, ConcatProperties
<1>4. DOMAIN more = 1..(N + 1)
  BY <1>1, <1>3, LenProperties
<1>. HIDE DEF more
<1>5. \A j \in DOMAIN queue : j + 1 \in DOMAIN more /\ more[j + 1] = queue[j] /\ j + 1 # 1
  <2>1. ASSUME NEW j \in 1..N
        PROVE  j + 1 \in 1..(N + 1) /\ more[j + 1] = queue[j] /\ j + 1 # 1
    <3>. HIDE DEF N
    <3>1. j + 1 \in 1..(1 + N) /\ j + 1 \in 1..(N + 1) /\ ~(j + 1 <= 1) /\ (j + 1) - 1 = j
      BY <1>1
    <3>. QED
      BY <1>3, <3>1
  <2>. QED
    BY <1>1, <1>4, <2>1
<1>6. \A j \in DOMAIN more : j = 1 \/ \E k \in DOMAIN queue : j = k + 1
  <2>1. ASSUME NEW j \in 1..(N + 1), j # 1
        PROVE  j - 1 \in 1..N /\ j = (j - 1) + 1
    <3>. HIDE DEF N
    <3>. QED
      BY <1>1, <2>1
  <2>. QED
    BY <1>1, <1>4, <2>1
<1>7. 1 \in DOMAIN more /\ more[1] = e
  BY <1>1, <1>2, <1>3, <1>4
<1>8. \A j \in DOMAIN queue : queue[j] \in Range(queue)
  BY DEF Range
<1>9. IsInjective(more)
  <2>1. ASSUME NEW j \in DOMAIN more, NEW k \in DOMAIN more, more[j] = more[k]
        PROVE  j = k
    <3>1. CASE j = 1
      BY <1>5, <1>6, <1>7, <1>8, <2>1, <3>1
    <3>2. CASE k = 1
      BY <1>5, <1>6, <1>7, <1>8, <2>1, <3>2
    <3>3. CASE j # 1 /\ k # 1
      <4>1. PICK m \in DOMAIN queue : j = m + 1
        BY <1>6, <3>3
      <4>2. PICK l \in DOMAIN queue : k = l + 1
        BY <1>6, <3>3
      <4>3. m = l
        BY <1>5, <2>1, <4>1, <4>2 DEF IsInjective
      <4>. QED
        BY <4>1, <4>2, <4>3
    <3>. QED
      BY <3>1, <3>2, <3>3
  <2>. QED
    BY <2>1 DEF IsInjective
<1>10. Range(more) = Range(queue) \cup {e}
  <2>1. ASSUME NEW j \in DOMAIN more PROVE more[j] \in Range(queue) \cup {e}
    <3>1. CASE j = 1
      BY <1>7, <3>1
    <3>2. CASE j # 1
      <4>1. PICK k \in DOMAIN queue : j = k + 1
        BY <1>6, <3>2
      <4>. QED
        BY <1>5, <1>8, <4>1
    <3>. QED
      BY <3>1, <3>2
  <2>2. ASSUME NEW j \in DOMAIN queue PROVE queue[j] \in Range(more)
    BY <1>5 DEF Range
  <2>3. e \in Range(more)
    BY <1>7 DEF Range
  <2>. QED
    BY <2>1, <2>2, <2>3 DEF Range
<1>11. ASSUME NEW a, NEW b, InOrder(queue, a, b) PROVE InOrder(more, a, b)
  <2>1. PICK j, k \in DOMAIN queue : j < k /\ queue[j] = a /\ queue[k] = b
    BY <1>11 DEF InOrder
  <2>2. j + 1 < k + 1
    BY <1>1, <2>1
  <2>. QED
    BY <1>5, <2>1, <2>2 DEF InOrder
<1>12. ASSUME NEW b \in Range(queue) PROVE InOrder(more, e, b)
  <2>1. PICK k \in DOMAIN queue : queue[k] = b
    BY <1>12 DEF Range
  <2>2. 1 < k + 1
    BY <1>1
  <2>. QED
    BY <1>5, <1>7, <2>1, <2>2 DEF InOrder
<1>13. Len(more) = N + 1
  BY <1>1, <1>3
<1>. QED
  BY <1>3, <1>9, <1>10, <1>11, <1>12, <1>13 DEF more

\* An effect enters a queue behind what it does not replace.
LEMMA QueuedIs ==
    ASSUME NEW queue \in Seq(Effects), IsInjective(queue), NEW running, IsFiniteSet(running),
           NEW e \in Effects, e \notin Range(queue), ~Full(queue, running, e),
           Len(queue) + Cardinality(running) <= Capacity
    PROVE  LET q == Queued(queue, running, e) IN
           /\ q \in Seq(Effects) /\ IsInjective(q)
           /\ Range(q) \subseteq Range(queue) \cup {e}
           /\ \A a \in Range(queue) : a \notin Range(q) => SameGroup(a, e)
           /\ Kind[e] = "navigation" => \A a \in Range(q) : a = e \/ ~SameGroup(a, e)
           /\ \A a, b : InOrder(queue, a, b) /\ a \in Range(q) /\ b \in Range(q) => InOrder(q, a, b)
           /\ Len(q) + Cardinality(running) <= Capacity
<1>. DEFINE q == Queued(queue, running, e)
            Claim == /\ q \in Seq(Effects) /\ IsInjective(q)
                     /\ Range(q) \subseteq Range(queue) \cup {e}
                     /\ \A a \in Range(queue) : a \notin Range(q) => SameGroup(a, e)
                     /\ Kind[e] = "navigation" => \A a \in Range(q) : a = e \/ ~SameGroup(a, e)
                     /\ \A a, b : InOrder(queue, a, b) /\ a \in Range(q) /\ b \in Range(q) => InOrder(q, a, b)
                     /\ Len(q) + Cardinality(running) <= Capacity
<1>1. ASSUME Shown(running, e) PROVE Claim
  <2>1. q = queue /\ Kind[e] # "navigation"
    BY <1>1 DEF Queued, Shown
  <2>. HIDE DEF q
  <2>. QED
    BY <2>1
<1>2. ASSUME ~Shown(running, e) PROVE Claim
  <2>. DEFINE kept == Kept(queue, e)
  <2>1. /\ kept \in Seq(Effects)
        /\ Range(kept) = {a \in Range(queue) : ~SameGroup(a, e)}
        /\ IsInjective(kept)
        /\ \A a, b : InOrder(queue, a, b) /\ ~SameGroup(a, e) /\ ~SameGroup(b, e) => InOrder(kept, a, b)
    BY KeptIs
  <2>2. q = Append(kept, e) /\ ~(Len(kept) + Cardinality(running) >= Capacity)
    BY <1>2 DEF Queued, Full
  <2>. HIDE DEF kept, q
  <2>3. e \notin Range(kept)
    BY <2>1
  <2>4. /\ q \in Seq(Effects) /\ Len(q) = Len(kept) + 1 /\ IsInjective(q)
        /\ Range(q) = Range(kept) \cup {e}
        /\ \A a, b : InOrder(kept, a, b) => InOrder(q, a, b)
    BY <2>1, <2>2, <2>3, AppendIs
  <2>5. Len(q) + Cardinality(running) <= Capacity
    <3>1. Len(kept) \in Nat /\ Cardinality(running) \in Nat
      BY <2>1, LenProperties, FS_CardinalityType
    <3>. QED
      BY <2>2, <2>4, <3>1 DEF RuntimeAssumption
  <2>6. ASSUME NEW a, NEW b, InOrder(queue, a, b), a \in Range(q), b \in Range(q)
        PROVE  InOrder(q, a, b)
    <3>1. a \in Range(queue) /\ b \in Range(queue)
      BY <2>6 DEF InOrder, Range
    <3>. QED
      BY <2>1, <2>4, <2>6, <3>1
  <2>. QED
    BY <2>1, <2>4, <2>5, <2>6
<1>. QED
  BY <1>1, <1>2

-------------------------------------------------------------------------------
(* The invariant.                                                          *)

\* What is held is held once, and fits.
Fits == /\ IsInjective(pending) /\ active \cap Range(pending) = {} /\ IsFiniteSet(active)
        /\ Len(pending) + Cardinality(active) <= Capacity

\* Nothing is active but in a running loop.
AtRest == mode # "running" => active = {}

\* The loop admits what it was asked for before it does anything else.
WishTaken == mode = "running" /\ turn # "admit" => wish = NoEffect

WishIsNew == wish \in Effects => wish \notin Held

\* Each effect but a reconnection is asked for once.
AskedBefore == \A e \in Effects : (e \in Held \/ e = wish) /\ Kind[e] # "reconnect" => e \in asked

RuntimeInv ==
    /\ RuntimeTypeOK /\ busy \in [Lanes -> Nat]
    /\ Fits /\ LanesCounted /\ OneNavigation
    /\ AtRest /\ WishTaken /\ WishIsNew /\ AskedBefore

OrderStep ==
    \A a, b \in Effects :
       Lane[a] = Lane[b] /\ Lane[a] \in Serial /\ Before(a, b)
       /\ {a, b} \subseteq Held' => Before(a, b)'

ForgetStep ==
    \A e \in Held \ Held' :
       \/ answer[e] \in {"ok", "ready"}
       \/ e \in flagged
       \/ wish \in Effects /\ SameGroup(e, wish)
       \/ exit' # "none" \/ mode' \in Ended

\* What every step establishes.
Good == RuntimeInv' /\ OrderStep /\ ForgetStep

LEMMA HeldEffects ==
    ASSUME RuntimeTypeOK
    PROVE  Held \subseteq Effects
<1>1. pending \in [1..Len(pending) -> Effects]
  BY LenProperties DEF RuntimeTypeOK
<1>. QED
  BY <1>1 DEF Held, Range, RuntimeTypeOK

LEMMA BeforeIs ==
    \A a, b : /\ Before(a, b) <=> b \in Range(pending) /\ (a \in active \/ InOrder(pending, a, b))
              /\ Before(a, b)' <=> b \in Range(pending') /\ (a \in active' \/ InOrder(pending', a, b))
BY DEF Before, InOrder

LEMMA HeldFits ==
    ASSUME RuntimeTypeOK, Fits
    PROVE  IsFiniteSet(Held) /\ Cardinality(Held) <= Capacity
<1>1. IsFiniteSet(Range(pending)) /\ Cardinality(Range(pending)) <= Len(pending)
  <2>1. pending \in [1..Len(pending) -> Range(pending)] /\ Len(pending) \in Nat
    <3>1. Len(pending) \in Nat /\ pending \in [1..Len(pending) -> Effects] /\ DOMAIN pending = 1..Len(pending)
      BY LenProperties DEF RuntimeTypeOK
    <3>. QED
      BY <3>1 DEF Range
  <2>2. IsFiniteSet(1..Len(pending)) /\ Cardinality(1..Len(pending)) = Len(pending)
    <3>1. 1 \in Int /\ Len(pending) \in Int
      BY <2>1
    <3>2. /\ IsFiniteSet(1..Len(pending))
          /\ Cardinality(1..Len(pending)) = IF 1 > Len(pending) THEN 0 ELSE Len(pending) - 1 + 1
      BY <3>1, FS_Interval
    <3>. QED
      BY <2>1, <3>2
  <2>3. pending \in Surjection(1..Len(pending), Range(pending))
    BY <2>1 DEF Surjection, Range
  <2>. QED
    BY <2>2, <2>3, FS_Surjection
<1>2. IsFiniteSet(active) /\ Len(pending) + Cardinality(active) <= Capacity
  BY DEF Fits
<1>3. /\ IsFiniteSet(Held)
      /\ Cardinality(Held) = Cardinality(active) + Cardinality(Range(pending)) - Cardinality(active \cap Range(pending))
  BY <1>1, <1>2, FS_Union DEF Held
<1>4. Cardinality(active \cap Range(pending)) = 0
  BY FS_EmptySet DEF Fits
<1>5. /\ Cardinality(active) \in Nat /\ Cardinality(Range(pending)) \in Nat
      /\ Len(pending) \in Nat
  BY <1>1, <1>2, FS_CardinalityType, LenProperties DEF RuntimeTypeOK
<1>. QED
  BY <1>1, <1>2, <1>3, <1>4, <1>5 DEF RuntimeAssumption

\* The part of the types that the actor and the bound on the calls have.
ActorTypeOK ==
    /\ mail \in Seq(Effects \cup {Outbox}) /\ Len(mail) <= MailboxCapacity
    /\ handling \in Effects \cup {NoEffect, Outbox} /\ tasks \subseteq Effects
    /\ delivering \in BOOLEAN /\ (delivering => handling = Outbox)
    /\ calls \in 0..MaxCalls

\* A step that leaves what is held.
LEMMA Undisturbed ==
    ASSUME RuntimeInv, UNCHANGED <<pending, active, flagged, busy>>,
           mode' \notin Ended => mode \notin Ended,
           mode' # "running" => active = {}
    PROVE  /\ Held' = Held /\ (busy \in [Lanes -> Nat])'
           /\ Fits' /\ LanesCounted' /\ OneNavigation' /\ AtRest'
           /\ OrderStep /\ ForgetStep
<1>1. Held' = Held
  BY DEF Held
<1>2. (busy \in [Lanes -> Nat])'
  BY DEF RuntimeInv
<1>3. Fits'
  BY DEF RuntimeInv, Fits
<1>4. LanesCounted'
  BY DEF RuntimeInv, LanesCounted
<1>5. OneNavigation'
  BY <1>1 DEF RuntimeInv, OneNavigation
<1>6. AtRest'
  BY DEF AtRest
<1>7. OrderStep
  BY DEF OrderStep, Before
<1>8. ForgetStep
  BY <1>1 DEF ForgetStep
<1>. QED
  BY <1>1, <1>2, <1>3, <1>4, <1>5, <1>6, <1>7, <1>8

LEMMA OutsideStep ==
    ASSUME RuntimeInv, UNCHANGED <<loopVars, asked>>, RuntimeTypeOK'
    PROVE  Good
<1>. USE DEF loopVars
<1>1. mode' # "running" => active = {}
  BY DEF RuntimeInv, AtRest
<1>2. /\ Held' = Held /\ (busy \in [Lanes -> Nat])'
      /\ Fits' /\ LanesCounted' /\ OneNavigation' /\ AtRest'
      /\ OrderStep /\ ForgetStep
  BY <1>1, Undisturbed
<1>3. WishTaken' /\ WishIsNew' /\ AskedBefore'
  BY <1>2 DEF RuntimeInv, WishTaken, WishIsNew, AskedBefore
<1>. QED
  BY <1>2, <1>3 DEF Good, RuntimeInv

\* A step that empties the queue.
LEMMA Emptied ==
    ASSUME RuntimeInv, pending' = <<>>, active' \subseteq active,
           exit' # "none" \/ mode' \in Ended
    PROVE  Held' \subseteq Held /\ Fits' /\ OrderStep /\ ForgetStep
<1>1. pending' \in Seq(Effects) /\ Len(pending') = 0 /\ Range(pending') = {} /\ IsInjective(pending')
  BY EmptySeq DEF Range, IsInjective
<1>2. Held' \subseteq Held
  BY <1>1 DEF Held
<1>3. Fits'
  <2>1. IsFiniteSet(active') /\ Cardinality(active') <= Cardinality(active)
    BY FS_Subset DEF RuntimeInv, Fits
  <2>2. Cardinality(active) <= Capacity
    <3>1. Len(pending) \in Nat /\ Cardinality(active) \in Nat /\ Len(pending) + Cardinality(active) <= Capacity
      BY LenProperties, FS_CardinalityType DEF RuntimeInv, Fits, RuntimeTypeOK
    <3>. QED
      BY <3>1 DEF RuntimeAssumption
  <2>3. Len(pending') + Cardinality(active') <= Capacity
    <3>1. Cardinality(active) \in Nat /\ Cardinality(active') \in Nat
      BY <2>1, FS_CardinalityType DEF RuntimeInv, Fits
    <3>. QED
      BY <1>1, <2>1, <2>2, <3>1 DEF RuntimeAssumption
  <2>. QED
    BY <1>1, <2>1, <2>3 DEF Fits
<1>4. OrderStep
  <2>1. Held' = active'
    BY <1>1 DEF Held
  <2>. QED
    BY <2>1 DEF OrderStep, Before, RuntimeInv, Fits
<1>5. ForgetStep
  BY DEF ForgetStep
<1>. QED
  BY <1>2, <1>3, <1>4, <1>5

\* An effect enters the queue of the session.
LEMMA Entered ==
    ASSUME RuntimeInv, NEW w \in Effects, w \notin Held, ~Full(pending, active, w),
           active' = active, pending' = Queued(pending, active, w),
           flagged' = flagged \cup Superseded(w), wish = w
    PROVE  /\ Held' \subseteq Held \cup {w}
           /\ pending' \in Seq(Effects)
           /\ Fits' /\ OneNavigation' /\ OrderStep /\ ForgetStep
<1>1. /\ pending \in Seq(Effects) /\ IsInjective(pending) /\ IsFiniteSet(active)
      /\ Len(pending) + Cardinality(active) <= Capacity /\ active \cap Range(pending) = {}
  BY DEF RuntimeInv, RuntimeTypeOK, Fits
<1>2. w \notin Range(pending) /\ w \notin active
  BY DEF Held
<1>3. /\ pending' \in Seq(Effects) /\ IsInjective(pending')
      /\ Range(pending') \subseteq Range(pending) \cup {w}
      /\ \A a \in Range(pending) : a \notin Range(pending') => SameGroup(a, w)
      /\ Kind[w] = "navigation" => \A a \in Range(pending') : a = w \/ ~SameGroup(a, w)
      /\ \A a, b : InOrder(pending, a, b) /\ a \in Range(pending') /\ b \in Range(pending') => InOrder(pending', a, b)
      /\ Len(pending') + Cardinality(active) <= Capacity
  <2>. DEFINE q == Queued(pending, active, w)
  <2>1. /\ q \in Seq(Effects) /\ IsInjective(q)
        /\ Range(q) \subseteq Range(pending) \cup {w}
        /\ \A a \in Range(pending) : a \notin Range(q) => SameGroup(a, w)
        /\ Kind[w] = "navigation" => \A a \in Range(q) : a = w \/ ~SameGroup(a, w)
        /\ \A a, b : InOrder(pending, a, b) /\ a \in Range(q) /\ b \in Range(q) => InOrder(q, a, b)
        /\ Len(q) + Cardinality(active) <= Capacity
    BY <1>1, <1>2, QueuedIs
  <2>2. pending' = q
    OBVIOUS
  <2>. HIDE DEF q
  <2>. QED
    BY <2>1, <2>2
<1>4. Held' = active \cup Range(pending')
  BY DEF Held
<1>5. Held' \subseteq Held \cup {w}
  BY <1>3, <1>4 DEF Held
<1>6. Fits'
  <2>1. active \cap Range(pending') = {}
    BY <1>1, <1>2, <1>3
  <2>. QED
    BY <1>1, <1>3, <2>1 DEF Fits
<1>7. OneNavigation'
  <2>1. SUFFICES ASSUME NEW a \in Held', NEW b \in Held', a \notin flagged', b \notin flagged',
                        Kind[a] = "navigation", Kind[b] = "navigation"
                 PROVE  a = b
    BY DEF OneNavigation
  <2>2. Held' \subseteq Effects
    BY <1>5, HeldEffects DEF RuntimeInv
  <2>3. CASE Kind[w] = "navigation"
    <3>1. ASSUME NEW c \in Held', c \notin flagged', Kind[c] = "navigation" PROVE c = w
      <4>1. c \notin active
        BY <2>3, <3>1 DEF Superseded
      <4>2. SameGroup(c, w)
        BY <2>2, <2>3, <3>1, CoalescingAssumption DEF SameGroup, CoalescingAssumption
      <4>. QED
        BY <1>3, <1>4, <2>3, <3>1, <4>1, <4>2
    <3>. QED
      BY <2>1, <3>1
  <2>4. CASE Kind[w] # "navigation"
    BY <1>5, <2>1, <2>4 DEF RuntimeInv, OneNavigation
  <2>. QED
    BY <2>3, <2>4
<1>8. OrderStep
  <2>1. SUFFICES ASSUME NEW a \in Effects, NEW b \in Effects, Before(a, b), a \in Held', b \in Held'
                 PROVE  Before(a, b)'
    BY DEF OrderStep
  <2>2. b \in Range(pending) /\ (a \in active \/ InOrder(pending, a, b))
    BY <2>1, BeforeIs
  <2>3. b \in Range(pending')
    BY <1>1, <1>4, <2>2, <2>1
  <2>4. CASE a \in active
    BY <2>3, <2>4, BeforeIs
  <2>5. CASE InOrder(pending, a, b)
    <3>1. a \in Range(pending)
      BY <2>5 DEF Range, InOrder
    <3>2. a \in Range(pending')
      BY <1>1, <1>4, <2>1, <3>1
    <3>3. InOrder(pending', a, b)
      BY <1>3, <2>3, <2>5, <3>2
    <3>. QED
      BY <2>3, <3>3, BeforeIs
  <2>. QED
    BY <2>2, <2>4, <2>5
<1>9. ForgetStep
  BY <1>3, <1>4 DEF ForgetStep, Held
<1>. QED
  BY <1>3, <1>5, <1>6, <1>7, <1>8, <1>9

LEMMA AdmitGood ==
    ASSUME RuntimeInv, Admit
    PROVE  Good
<1>. USE DEF actorVars, boundVars, stopVars
<1>0. /\ RuntimeTypeOK /\ mode = "running" /\ turn = "admit" /\ busy \in [Lanes -> Nat] /\ busy' = busy
      /\ UNCHANGED <<mail, handling, delivering, tasks, answer, asked, calls, faults>>
  BY DEF RuntimeInv, Admit
<1>1. CASE wish \in Effects /\ exit = "none" /\ Full(pending, active, wish) /\ Abort /\ UNCHANGED stopVars
  <2>1. /\ mode' = "failed" /\ pending' = <<>> /\ active' = {} /\ wish' = NoEffect
        /\ UNCHANGED <<turn, flagged, stopVars>>
    BY <1>1 DEF Abort
  <2>2. Held' \subseteq Held /\ Fits' /\ OrderStep /\ ForgetStep
    BY <2>1, Emptied DEF Ended
  <2>3. RuntimeTypeOK' /\ (busy \in [Lanes -> Nat])'
    BY <1>0, <2>1, EmptySeq DEF RuntimeTypeOK, Ended
  <2>4. LanesCounted' /\ OneNavigation' /\ AtRest'
    BY <2>1, <2>2 DEF RuntimeInv, LanesCounted, Ended, OneNavigation, AtRest
  <2>5. WishTaken' /\ WishIsNew' /\ AskedBefore'
    BY <1>0, <2>1, <2>2 DEF WishTaken, WishIsNew, AskedBefore, RuntimeInv, RuntimeAssumption
  <2>. QED
    BY <2>2, <2>3, <2>4, <2>5 DEF Good, RuntimeInv
<1>2. CASE /\ wish \in Effects /\ exit = "none" /\ ~Full(pending, active, wish)
           /\ pending' = Queued(pending, active, wish)
           /\ flagged' = flagged \cup Superseded(wish)
           /\ turn' = "start" /\ wish' = NoEffect
           /\ UNCHANGED <<mode, active, busy, stopVars>>
  <2>1. wish \notin Held
    BY <1>2 DEF RuntimeInv, WishIsNew
  <2>2. /\ Held' \subseteq Held \cup {wish} /\ pending' \in Seq(Effects)
        /\ Fits' /\ OneNavigation' /\ OrderStep /\ ForgetStep
    BY <1>2, <2>1, Entered
  <2>3. RuntimeTypeOK' /\ (busy \in [Lanes -> Nat])'
    BY <1>0, <1>2, <2>2 DEF RuntimeTypeOK, Superseded
  <2>4. LanesCounted' /\ AtRest'
    BY <1>2 DEF RuntimeInv, LanesCounted, AtRest
  <2>5. WishTaken' /\ WishIsNew' /\ AskedBefore'
    BY <1>0, <1>2, <2>2 DEF WishTaken, WishIsNew, AskedBefore, RuntimeInv, RuntimeAssumption
  <2>. QED
    BY <2>2, <2>3, <2>4, <2>5 DEF Good, RuntimeInv
<1>3. CASE /\ wish = Quit /\ exit = "none"
           /\ exit' = "quit" /\ pending' = <<>> /\ cancelling' = TRUE
           /\ turn' = "start" /\ wish' = NoEffect
           /\ UNCHANGED <<mode, active, flagged, busy, error, down>>
  <2>2. Held' \subseteq Held /\ Fits' /\ OrderStep /\ ForgetStep
    BY <1>3, Emptied
  <2>3. RuntimeTypeOK' /\ (busy \in [Lanes -> Nat])'
    BY <1>0, <1>3, EmptySeq DEF RuntimeTypeOK
  <2>4. LanesCounted' /\ OneNavigation' /\ AtRest'
    BY <1>3, <2>2 DEF RuntimeInv, LanesCounted, OneNavigation, AtRest
  <2>5. WishTaken' /\ WishIsNew' /\ AskedBefore'
    BY <1>0, <1>3, <2>2 DEF WishTaken, WishIsNew, AskedBefore, RuntimeInv, RuntimeAssumption
  <2>. QED
    BY <2>2, <2>3, <2>4, <2>5 DEF Good, RuntimeInv
<1>4. CASE /\ wish = NoEffect \/ exit # "none"
           /\ flagged' = flagged \cup Superseded(wish)
           /\ turn' = "start" /\ wish' = NoEffect
           /\ UNCHANGED <<mode, pending, active, busy, stopVars>>
  <2>1. Held' = Held
    BY <1>4 DEF Held
  <2>2. Fits' /\ OrderStep /\ ForgetStep
    BY <1>4, <2>1 DEF RuntimeInv, Fits, OrderStep, Before, ForgetStep
  <2>3. RuntimeTypeOK' /\ (busy \in [Lanes -> Nat])'
    BY <1>0, <1>4 DEF RuntimeTypeOK, Superseded
  <2>4. LanesCounted' /\ OneNavigation' /\ AtRest'
    BY <1>4, <2>1 DEF RuntimeInv, LanesCounted, OneNavigation, AtRest
  <2>5. WishTaken' /\ WishIsNew' /\ AskedBefore'
    BY <1>0, <1>4, <2>1 DEF WishTaken, WishIsNew, AskedBefore, RuntimeInv, RuntimeAssumption
  <2>. QED
    BY <2>2, <2>3, <2>4, <2>5 DEF Good, RuntimeInv
<1>. QED
  BY <1>1, <1>2, <1>3, <1>4 DEF Admit

\* An effect that starts leaves the queue; none of its lane runs, and if the lane
\* keeps order none waits in front of it.
LEMMA Started ==
    ASSUME RuntimeInv, mode = "running", NEW i \in DOMAIN pending, Chosen(i)
    PROVE  LET e == pending[i]
               rest == RemoveAt(pending, i)
               runs == active \cup {e}
           IN
           /\ e \in Effects /\ e \in Range(pending) /\ e \notin active /\ Startable(i)
           /\ rest \in Seq(Effects) /\ IsInjective(rest)
           /\ Range(rest) = Range(pending) \ {e} /\ runs \cap Range(rest) = {}
           /\ IsFiniteSet(runs) /\ Len(rest) + Cardinality(runs) <= Capacity
           /\ \A a, b : InOrder(pending, a, b) /\ a # e /\ b # e => InOrder(rest, a, b)
           /\ \A a \in Effects : Lane[a] = Lane[e] /\ Lane[e] \in Serial => ~Before(a, e)
<1>. DEFINE e == pending[i]
            rest == RemoveAt(pending, i)
            runs == active \cup {e}
<1>1. /\ pending \in Seq(Effects) /\ IsInjective(pending) /\ IsFiniteSet(active)
      /\ Len(pending) + Cardinality(active) <= Capacity /\ active \cap Range(pending) = {}
      /\ DOMAIN pending = 1..Len(pending) /\ Len(pending) \in Nat
  BY LenProperties DEF RuntimeInv, RuntimeTypeOK, Fits
<1>2. e \in Effects
  BY <1>1, ElementOfSeq
<1>3. e \in Range(pending) /\ e \notin active
  BY <1>1 DEF Range
<1>4. Startable(i)
  BY DEF Chosen
<1>5. /\ rest \in Seq(Effects) /\ IsInjective(rest) /\ Len(rest) = Len(pending) - 1
      /\ Range(rest) = Range(pending) \ {e}
      /\ \A a, b : InOrder(pending, a, b) /\ a # e /\ b # e => InOrder(rest, a, b)
  BY <1>1, RemoveIs
<1>6. IsFiniteSet(runs) /\ Cardinality(runs) = Cardinality(active) + 1
  BY <1>1, <1>3, FS_AddElement
<1>7. Len(rest) + Cardinality(runs) <= Capacity
  <2>1. Cardinality(active) \in Nat
    BY <1>1, FS_CardinalityType
  <2>. QED
    BY <1>1, <1>5, <1>6, <2>1 DEF RuntimeAssumption
<1>8. runs \cap Range(rest) = {}
  BY <1>1, <1>5
<1>9. ASSUME NEW a \in Effects, Lane[a] = Lane[e], Lane[e] \in Serial, Before(a, e)
      PROVE  FALSE
  <2>1. a \in active \/ InOrder(pending, a, e)
    BY <1>9, BeforeIs
  <2>2. a \notin active
    <3>. DEFINE same == {x \in active : Lane[x] = Lane[e]}
    <3>1. busy[Lane[e]] = Cardinality(same) /\ Lane[e] \in Lanes
      BY <1>2 DEF RuntimeInv, LanesCounted, Ended, RuntimeAssumption
    <3>2. busy[Lane[e]] < 1 /\ busy[Lane[e]] \in Nat
      BY <1>4, <1>9, <3>1 DEF Startable, RuntimeInv, RuntimeAssumption
    <3>3. IsFiniteSet(same)
      BY <1>1, FS_Subset
    <3>4. same = {}
      BY <3>1, <3>2, <3>3, FS_EmptySet
    <3>. QED
      BY <1>9, <3>4
  <2>3. PICK k, m \in DOMAIN pending : k < m /\ pending[k] = a /\ pending[m] = e
    BY <2>1, <2>2 DEF InOrder
  <2>4. m = i
    BY <1>1, <2>3 DEF IsInjective
  <2>5. Startable(k)
    BY <1>4, <1>9, <2>3 DEF Startable
  <2>6. \/ Priority[e] < Priority[a]
        \/ Priority[e] = Priority[a] /\ i <= k
    BY <2>3, <2>5 DEF Chosen
  <2>7. Priority[e] = Priority[a] /\ Priority[e] \in Nat
    BY <1>2, <1>9, CoalescingAssumption DEF CoalescingAssumption, RuntimeAssumption
  <2>. QED
    BY <1>1, <2>3, <2>4, <2>6, <2>7
<1>. QED
  BY <1>2, <1>3, <1>4, <1>5, <1>6, <1>7, <1>8, <1>9

\* A lane counts one more.
LEMMA LaneTaken ==
    ASSUME RuntimeInv, mode \notin Ended, NEW e \in Effects, e \notin active,
           busy[Lane[e]] < Limit[Lane[e]], active' = active \cup {e},
           busy' = [busy EXCEPT ![Lane[e]] = @ + 1]
    PROVE  (busy \in [Lanes -> Nat])' /\ LanesCounted'
<1>1. busy \in [Lanes -> Nat] /\ IsFiniteSet(active) /\ Lane[e] \in Lanes /\ Limit \in [Lanes -> Nat \ {0}]
  BY DEF RuntimeInv, Fits, RuntimeAssumption
<1>2. busy' \in [Lanes -> Nat]
  BY <1>1
<1>3. ASSUME NEW l \in Lanes
      PROVE  busy'[l] = Cardinality({a \in active' : Lane[a] = l}) /\ busy'[l] <= Limit[l]
  <2>. DEFINE old == {a \in active : Lane[a] = l}
              new == {a \in active' : Lane[a] = l}
  <2>1. busy[l] = Cardinality(old) /\ busy[l] <= Limit[l]
    BY DEF RuntimeInv, LanesCounted
  <2>2. CASE l = Lane[e]
    <3>1. new = old \cup {e} /\ e \notin old
      BY <2>2
    <3>2. IsFiniteSet(old)
      BY <1>1, FS_Subset
    <3>. HIDE DEF old, new
    <3>3. Cardinality(new) = Cardinality(old) + 1
      BY <3>1, <3>2, FS_AddElement
    <3>4. busy'[l] = busy[l] + 1 /\ busy[l] \in Nat /\ Limit[l] \in Nat
      BY <1>1, <2>2
    <3>5. busy[l] < Limit[l]
      BY <2>2
    <3>. QED
      BY <2>1, <3>3, <3>4, <3>5 DEF new
  <2>3. CASE l # Lane[e]
    <3>1. new = old
      BY <2>3
    <3>2. busy'[l] = busy[l]
      BY <1>1, <2>3
    <3>. QED
      BY <2>1, <3>1, <3>2
  <2>. QED
    BY <2>2, <2>3
<1>. QED
  BY <1>2, <1>3 DEF LanesCounted

\* A lane counts one less.
LEMMA LaneFreed ==
    ASSUME RuntimeInv, mode \notin Ended, NEW e \in active, active' = active \ {e},
           busy' = Freed(e)
    PROVE  (busy \in [Lanes -> Nat])' /\ LanesCounted'
<1>1. /\ busy \in [Lanes -> Nat] /\ IsFiniteSet(active) /\ Lane[e] \in Lanes /\ Limit \in [Lanes -> Nat \ {0}]
  BY DEF RuntimeInv, RuntimeTypeOK, Fits, RuntimeAssumption
<1>2. ASSUME NEW l \in Lanes
      PROVE  /\ busy'[l] = Cardinality({a \in active' : Lane[a] = l}) /\ busy'[l] <= Limit[l]
             /\ busy'[l] \in Nat
  <2>. DEFINE old == {a \in active : Lane[a] = l}
              new == {a \in active' : Lane[a] = l}
  <2>1. busy[l] = Cardinality(old) /\ busy[l] <= Limit[l] /\ busy[l] \in Nat /\ Limit[l] \in Nat
    BY <1>1 DEF RuntimeInv, LanesCounted
  <2>2. CASE l = Lane[e]
    <3>1. new = old \ {e} /\ e \in old
      BY <2>2
    <3>2. IsFiniteSet(old)
      BY <1>1, FS_Subset
    <3>. HIDE DEF old, new
    <3>3. Cardinality(new) = Cardinality(old) - 1 /\ Cardinality(new) \in Nat
      BY <3>1, <3>2, FS_RemoveElement, FS_CardinalityType
    <3>4. busy'[l] = busy[l] - 1
      BY <1>1, <2>2 DEF Freed
    <3>. QED
      BY <2>1, <3>3, <3>4 DEF new
  <2>3. CASE l # Lane[e]
    <3>1. new = old
      BY <2>3
    <3>2. busy'[l] = busy[l]
      BY <1>1, <2>3 DEF Freed
    <3>. QED
      BY <2>1, <3>1, <3>2
  <2>. QED
    BY <2>2, <2>3
<1>3. busy' \in [Lanes -> Nat]
  <2>1. busy' = [l \in Lanes |-> busy'[l]]
    BY <1>1 DEF Freed
  <2>. QED
    BY <1>2, <2>1
<1>. QED
  BY <1>2, <1>3 DEF LanesCounted

LEMMA StartNextGood ==
    ASSUME RuntimeInv, StartNext
    PROVE  Good
<1>. USE DEF stopVars
<1>1. PICK i \in DOMAIN pending :
          /\ Chosen(i) /\ Execute(pending[i])
          /\ Accepted(pending[i], RemoveAt(pending, i))
          /\ asked' = asked \cup ({FollowUp[pending[i]]} \cap Effects)
          /\ \/ mode' = "failed" /\ UNCHANGED busy
             \/ /\ mode' = "running"
                /\ active' = active \cup {pending[i]}
                /\ busy' = [busy EXCEPT ![Lane[pending[i]]] = @ + 1]
  BY DEF StartNext
<1>2. /\ mode = "running" /\ turn = "start"
      /\ UNCHANGED <<stopVars, handling, delivering, tasks, calls, faults>>
      /\ RuntimeTypeOK /\ busy \in [Lanes -> Nat]
  BY DEF StartNext, RuntimeInv
<1>3. wish = NoEffect /\ NoEffect \notin Effects
  BY <1>2 DEF RuntimeInv, WishTaken, RuntimeAssumption
<1>. DEFINE e == pending[i]
            rest == RemoveAt(pending, i)
            runs == active \cup {e}
            F == FollowUp[e]
<1>4. /\ e \in Effects /\ e \in Range(pending) /\ e \notin active /\ Startable(i)
      /\ rest \in Seq(Effects) /\ IsInjective(rest)
      /\ Range(rest) = Range(pending) \ {e} /\ runs \cap Range(rest) = {}
      /\ IsFiniteSet(runs) /\ Len(rest) + Cardinality(runs) <= Capacity
      /\ \A a, b : InOrder(pending, a, b) /\ a # e /\ b # e => InOrder(rest, a, b)
      /\ \A a \in Effects : Lane[a] = Lane[e] /\ Lane[e] \in Serial => ~Before(a, e)
  <2>1. Chosen(i)
    BY <1>1
  <2>. QED
    BY <1>2, <2>1, Started
<1>5. /\ mail' \in Seq(Effects \cup {Outbox}) /\ Len(mail') <= MailboxCapacity /\ answer' \in [Effects -> Outcomes]
      /\ asked' \subseteq Effects
  <2>1. /\ mail' = mail \/ (mail' = Append(mail, e) /\ Len(mail) < MailboxCapacity)
        /\ \E o \in Outcomes : answer' = [answer EXCEPT ![e] = o]
    BY <1>1 DEF Execute, Outcomes
  <2>2. answer' \in [Effects -> Outcomes] /\ asked' \subseteq Effects
    BY <1>1, <1>2, <2>1 DEF RuntimeTypeOK
  <2>3. CASE mail' = mail
    BY <1>2, <2>2, <2>3 DEF RuntimeTypeOK
  <2>4. CASE mail' = Append(mail, e) /\ Len(mail) < MailboxCapacity
    <3>1. mail' \in Seq(Effects \cup {Outbox}) /\ Len(mail') = Len(mail) + 1 /\ Len(mail) \in Nat
      BY <1>2, <1>4, <2>4, AppendProperties, LenProperties DEF RuntimeTypeOK
    <3>2. Len(mail') <= MailboxCapacity
      BY <2>4, <3>1 DEF RuntimeAssumption
    <3>. QED
      BY <2>2, <3>1, <3>2
  <2>. QED
    BY <2>1, <2>3, <2>4
<1>6. CASE mode' = "failed" /\ UNCHANGED busy
  <2>1. /\ mode' = "failed" /\ pending' = <<>> /\ active' = {} /\ wish' = NoEffect
        /\ UNCHANGED <<turn, flagged, busy>>
    BY <1>1, <1>2, <1>6 DEF Accepted, Abort
  <2>2. Held' \subseteq Held /\ Fits' /\ OrderStep /\ ForgetStep
    BY <2>1, Emptied DEF Ended
  <2>3. RuntimeTypeOK' /\ (busy \in [Lanes -> Nat])'
    BY <1>2, <1>5, <2>1, EmptySeq DEF RuntimeTypeOK, Ended
  <2>4. LanesCounted' /\ OneNavigation' /\ AtRest'
    BY <2>1, <2>2 DEF RuntimeInv, LanesCounted, Ended, OneNavigation, AtRest
  <2>5. WishTaken' /\ WishIsNew' /\ AskedBefore'
    <3>1. asked \subseteq asked'
      BY <1>1
    <3>. QED
      BY <1>3, <2>1, <2>2, <3>1 DEF WishTaken, WishIsNew, AskedBefore, RuntimeInv
  <2>. QED
    BY <2>2, <2>3, <2>4, <2>5 DEF Good, RuntimeInv
<1>7. CASE /\ mode' = "running" /\ active' = runs
           /\ busy' = [busy EXCEPT ![Lane[e]] = @ + 1]
  <2>1. UNCHANGED <<turn, wish, flagged>>
    BY <1>1, <1>7 DEF Accepted, Abort
  <2>2. \/ pending' = rest
        \/ /\ F \in Effects \ asked /\ ~Full(rest, runs, F)
           /\ pending' = Queued(rest, runs, F)
    BY <1>1, <1>7 DEF Accepted, Abort
  <2>3. /\ pending' \in Seq(Effects) /\ IsInjective(pending')
        /\ Range(rest) \subseteq Range(pending')
        /\ \A a \in Range(pending') : a \in Range(rest) \/ (a = F /\ F \in Effects \ asked)
        /\ \A a, b : InOrder(rest, a, b) => InOrder(pending', a, b)
        /\ Len(pending') + Cardinality(runs) <= Capacity
        /\ runs \cap Range(pending') = {}
    <3>1. CASE pending' = rest
      BY <1>4, <3>1
    <3>2. CASE /\ F \in Effects \ asked /\ ~Full(rest, runs, F)
               /\ pending' = Queued(rest, runs, F)
      <4>1. Kind[F] # "reconnect" /\ Group[F] = NoGroup
        BY <1>4, <3>2, CoalescingAssumption DEF CoalescingAssumption
      <4>2. F \notin Held
        BY <3>2, <4>1 DEF RuntimeInv, AskedBefore
      <4>3. F \notin Range(rest) /\ F \notin runs
        BY <1>4, <4>2 DEF Held
      <4>. DEFINE q == Queued(rest, runs, F)
      <4>. HIDE DEF F, rest, runs
      <4>4. /\ q \in Seq(Effects) /\ IsInjective(q)
            /\ Range(q) \subseteq Range(rest) \cup {F}
            /\ \A a \in Range(rest) : a \notin Range(q) => SameGroup(a, F)
            /\ \A a, b : InOrder(rest, a, b) /\ a \in Range(q) /\ b \in Range(q) => InOrder(q, a, b)
            /\ Len(q) + Cardinality(runs) <= Capacity
        BY <1>4, <3>2, <4>3, QueuedIs
      <4>5. pending' = q
        BY <3>2
      <4>. HIDE DEF q
      <4>6. \A a : ~SameGroup(a, F)
        BY <4>1 DEF SameGroup
      <4>7. Range(rest) \subseteq Range(q)
        BY <4>4, <4>6
      <4>8. \A a, b : InOrder(rest, a, b) => a \in Range(rest) /\ b \in Range(rest)
        BY DEF InOrder, Range
      <4>9. \A a, b : InOrder(rest, a, b) => InOrder(q, a, b)
        BY <4>4, <4>7, <4>8
      <4>10. runs \cap Range(q) = {}
        BY <1>4, <4>3, <4>4
      <4>11. \A a \in Range(q) : a \in Range(rest) \/ (a = F /\ F \in Effects \ asked)
        BY <3>2, <4>4
      <4>. QED
        BY <4>4, <4>5, <4>7, <4>9, <4>10, <4>11
    <3>. QED
      BY <2>2, <3>1, <3>2
  <2>. HIDE DEF F, rest, runs
  <2>4. Fits'
    BY <1>4, <1>7, <2>3 DEF Fits
  <2>5. Held \subseteq Held'
    BY <1>4, <1>7, <2>3 DEF Held, runs
  <2>6. \A a \in Held' : a \in Held \/ (a = F /\ F \in Effects \ asked)
    BY <1>4, <1>7, <2>3 DEF Held, runs
  <2>7. (busy \in [Lanes -> Nat])' /\ LanesCounted'
    <3>1. mode \notin Ended
      BY <1>2 DEF Ended
    <3>2. busy[Lane[e]] < Limit[Lane[e]]
      BY <1>4 DEF Startable
    <3>3. active' = active \cup {e}
      BY <1>7 DEF runs
    <3>. HIDE DEF e
    <3>. QED
      BY <1>4, <1>7, <3>1, <3>2, <3>3, LaneTaken
  <2>8. RuntimeTypeOK'
    <3>1. active' \subseteq Effects
      BY <1>2, <1>4, <1>7 DEF RuntimeTypeOK, runs
    <3>. QED
      BY <1>2, <1>5, <1>7, <2>1, <2>3, <3>1 DEF RuntimeTypeOK
  <2>9. OneNavigation' /\ AtRest'
    <3>1. F \in Effects => Kind[F] # "navigation"
      BY <1>4, CoalescingAssumption DEF CoalescingAssumption, F
    <3>. QED
      BY <1>7, <2>1, <2>6, <3>1 DEF RuntimeInv, OneNavigation, AtRest
  <2>10. WishTaken' /\ WishIsNew'
    BY <1>3, <2>1 DEF WishTaken, WishIsNew
  <2>11. AskedBefore'
    <3>1. asked \subseteq asked' /\ (F \in Effects => F \in asked')
      BY <1>1 DEF F
    <3>. QED
      BY <1>3, <2>1, <2>6, <3>1 DEF AskedBefore, RuntimeInv
  <2>12. OrderStep
    <3>1. SUFFICES ASSUME NEW a \in Effects, NEW b \in Effects, Before(a, b),
                          Lane[a] = Lane[b], Lane[a] \in Serial
                   PROVE  Before(a, b)'
      BY DEF OrderStep
    <3>2. b # e
      BY <1>4, <3>1
    <3>3. b \in Range(pending) /\ (a \in active \/ InOrder(pending, a, b))
      BY <3>1, BeforeIs
    <3>4. b \in Range(pending')
      BY <1>4, <2>3, <3>2, <3>3
    <3>5. a \in active' \/ InOrder(pending', a, b)
      BY <1>4, <1>7, <2>3, <3>2, <3>3 DEF runs
    <3>. QED
      BY <3>4, <3>5, BeforeIs
  <2>13. ForgetStep
    BY <2>5 DEF ForgetStep
  <2>. QED
    BY <2>4, <2>7, <2>8, <2>9, <2>10, <2>11, <2>12, <2>13 DEF Good, RuntimeInv
<1>. QED
  BY <1>1, <1>6, <1>7

LEMMA CompleteGood ==
    ASSUME RuntimeInv, Complete
    PROVE  Good
<1>. USE DEF boundVars, stopVars
<1>1. PICK e \in active :
          /\ active' = active \ {e}
          /\ busy' = Freed(e)
          /\ flagged' = IF Unfinished(e) THEN flagged ELSE flagged \ {e}
          /\ answer' = [answer EXCEPT ![e] = "none"]
          /\ \/ /\ Outcome(e) = "ready"
                /\ exit' = "lifecycle" /\ pending' = <<>>
                /\ UNCHANGED <<error, down, cancelling>>
             \/ /\ Outcome(e) \in {"ok", "superseded"}
                /\ UNCHANGED <<pending, stopVars>>
             \/ /\ Unfinished(e)
                /\ pending' = Returned(e)
                /\ IF Outcome(e) = "lost" THEN LoseConnection ELSE UNCHANGED stopVars
             \/ /\ Outcome(e) \in {"cancelled", "lost", "error"} /\ ~Unfinished(e)
                /\ IF exit # "none"
                   THEN /\ error' = (error \/ Outcome(e) = "error")
                        /\ UNCHANGED <<pending, exit, down, cancelling>>
                   ELSE StopWithError /\ pending' = <<>>
  BY DEF Complete
<1>2. /\ mode = "running" /\ turn = "wait" /\ turn' = "admit"
      /\ UNCHANGED <<mode, wish, mail, handling, delivering, tasks, asked, calls, faults>>
      /\ RuntimeTypeOK /\ busy \in [Lanes -> Nat]
  BY DEF Complete, Waiting, RuntimeInv
<1>3. wish = NoEffect /\ NoEffect \notin Effects
  BY <1>2 DEF RuntimeInv, WishTaken, RuntimeAssumption
<1>4. /\ pending \in Seq(Effects) /\ IsInjective(pending) /\ IsFiniteSet(active)
      /\ Len(pending) + Cardinality(active) <= Capacity /\ active \cap Range(pending) = {}
      /\ Len(pending) \in Nat /\ e \in Effects
  BY <1>2, LenProperties DEF RuntimeInv, RuntimeTypeOK, Fits
<1>5. (busy \in [Lanes -> Nat])' /\ LanesCounted'
  BY <1>1, <1>2, LaneFreed DEF Ended
<1>6. /\ IsFiniteSet(active') /\ Cardinality(active') = Cardinality(active) - 1
      /\ Cardinality(active) \in Nat
  BY <1>1, <1>4, FS_RemoveElement, FS_CardinalityType
<1>7. /\ exit' \in {"none", "quit", "lifecycle"} /\ error' \in BOOLEAN
      /\ down' \in BOOLEAN /\ cancelling' \in BOOLEAN
  BY <1>1, <1>2 DEF RuntimeTypeOK, LoseConnection, StopWithError
<1>8. /\ active' \subseteq Effects /\ flagged' \subseteq Effects
      /\ answer' \in [Effects -> Outcomes]
  BY <1>1, <1>2, <1>4 DEF RuntimeTypeOK, Outcomes
<1>9. pending' \in Seq(Effects) => RuntimeTypeOK'
  BY <1>2, <1>7, <1>8 DEF RuntimeTypeOK
<1>10. AtRest'
  BY <1>2 DEF AtRest
<1>11. Held' \subseteq Held => WishTaken' /\ WishIsNew' /\ AskedBefore'
  BY <1>2, <1>3 DEF WishTaken, WishIsNew, AskedBefore, RuntimeInv
<1>12. flagged \ {e} \subseteq flagged' /\ (Unfinished(e) => flagged' = flagged)
  BY <1>1
<1>13. \/ pending' = <<>> /\ exit' # "none"
       \/ UNCHANGED pending /\ (answer[e] \in {"ok", "ready"} \/ e \in flagged \/ exit' # "none")
       \/ Unfinished(e) /\ pending' = <<e>> \o pending
  <2>1. answer[e] # "superseded"
    BY <1>2, <1>4 DEF RuntimeTypeOK, Outcomes
  <2>2. Outcome(e) \in {"ok", "superseded"} => answer[e] \in {"ok", "ready"} \/ e \in flagged
    BY <2>1 DEF Outcome
  <2>. QED
    BY <1>1, <2>2 DEF StopWithError, Returned
<1>14. CASE pending' = <<>> /\ exit' # "none"
  <2>1. Held' \subseteq Held /\ Fits' /\ OrderStep /\ ForgetStep
    BY <1>1, <1>14, Emptied
  <2>2. OneNavigation'
    <3>1. Held' = active \ {e}
      BY <1>1, <1>14 DEF Held, Range
    <3>. QED
      BY <1>12, <2>1, <3>1 DEF RuntimeInv, OneNavigation
  <2>3. RuntimeTypeOK'
    BY <1>9, <1>14, EmptySeq
  <2>. QED
    BY <1>5, <1>10, <1>11, <2>1, <2>2, <2>3 DEF Good, RuntimeInv
<1>15. CASE UNCHANGED pending /\ (answer[e] \in {"ok", "ready"} \/ e \in flagged \/ exit' # "none")
  <2>1. Held' = Held \ {e}
    BY <1>1, <1>4, <1>15 DEF Held
  <2>2. Fits'
    <3>1. Len(pending) + (Cardinality(active) - 1) <= Capacity
      BY <1>4, <1>6 DEF RuntimeAssumption
    <3>. QED
      BY <1>1, <1>4, <1>6, <1>15, <3>1 DEF Fits
  <2>3. OrderStep
    <3>1. SUFFICES ASSUME NEW a \in Effects, NEW b \in Effects, Before(a, b), a \in Held'
                   PROVE  Before(a, b)'
      BY DEF OrderStep
    <3>2. b \in Range(pending) /\ (a \in active \/ InOrder(pending, a, b))
      BY <3>1, BeforeIs
    <3>3. a \in active => a \in active'
      BY <1>1, <2>1, <3>1
    <3>. QED
      BY <1>15, <3>2, <3>3, BeforeIs
  <2>4. ForgetStep
    BY <1>15, <2>1 DEF ForgetStep
  <2>5. OneNavigation'
    BY <1>12, <2>1 DEF RuntimeInv, OneNavigation
  <2>6. RuntimeTypeOK'
    BY <1>4, <1>9, <1>15
  <2>. QED
    BY <1>5, <1>10, <1>11, <2>1, <2>2, <2>3, <2>4, <2>5, <2>6 DEF Good, RuntimeInv
<1>16. CASE Unfinished(e) /\ pending' = <<e>> \o pending
  <2>1. e \notin Range(pending)
    BY <1>4
  <2>2. /\ pending' \in Seq(Effects) /\ Len(pending') = Len(pending) + 1 /\ IsInjective(pending')
        /\ Range(pending') = Range(pending) \cup {e}
        /\ \A a, b : InOrder(pending, a, b) => InOrder(pending', a, b)
        /\ \A b \in Range(pending) : InOrder(pending', e, b)
    <3>. DEFINE q == <<e>> \o pending
    <3>1. /\ q \in Seq(Effects) /\ Len(q) = Len(pending) + 1 /\ IsInjective(q)
          /\ Range(q) = Range(pending) \cup {e}
          /\ \A a, b : InOrder(pending, a, b) => InOrder(q, a, b)
          /\ \A b \in Range(pending) : InOrder(q, e, b)
      BY <1>4, <2>1, FrontIs
    <3>2. pending' = q
      BY <1>16
    <3>. HIDE DEF q
    <3>. QED
      BY <3>1, <3>2
  <2>3. Held' = Held
    BY <1>1, <2>2 DEF Held
  <2>4. Fits'
    <3>1. Len(pending') + Cardinality(active') <= Capacity
      BY <1>4, <1>6, <2>2 DEF RuntimeAssumption
    <3>. QED
      BY <1>1, <1>4, <1>6, <2>2, <3>1 DEF Fits
  <2>5. OrderStep
    <3>1. SUFFICES ASSUME NEW a \in Effects, NEW b \in Effects, Before(a, b)
                   PROVE  Before(a, b)'
      BY DEF OrderStep
    <3>2. b \in Range(pending) /\ (a \in active \/ InOrder(pending, a, b))
      BY <3>1, BeforeIs
    <3>3. b \in Range(pending')
      BY <2>2, <3>2
    <3>4. a \in active' \/ InOrder(pending', a, b)
      BY <1>1, <2>2, <3>2
    <3>. QED
      BY <3>3, <3>4, BeforeIs
  <2>6. ForgetStep
    BY <2>3 DEF ForgetStep
  <2>7. OneNavigation'
    BY <1>12, <1>16, <2>3 DEF RuntimeInv, OneNavigation
  <2>8. RuntimeTypeOK'
    BY <1>9, <2>2
  <2>. QED
    BY <1>5, <1>10, <1>11, <2>3, <2>4, <2>5, <2>6, <2>7, <2>8 DEF Good, RuntimeInv
<1>. QED
  BY <1>13, <1>14, <1>15, <1>16

\* The driver or the coordinator stops the waiting loop, or asks the actor.
LEMMA SourceGood ==
    ASSUME RuntimeInv, mode = "running", turn = "wait", turn' \in {"wait", "admit"},
           UNCHANGED <<mode, wish, active, flagged, busy, asked, answer>>,
           UNCHANGED pending \/ (pending' = <<>> /\ exit' # "none"),
           exit' \in {"none", "quit", "lifecycle"}, error' \in BOOLEAN,
           down' \in BOOLEAN, cancelling' \in BOOLEAN, ActorTypeOK', faults' \in 0..MaxFaults
    PROVE  Good
<1>1. RuntimeTypeOK
  BY DEF RuntimeInv
<1>3. wish = NoEffect /\ NoEffect \notin Effects
  BY DEF RuntimeInv, WishTaken, RuntimeAssumption
<1>4. Held' \subseteq Held /\ Fits' /\ OrderStep /\ ForgetStep /\ pending' \in Seq(Effects)
  <2>1. CASE UNCHANGED pending
    BY <1>1, <2>1, Undisturbed DEF RuntimeTypeOK
  <2>2. CASE pending' = <<>> /\ exit' # "none"
    BY <1>1, <2>2, Emptied, EmptySeq
  <2>. QED
    BY <2>1, <2>2
<1>5. RuntimeTypeOK' /\ (busy \in [Lanes -> Nat])'
  BY <1>1, <1>4 DEF RuntimeInv, RuntimeTypeOK, ActorTypeOK
<1>6. LanesCounted' /\ OneNavigation' /\ AtRest'
  BY <1>1, <1>4 DEF RuntimeInv, LanesCounted, OneNavigation, AtRest
<1>7. WishTaken' /\ WishIsNew' /\ AskedBefore'
  BY <1>1, <1>3, <1>4 DEF RuntimeInv, WishTaken, WishIsNew, AskedBefore
<1>. QED
  BY <1>4, <1>5, <1>6, <1>7 DEF Good, RuntimeInv

LEMMA SourceFailsGood ==
    ASSUME RuntimeInv, SourceFails
    PROVE  Good
<1>1. RuntimeTypeOK
  BY DEF RuntimeInv
<1>2. faults' \in 0..MaxFaults
  BY <1>1 DEF SourceFails, Fault, RuntimeTypeOK, RuntimeAssumption
<1>3. /\ exit' \in {"none", "quit", "lifecycle"} /\ error' \in BOOLEAN
      /\ down' \in BOOLEAN /\ cancelling' \in BOOLEAN
  BY <1>1 DEF SourceFails, LoseConnection, StopWithError, RuntimeTypeOK
<1>4. UNCHANGED pending \/ (pending' = <<>> /\ exit' # "none")
  BY DEF SourceFails, StopWithError
<1>5. ActorTypeOK'
  BY <1>1 DEF SourceFails, ActorTypeOK, RuntimeTypeOK, actorVars
<1>. QED
  BY <1>2, <1>3, <1>4, <1>5, SourceGood DEF SourceFails, Waiting, actorVars

LEMMA CoordinatorCallsGood ==
    ASSUME RuntimeInv, CoordinatorCalls
    PROVE  Good
<1>1. RuntimeTypeOK
  BY DEF RuntimeInv
<1>2. CASE Len(mail) < MailboxCapacity /\ mail' = Append(mail, Outbox) /\ UNCHANGED <<turn, pending, stopVars>>
  <2>1. mail' \in Seq(Effects \cup {Outbox}) /\ Len(mail') = Len(mail) + 1 /\ Len(mail) \in Nat
    BY <1>1, <1>2, AppendProperties, LenProperties DEF RuntimeTypeOK
  <2>2. ActorTypeOK'
    BY <1>1, <1>2, <2>1
       DEF CoordinatorCalls, ActorTypeOK, RuntimeTypeOK, RuntimeAssumption
  <2>. QED
    BY <1>1, <1>2, <2>2, SourceGood DEF CoordinatorCalls, Waiting, stopVars, RuntimeTypeOK
<1>3. CASE StopWithError /\ pending' = <<>> /\ turn' = "admit" /\ UNCHANGED mail
  <2>1. ActorTypeOK'
    BY <1>1, <1>3 DEF CoordinatorCalls, ActorTypeOK, RuntimeTypeOK, RuntimeAssumption
  <2>. QED
    BY <1>1, <1>3, <2>1, SourceGood
       DEF CoordinatorCalls, Waiting, StopWithError, RuntimeTypeOK
<1>. QED
  BY <1>2, <1>3 DEF CoordinatorCalls

LEMMA WaitGood ==
    ASSUME RuntimeInv, Wait
    PROVE  Good
<1>1. /\ mode = "running" /\ turn = "start" /\ turn' = "wait"
      /\ UNCHANGED <<mode, wish, pending, active, flagged, busy, asked>>
      /\ UNCHANGED <<exit, error, down, cancelling, mail, handling, delivering, tasks, answer,
                     calls, faults>>
  BY DEF Wait, stopVars, actorVars, boundVars
<1>2. /\ Held' = Held /\ (busy \in [Lanes -> Nat])'
      /\ Fits' /\ LanesCounted' /\ OneNavigation' /\ AtRest'
      /\ OrderStep /\ ForgetStep
  BY <1>1, Undisturbed DEF Ended
<1>3. RuntimeTypeOK'
  BY <1>1 DEF RuntimeInv, RuntimeTypeOK
<1>4. WishTaken' /\ WishIsNew' /\ AskedBefore'
  BY <1>1, <1>2 DEF RuntimeInv, WishTaken, WishIsNew, AskedBefore
<1>. QED
  BY <1>2, <1>3, <1>4 DEF Good, RuntimeInv

\* The reducer asks for an effect that is not held, or to quit.
LEMMA AskedGood ==
    ASSUME RuntimeInv, NEW w \in Askable \cup {Quit}, Asks(w), mode \notin Ended,
           mode = "running" => turn = "wait",
           UNCHANGED <<mode, pending, active, flagged, busy, stopVars, actorVars, calls, faults>>
    PROVE  Good
<1>. USE DEF stopVars, actorVars
<1>1. w \in Effects \cup {Quit} /\ (w \in Effects => w \notin Held)
  BY DEF Askable, RuntimeInv, AskedBefore, RuntimeAssumption
<1>2. wish' = w /\ turn' = "admit" /\ asked' = asked \cup {e \in Effects : e = w /\ Kind[e] # "reconnect"}
  BY DEF Asks
<1>3. /\ Held' = Held /\ (busy \in [Lanes -> Nat])'
      /\ Fits' /\ LanesCounted' /\ OneNavigation' /\ AtRest'
      /\ OrderStep /\ ForgetStep
  <2>1. mode' # "running" => active = {}
    BY DEF RuntimeInv, AtRest
  <2>. QED
    BY <2>1, Undisturbed
<1>4. RuntimeTypeOK'
  BY <1>1, <1>2 DEF RuntimeInv, RuntimeTypeOK
<1>5. WishTaken' /\ WishIsNew' /\ AskedBefore'
  BY <1>1, <1>2, <1>3 DEF RuntimeInv, WishTaken, WishIsNew, AskedBefore
<1>. QED
  BY <1>3, <1>4, <1>5 DEF Good, RuntimeInv

LEMMA InteractGood ==
    ASSUME RuntimeInv, Interact
    PROVE  Good
<1>1. PICK w \in Askable \cup {Quit} : Asks(w)
  BY DEF Interact
<1>2. mode \notin Ended /\ turn = "wait"
  BY DEF Interact, Waiting, Ended
<1>. QED
  BY <1>1, <1>2, AskedGood DEF Interact

LEMMA TypesGood ==
    ASSUME RuntimeInv, TypeOffline \/ TypeCleaning
    PROVE  Good
<1>1. PICK w \in Askable \cup {Quit} : Asks(w)
  BY DEF TypeOffline, TypeCleaning, Types
<1>2. mode \notin Ended /\ mode # "running"
  BY DEF TypeOffline, TypeCleaning, Ended
<1>. QED
  BY <1>1, <1>2, AskedGood DEF TypeOffline, TypeCleaning, Types

-------------------------------------------------------------------------------
(* Between sessions.                                                       *)

\* A session that ends keeps what waits, and nothing is active.
LEMMA StopGood ==
    ASSUME RuntimeInv, mode = "running", active = {}, pending' = pending, flagged' = flagged,
           NEW m, m # "running", m \in Ended \cup {"cleanup"}, Stop(m),
           exit' \in {"none", "quit", "lifecycle"}, error' \in BOOLEAN, UNCHANGED <<down, cancelling, answer, boundVars>>,
           ActorTypeOK'
    PROVE  Good
<1>1. /\ mode' = m /\ turn' = "admit" /\ wish' = NoEffect /\ active' = {}
      /\ busy' = [l \in Lanes |-> 0] /\ UNCHANGED <<asked, calls, faults>>
  BY DEF Stop, boundVars
<1>2. Held' = Held
  BY <1>1 DEF Held
<1>3. Fits' /\ OrderStep /\ ForgetStep
  BY <1>1, <1>2 DEF RuntimeInv, Fits, OrderStep, Before, ForgetStep
<1>4. (busy \in [Lanes -> Nat])' /\ LanesCounted'
  <2>1. ASSUME NEW l \in Lanes
        PROVE  busy'[l] = 0 /\ {a \in active' : Lane[a] = l} = {} /\ 0 <= Limit[l]
    BY <1>1 DEF RuntimeAssumption
  <2>2. Cardinality({}) = 0
    BY FS_EmptySet
  <2>. QED
    BY <1>1, <2>1, <2>2 DEF LanesCounted
<1>5. OneNavigation' /\ AtRest'
  BY <1>1, <1>2 DEF RuntimeInv, OneNavigation, AtRest
<1>6. WishTaken' /\ WishIsNew' /\ AskedBefore'
  BY <1>1, <1>2 DEF RuntimeInv, WishTaken, WishIsNew, AskedBefore, RuntimeAssumption
<1>7. RuntimeTypeOK'
  BY <1>1 DEF RuntimeInv, RuntimeTypeOK, ActorTypeOK
<1>. QED
  BY <1>3, <1>4, <1>5, <1>6, <1>7 DEF Good, RuntimeInv

LEMMA LeaveGood ==
    ASSUME RuntimeInv, Leave
    PROVE  Good
<1>. USE DEF stopVars
<1>. DEFINE m == IF error THEN "failed" ELSE exit
<1>1. m # "running" /\ m \in Ended \cup {"cleanup"} /\ Stop(m)
  BY DEF Leave, RuntimeInv, RuntimeTypeOK, Ended
<1>2. mail' \in Seq(Effects \cup {Outbox}) /\ Len(mail') <= MailboxCapacity
  BY EmptySeq DEF Leave, RuntimeAssumption
<1>3. exit' \in {"none", "quit", "lifecycle"} /\ error' \in BOOLEAN
  BY DEF Leave, RuntimeInv, RuntimeTypeOK
<1>4. ActorTypeOK'
  BY <1>2 DEF Leave, RuntimeInv, RuntimeTypeOK, ActorTypeOK, boundVars
<1>. HIDE DEF m
<1>. QED
  BY <1>1, <1>3, <1>4, StopGood DEF Leave

LEMMA DisconnectGood ==
    ASSUME RuntimeInv, Disconnect
    PROVE  Good
<1>1. "cleanup" # "running" /\ "cleanup" \in Ended \cup {"cleanup"} /\ Stop("cleanup") /\ pending' = pending
  BY DEF Disconnect, Carried
<1>2. /\ ActorTypeOK' /\ answer' = answer
      /\ exit' \in {"none", "quit", "lifecycle"} /\ error' \in BOOLEAN
  BY DEF Disconnect, RuntimeInv, RuntimeTypeOK, ActorTypeOK, actorVars, boundVars
<1>. QED
  BY <1>1, <1>2, StopGood DEF Disconnect

\* The account ends for its user, or fails.
LEMMA EndedGood ==
    ASSUME RuntimeInv, mode' \in Ended, active = {}, active' = {}, pending' \in {<<>>, pending},
           wish' = NoEffect, UNCHANGED <<turn, flagged, busy, answer, asked>>, faults' \in 0..MaxFaults,
           exit' \in {"none", "quit", "lifecycle"}, error' \in BOOLEAN, down' \in BOOLEAN, cancelling' \in BOOLEAN,
           ActorTypeOK'
    PROVE  Good
<1>1. Held' \subseteq Held /\ Fits' /\ OrderStep /\ ForgetStep /\ pending' \in Seq(Effects)
  <2>1. CASE pending' = pending
    <3>1. Held' = Held
      BY <2>1 DEF Held
    <3>. QED
      BY <2>1, <3>1 DEF RuntimeInv, RuntimeTypeOK, Fits, OrderStep, Before, ForgetStep
  <2>2. CASE pending' = <<>>
    BY <2>2, Emptied, EmptySeq
  <2>. QED
    BY <2>1, <2>2
<1>2. RuntimeTypeOK' /\ (busy \in [Lanes -> Nat])'
  BY <1>1 DEF RuntimeInv, RuntimeTypeOK, ActorTypeOK, Ended
<1>3. LanesCounted' /\ OneNavigation' /\ AtRest'
  BY <1>1 DEF RuntimeInv, LanesCounted, OneNavigation, AtRest
<1>4. WishTaken' /\ WishIsNew' /\ AskedBefore'
  BY <1>1 DEF RuntimeInv, WishTaken, WishIsNew, AskedBefore, RuntimeAssumption, Ended
<1>. QED
  BY <1>1, <1>2, <1>3, <1>4 DEF Good, RuntimeInv

\* What waits stays while no session runs.
LEMMA SameGood ==
    ASSUME RuntimeInv, UNCHANGED <<pending, active, flagged, busy, answer, asked>>, active = {}, wish' = NoEffect,
           mode \notin Ended, mode' \in Ended \cup {"connecting", "offline", "running", "cleanup"}, turn' \in {"admit", "start", "wait"},
           exit' \in {"none", "quit", "lifecycle"}, error' \in BOOLEAN, down' \in BOOLEAN, cancelling' \in BOOLEAN,
           faults' \in 0..MaxFaults, ActorTypeOK'
    PROVE  Good
<1>1. /\ Held' = Held /\ (busy \in [Lanes -> Nat])'
      /\ Fits' /\ LanesCounted' /\ OneNavigation' /\ AtRest'
      /\ OrderStep /\ ForgetStep
  BY Undisturbed
<1>2. WishTaken' /\ WishIsNew' /\ AskedBefore'
  BY <1>1 DEF RuntimeInv, WishTaken, WishIsNew, AskedBefore, RuntimeAssumption
<1>3. RuntimeTypeOK'
  BY DEF RuntimeInv, RuntimeTypeOK, ActorTypeOK
<1>. QED
  BY <1>1, <1>2, <1>3 DEF Good, RuntimeInv

\* An effect typed while no session runs waits for the next one.
LEMMA AdmitsLaterGood ==
    ASSUME RuntimeInv, mode \notin Ended, mode # "running", wish \in Effects, AdmitsLater(wish), wish' = NoEffect,
           UNCHANGED <<turn, active, flagged, busy, stopVars, actorVars, boundVars>>
    PROVE  Good
<1>. USE DEF stopVars, actorVars, boundVars
<1>1. active = {} /\ RuntimeTypeOK /\ wish \notin Held
  BY DEF RuntimeInv, AtRest, WishIsNew
<1>2. CASE Full(pending, {}, wish)
  <2>1. mode' \in Ended /\ pending' = <<>>
    BY <1>2 DEF AdmitsLater, Ended
  <2>2. /\ exit' \in {"none", "quit", "lifecycle"} /\ error' \in BOOLEAN /\ down' \in BOOLEAN
        /\ cancelling' \in BOOLEAN /\ ActorTypeOK' /\ faults' \in 0..MaxFaults
    BY <1>1 DEF RuntimeTypeOK, ActorTypeOK
  <2>. QED
    BY <1>1, <2>1, <2>2, EndedGood
<1>3. CASE ~Full(pending, {}, wish)
  <2>1. pending' = Queued(pending, active, wish) /\ ~Full(pending, active, wish) /\ mode' = mode
    BY <1>1, <1>3 DEF AdmitsLater
  <2>2. flagged' = flagged \cup Superseded(wish)
    BY <1>1 DEF Superseded
  <2>3. /\ Held' \subseteq Held \cup {wish} /\ pending' \in Seq(Effects)
        /\ Fits' /\ OneNavigation' /\ OrderStep /\ ForgetStep
    BY <1>1, <2>1, <2>2, Entered
  <2>4. RuntimeTypeOK' /\ (busy \in [Lanes -> Nat])'
    BY <1>1, <2>1, <2>3 DEF RuntimeInv, RuntimeTypeOK
  <2>5. LanesCounted' /\ AtRest'
    BY <1>1, <2>1 DEF RuntimeInv, LanesCounted, AtRest
  <2>6. WishTaken' /\ WishIsNew' /\ AskedBefore'
    BY <2>3 DEF WishTaken, WishIsNew, AskedBefore, RuntimeInv, RuntimeAssumption
  <2>. QED
    BY <2>3, <2>4, <2>5, <2>6 DEF Good, RuntimeInv
<1>. QED
  BY <1>2, <1>3

LEMMA AdmitOfflineGood ==
    ASSUME RuntimeInv, AdmitOffline
    PROVE  Good
<1>1. /\ mode \in {"connecting", "offline"} /\ mode \notin Ended /\ mode # "running"
      /\ wish # NoEffect /\ wish' = NoEffect
      /\ UNCHANGED <<turn, active, flagged, busy, stopVars, actorVars, boundVars>>
  BY DEF AdmitOffline, Ended
<1>2. active = {} /\ RuntimeTypeOK /\ ActorTypeOK'
  <2>1. active = {} /\ RuntimeTypeOK
    BY <1>1 DEF RuntimeInv, AtRest
  <2>. QED
    BY <1>1, <2>1 DEF RuntimeTypeOK, ActorTypeOK, actorVars, boundVars
<1>3. CASE mode' = EndFor(wish) /\ UNCHANGED pending
  BY <1>1, <1>2, <1>3, SameGood DEF EndFor, Ended, RuntimeTypeOK, stopVars, actorVars, boundVars
<1>4. CASE mode' = "connecting" /\ UNCHANGED pending
  BY <1>1, <1>2, <1>4, SameGood DEF Ended, RuntimeTypeOK, stopVars, actorVars, boundVars
<1>5. CASE ~EndsAccount(wish) /\ ~Reconnects(wish) /\ AdmitsLater(wish)
  <2>1. wish \in Effects
    BY <1>1, <1>2, <1>5 DEF EndsAccount, RuntimeTypeOK
  <2>. QED
    BY <1>1, <1>5, <2>1, AdmitsLaterGood
<1>. QED
  BY <1>3, <1>4, <1>5 DEF AdmitOffline

LEMMA AdmitCleaningGood ==
    ASSUME RuntimeInv, AdmitCleaning
    PROVE  Good
<1>1. /\ mode = "cleanup" /\ mode \notin Ended /\ mode # "running"
      /\ wish # NoEffect /\ wish' = NoEffect
      /\ UNCHANGED <<turn, active, flagged, busy, error, down, cancelling, actorVars, boundVars>>
  BY DEF AdmitCleaning, Ended
<1>2. active = {} /\ RuntimeTypeOK /\ ActorTypeOK'
  <2>1. active = {} /\ RuntimeTypeOK
    BY <1>1 DEF RuntimeInv, AtRest
  <2>. QED
    BY <1>1, <2>1 DEF RuntimeTypeOK, ActorTypeOK, actorVars, boundVars
<1>3. CASE exit' = EndFor(wish) /\ UNCHANGED <<mode, pending>>
  BY <1>1, <1>2, <1>3, SameGood DEF EndFor, Ended, RuntimeTypeOK, actorVars, boundVars
<1>4. CASE ~EndsAccount(wish) /\ AdmitsLater(wish) /\ UNCHANGED exit
  <2>1. wish \in Effects
    BY <1>1, <1>2, <1>4 DEF EndsAccount, RuntimeTypeOK
  <2>. QED
    BY <1>1, <1>4, <2>1, AdmitsLaterGood DEF stopVars
<1>. QED
  BY <1>3, <1>4 DEF AdmitCleaning

LEMMA CleanedGood ==
    ASSUME RuntimeInv, Cleaned
    PROVE  Good
<1>1. /\ mode = "cleanup" /\ mode \notin Ended /\ mode # "running" /\ wish = NoEffect
      /\ exit' = "none" /\ down' = FALSE /\ cancelling' = FALSE
      /\ UNCHANGED <<turn, wish, active, flagged, busy, error, mail, handling, delivering, answer,
                     asked, calls>>
  BY DEF Cleaned, Ended
<1>2. active = {} /\ RuntimeTypeOK
  BY <1>1 DEF RuntimeInv, AtRest
<1>3. CASE /\ mode' = IF exit # "none" THEN exit ELSE "connecting"
           /\ UNCHANGED <<tasks, pending, faults>>
  <2>1. mode' \in Ended \cup {"connecting", "offline", "running", "cleanup"}
    BY <1>2, <1>3 DEF Ended, RuntimeTypeOK
  <2>2. ActorTypeOK'
    BY <1>1, <1>2, <1>3 DEF RuntimeTypeOK, ActorTypeOK
  <2>. QED
    BY <1>1, <1>2, <1>3, <2>1, <2>2, SameGood DEF RuntimeTypeOK
<1>4. CASE Fault /\ mode' = "failed" /\ pending' = <<>> /\ tasks' = {}
  <2>1. ActorTypeOK'
    BY <1>1, <1>2, <1>4 DEF RuntimeTypeOK, ActorTypeOK
  <2>2. faults' \in 0..MaxFaults /\ error' \in BOOLEAN
    BY <1>1, <1>2, <1>4 DEF Fault, RuntimeTypeOK, RuntimeAssumption
  <2>3. mode' \in Ended
    BY <1>4 DEF Ended
  <2>. QED
    BY <1>1, <1>2, <1>4, <2>1, <2>2, <2>3, EndedGood
<1>. QED
  BY <1>3, <1>4 DEF Cleaned

LEMMA ConnectGood ==
    ASSUME RuntimeInv, Connected \/ ConnectFails
    PROVE  Good
<1>1. /\ mode = "connecting" /\ mode \notin Ended /\ mode' \in {"running", "offline"}
      /\ wish = NoEffect /\ turn' \in {turn, "admit"}
      /\ UNCHANGED <<wish, pending, active, flagged, busy, stopVars, actorVars, asked, calls>>
  BY DEF Connected, ConnectFails, Ended, boundVars
<1>2. active = {} /\ RuntimeTypeOK
  BY <1>1 DEF RuntimeInv, AtRest
<1>3. faults' \in 0..MaxFaults
  BY <1>2 DEF Connected, ConnectFails, Fault, RuntimeTypeOK, RuntimeAssumption, boundVars
<1>4. ActorTypeOK'
  BY <1>1, <1>2 DEF RuntimeTypeOK, ActorTypeOK, actorVars
<1>. QED
  BY <1>1, <1>2, <1>3, <1>4, SameGood DEF RuntimeTypeOK, stopVars, actorVars

-------------------------------------------------------------------------------
(* The actor and the worker.                                               *)

LEMMA ReplyTyped ==
    ASSUME RuntimeTypeOK, NEW e \in Effects, Returns(e)
    PROVE  answer' \in [Effects -> Outcomes] /\ faults' \in 0..MaxFaults
<1>1. PICK o \in Outcomes : Reply(e, o) /\ (UNCHANGED faults \/ Fault)
  BY DEF Returns, Results, Outcomes
<1>2. answer' \in [Effects -> Outcomes]
  BY <1>1 DEF Reply, RuntimeTypeOK
<1>3. faults' \in 0..MaxFaults
  BY <1>1 DEF Fault, RuntimeTypeOK, RuntimeAssumption
<1>. QED
  BY <1>2, <1>3

LEMMA ActorGood ==
    ASSUME RuntimeInv, ActorNext
    PROVE  Good
<1>1. RuntimeTypeOK
  BY DEF RuntimeInv
<1>2. UNCHANGED <<loopVars, asked>> /\ UNCHANGED <<exit, error, down, cancelling>>
  BY DEF ActorNext, Handle, Dispatch, Finish, Submit, Receipt, Transferred, LocalAnswer, boundVars,
         stopVars
<1>3. SUFFICES ASSUME ActorTypeOK', answer' \in [Effects -> Outcomes], faults' \in 0..MaxFaults
               PROVE  Good
  <2>1. CASE Handle \/ Dispatch
    <3>1. mail \in Seq(Effects \cup {Outbox}) /\ mail # <<>> /\ mail' = Tail(mail)
          /\ UNCHANGED <<answer, delivering, calls, faults>>
      BY <1>1, <2>1 DEF Handle, Dispatch, Serving, RuntimeTypeOK, boundVars
    <3>2. /\ Head(mail) \in Effects \cup {Outbox} /\ mail' \in Seq(Effects \cup {Outbox})
          /\ Len(mail') = Len(mail) - 1 /\ Len(mail) \in Nat
      BY <3>1, HeadTailProperties, LenProperties
    <3>3. Len(mail') <= MailboxCapacity
      BY <1>1, <3>2 DEF RuntimeTypeOK, RuntimeAssumption
    <3>4. handling' \in Effects \cup {NoEffect, Outbox} /\ tasks' \subseteq Effects
      BY <1>1, <2>1, <3>2 DEF Handle, Dispatch, IsTransfer, RuntimeTypeOK
    <3>5. ~delivering
      BY <1>1, <2>1 DEF Handle, Dispatch, Serving, RuntimeTypeOK, RuntimeAssumption
    <3>6. ActorTypeOK'
      BY <1>1, <3>1, <3>2, <3>3, <3>4, <3>5 DEF ActorTypeOK, RuntimeTypeOK
    <3>. QED
      BY <1>1, <1>3, <3>1, <3>6 DEF RuntimeTypeOK
  <2>2. CASE Finish \/ Transferred
    <3>1. (\E e \in Effects : Returns(e)) \/ UNCHANGED <<answer, faults>>
      BY <1>1, <2>2 DEF Finish, Transferred, RuntimeTypeOK
    <3>2. answer' \in [Effects -> Outcomes] /\ faults' \in 0..MaxFaults
      BY <1>1, <3>1, ReplyTyped DEF RuntimeTypeOK
    <3>3. ActorTypeOK'
      BY <1>1, <2>2 DEF Finish, Transferred, ActorTypeOK, RuntimeTypeOK
    <3>. QED
      BY <1>3, <3>2, <3>3
  <2>3. CASE Submit \/ Receipt
    BY <1>1, <1>3, <2>3 DEF Submit, Receipt, ActorTypeOK, RuntimeTypeOK, boundVars
  <2>4. CASE LocalAnswer
    <3>1. PICK e \in Effects, o \in Outcomes : Reply(e, o) /\ (UNCHANGED faults \/ Fault)
      BY <1>1, <2>4 DEF LocalAnswer, RuntimeTypeOK, Outcomes
    <3>2. answer' \in [Effects -> Outcomes] /\ faults' \in 0..MaxFaults
      BY <1>1, <3>1 DEF Reply, Fault, RuntimeTypeOK, RuntimeAssumption
    <3>3. ActorTypeOK'
      BY <1>1, <2>4 DEF LocalAnswer, ActorTypeOK, RuntimeTypeOK
    <3>. QED
      BY <1>3, <3>2, <3>3
  <2>. QED
    BY <2>1, <2>2, <2>3, <2>4 DEF ActorNext
<1>4. RuntimeTypeOK'
  BY <1>1, <1>2, <1>3 DEF RuntimeTypeOK, ActorTypeOK, loopVars
<1>. QED
  BY <1>2, <1>4, OutsideStep

-------------------------------------------------------------------------------
(* The theorems.                                                           *)

LEMMA RuntimeInvInit == RuntimeInit => RuntimeInv
<1>. SUFFICES ASSUME RuntimeInit PROVE RuntimeInv
  OBVIOUS
<1>1. RuntimeTypeOK /\ busy \in [Lanes -> Nat]
  <2>1. <<>> \in Seq(Effects) /\ <<>> \in Seq(Effects \cup {Outbox}) /\ Len(<<>>) = 0 /\ 0 <= MailboxCapacity /\ 0 \in 0..MaxFaults /\ 0 \in 0..MaxCalls
    BY EmptySeq DEF RuntimeAssumption
  <2>2. answer \in [Effects -> Outcomes] /\ busy \in [Lanes -> Nat]
    BY DEF RuntimeInit, Outcomes
  <2>. QED
    BY <2>1, <2>2 DEF RuntimeInit, RuntimeTypeOK, FreshActor, RuntimeAssumption
<1>2. Held = {} /\ IsFiniteSet(active) /\ Cardinality(active) = 0 /\ Len(pending) = 0 /\ Range(pending) = {}
  BY FS_EmptySet, EmptySeq DEF RuntimeInit, Held, Range
<1>3. Fits
  BY <1>2 DEF Fits, RuntimeInit, IsInjective, RuntimeAssumption
<1>4. LanesCounted
  <2>1. ASSUME NEW l \in Lanes
        PROVE  busy[l] = 0 /\ {a \in active : Lane[a] = l} = {} /\ 0 <= Limit[l]
    BY DEF RuntimeInit, RuntimeAssumption
  <2>2. Cardinality({}) = 0
    BY FS_EmptySet
  <2>3. ASSUME NEW l \in Lanes
        PROVE  busy[l] = Cardinality({a \in active : Lane[a] = l}) /\ busy[l] <= Limit[l]
    <3>1. busy[l] = 0 /\ {a \in active : Lane[a] = l} = {} /\ 0 <= Limit[l]
      BY <2>1
    <3>. QED
      BY <2>2, <3>1
  <2>. QED
    BY <2>3 DEF LanesCounted
<1>5. OneNavigation /\ AtRest /\ WishTaken /\ WishIsNew /\ AskedBefore
  BY <1>2 DEF RuntimeInit, OneNavigation, AtRest, WishTaken, WishIsNew, AskedBefore, RuntimeAssumption
<1>. QED
  BY <1>1, <1>3, <1>4, <1>5 DEF RuntimeInv

LEMMA RuntimeStep ==
    ASSUME RuntimeInv, [RuntimeNext]_runtimeVars
    PROVE  Good
<1>1. CASE LoopNext
  BY <1>1, AdmitGood, StartNextGood, WaitGood, CompleteGood, LeaveGood, DisconnectGood DEF LoopNext
<1>2. CASE ActorNext
  BY <1>2, ActorGood
<1>3. CASE InputNext
  BY <1>3, InteractGood, CoordinatorCallsGood, SourceFailsGood, TypesGood DEF InputNext
<1>4. CASE BetweenNext
  BY <1>4, AdmitOfflineGood, AdmitCleaningGood, CleanedGood, ConnectGood DEF BetweenNext
<1>5. CASE UNCHANGED runtimeVars
  <2>1. UNCHANGED <<loopVars, stopVars, actorVars, boundVars>>
    BY <1>5 DEF runtimeVars
  <2>2. RuntimeTypeOK'
    BY <2>1 DEF RuntimeInv, RuntimeTypeOK, loopVars, stopVars, actorVars, boundVars
  <2>. QED
    BY <2>1, <2>2, OutsideStep DEF boundVars
<1>. QED
  BY <1>1, <1>2, <1>3, <1>4, <1>5 DEF RuntimeNext

LEMMA RuntimeInvariant == RuntimeSpec => []RuntimeInv
<1>1. RuntimeInv /\ [RuntimeNext]_runtimeVars => RuntimeInv'
  BY RuntimeStep DEF Good
<1>. QED
  BY <1>1, RuntimeInvInit, PTL DEF RuntimeSpec

\* The types of the variables of the loop, the actor and the account.
THEOREM RuntimeTypeCorrect == RuntimeSpec => []RuntimeTypeOK
<1>1. RuntimeInv => RuntimeTypeOK
  BY DEF RuntimeInv
<1>. QED
  BY <1>1, RuntimeInvariant, PTL

\* No accepted effect is held twice, what is held fits EFFECT_CAPACITY and the limits
\* of the lanes, and at most one navigation is live (enqueue_effect, next_effect_index,
\* decrement_lane, cancel_superseded_work).
THEOREM HeldOnceWithinCapacityAlways == RuntimeSpec => []HeldOnceWithinCapacity
<1>1. RuntimeInv => HeldOnceWithinCapacity
  BY HeldFits DEF RuntimeInv, Fits, HeldOnceWithinCapacity
<1>. QED
  BY <1>1, RuntimeInvariant, PTL

\* Effects of a lane that keeps order never overtake each other, through every
\* replacement, start, return and reconnection.
THEOREM LaneOrderKeptAlways == RuntimeSpec => LaneOrderKept
<1>1. RuntimeInv /\ [RuntimeNext]_runtimeVars => [OrderStep]_runtimeVars
  BY RuntimeStep DEF Good
<1>2. RuntimeSpec => [][OrderStep]_runtimeVars
  BY <1>1, RuntimeInvariant, PTL DEF RuntimeSpec
<1>. QED
  BY <1>2 DEF LaneOrderKept, OrderStep

\* An effect leaves the session only with a result, by a newer one of its group, by
\* a navigation that cancelled it, or with the session's end.
THEOREM NothingForgottenAlways == RuntimeSpec => NothingForgotten
<1>1. RuntimeInv /\ [RuntimeNext]_runtimeVars => [ForgetStep]_runtimeVars
  BY RuntimeStep DEF Good
<1>2. RuntimeSpec => [][ForgetStep]_runtimeVars
  BY <1>1, RuntimeInvariant, PTL DEF RuntimeSpec
<1>. QED
  BY <1>2 DEF NothingForgotten, ForgetStep

=================================================================================
