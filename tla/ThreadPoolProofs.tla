-------------------------- MODULE ThreadPoolProofs --------------------------
(***************************************************************************)
(* ThreadPool for any finite set of workers, any tasks and any group: its  *)
(* vector is a heap of the tasks that wait, the most urgent is taken       *)
(* first, no worker is told to go that is not there, nobody sleeps while   *)
(* there is something to do, and at most one worker outlives the pool.     *)
(***************************************************************************)
EXTENDS ThreadPool, FiniteSetTheorems, FunctionTheorems, SequenceTheorems, TLAPS

-----------------------------------------------------------------------------
(* Induction, and recursive functions.  That a function defined by         *)
(* recursion exists has to be shown: only then does the CHOOSE behind the  *)
(* definition of one say anything about its values.                        *)

\* If S left out k, adding 1 would map its members below k into themselves
\* without 0, which are fewer.
LEMMA Induction ==
  ASSUME NEW S, 0 \in S, \A n \in Nat : n \in S => n + 1 \in S
  PROVE  Nat \subseteq S
<1> SUFFICES ASSUME NEW k \in Nat, k \notin S PROVE FALSE
  OBVIOUS
<1> DEFINE A == (0 .. k) \cap S
           B == A \ {0}
           f == [i \in A |-> i + 1]
<1>1. IsFiniteSet(A)
  <2>1. IsFiniteSet(0 .. k)
    BY FS_Interval
  <2> QED
    BY <2>1, FS_Subset
<1>2. IsFiniteSet(B) /\ Cardinality(B) = Cardinality(A) - 1
  <2>1. 0 \in A
    OBVIOUS
  <2> HIDE DEF A
  <2> QED
    BY <1>1, <2>1, FS_RemoveElement
<1>3. \A i \in A : i + 1 \in B
  OBVIOUS
<1>4. f \in Injection(A, B)
  BY <1>3 DEF Injection, IsInjective
<1> HIDE DEF A, B, f
<1>5. Cardinality(A) <= Cardinality(B)
  BY <1>2, <1>4, FS_Injection
<1>6. Cardinality(A) \in Nat
  BY <1>1, FS_CardinalityType
<1> QED
  BY <1>2, <1>5, <1>6

\* f takes s to out[s], or to what step[s] makes of the value at the next of s.
Unfolds(f, S, done, out, next, step) ==
  f = [s \in S |-> IF s \in done THEN out[s] ELSE step[s][f[next[s]]]]

\* A function that is given by its value at something smaller exists: on what is smaller
\* than n it exists for every n, and where two of these meet they agree.
LEMMA Unfolding ==
  ASSUME NEW S, NEW size \in [S -> Nat], NEW done, NEW out, NEW next, NEW step,
         \A s \in S : s \notin done => next[s] \in S /\ size[next[s]] < size[s]
  PROVE  \E f : Unfolds(f, S, done, out, next, step)
<1> DEFINE Below(n) == { s \in S : size[s] < n }
           Solves(n, g) == \A s \in Below(n) :
                             g[s] = IF s \in done THEN out[s] ELSE step[s][g[next[s]]]
           Solved == { n \in Nat : \E g : Solves(n, g) }
<1>1. Nat \subseteq Solved
  <2>1. 0 \in Solved
    <3>1. Solves(0, out)
      OBVIOUS
    <3> QED
      BY <3>1
  <2>2. ASSUME NEW n \in Nat, n \in Solved PROVE n + 1 \in Solved
    <3>1. PICK g : Solves(n, g)
      BY <2>2
    <3> DEFINE h == [s \in S |-> IF s \in done THEN out[s] ELSE step[s][g[next[s]]]]
    <3>2. ASSUME NEW s \in Below(n + 1), s \notin done PROVE h[s] = step[s][h[next[s]]]
      <4>1. s \in S /\ next[s] \in S /\ next[s] \in Below(n) /\ h[s] = step[s][g[next[s]]]
        BY <3>2
      <4>2. g[next[s]] = IF next[s] \in done THEN out[next[s]]
                        ELSE step[next[s]][g[next[next[s]]]]
        BY <3>1, <4>1
      <4> QED
        BY <4>1, <4>2
    <3>3. \A s \in Below(n + 1) : s \in done => h[s] = out[s]
      OBVIOUS
    <3>4. Solves(n + 1, h)
      BY <3>2, <3>3
    <3> HIDE DEF h, Solves
    <3> QED
      BY <3>4
  <2> HIDE DEF Solved
  <2> QED
    BY <2>1, <2>2, Induction
<1> DEFINE Agreeing == { n \in Nat : \A i, j \in Nat : \A g, h : Solves(i, g) /\ Solves(j, h) =>
                           \A s \in Below(n) : s \in Below(i) /\ s \in Below(j) => g[s] = h[s] }
<1>2. Nat \subseteq Agreeing
  <2>1. 0 \in Agreeing
    OBVIOUS
  <2>2. ASSUME NEW n \in Nat, n \in Agreeing PROVE n + 1 \in Agreeing
    <3> SUFFICES ASSUME NEW i \in Nat, NEW j \in Nat, NEW g, NEW h, Solves(i, g), Solves(j, h),
                        NEW s \in Below(n + 1), s \in Below(i), s \in Below(j)
                 PROVE  g[s] = h[s]
      OBVIOUS
    <3>1. CASE s \in done
      BY <3>1
    <3>2. CASE s \notin done
      <4>1. next[s] \in Below(n) /\ next[s] \in Below(i) /\ next[s] \in Below(j)
        BY <3>2
      <4>2. g[next[s]] = h[next[s]]
        BY <2>2, <4>1
      <4> QED
        BY <3>2, <4>2
    <3> QED
      BY <3>1, <3>2
  <2> HIDE DEF Agreeing
  <2> QED
    BY <2>1, <2>2, Induction
<1> DEFINE part(n) == CHOOSE g : Solves(n, g)
           f == [s \in S |-> part(size[s] + 1)[s]]
<1>3. \A n \in Nat : Solves(n, part(n))
  BY <1>1
<1>4. ASSUME NEW s \in S, s \notin done PROVE f[s] = step[s][f[next[s]]]
  <2> DEFINE n == size[s] + 1
             k == size[next[s]] + 1
  <2>1. n \in Nat /\ k \in Nat /\ next[s] \in S /\ size[next[s]] \in Nat /\ size[s] \in Nat
    BY <1>4
  <2>2. s \in Below(n) /\ next[s] \in Below(n) /\ next[s] \in Below(k)
    BY <1>4, <2>1
  <2>3. Solves(n, part(n)) /\ Solves(k, part(k))
    BY <1>3, <2>1
  <2>4. part(n)[s] = step[s][part(n)[next[s]]]
    BY <1>4, <2>2, <2>3
  <2>5. k \in Agreeing
    BY <1>2, <2>1
  <2>6. part(n)[next[s]] = part(k)[next[s]]
    <3> HIDE DEF part, Solves, Below, n, k
    <3> QED
      BY <2>1, <2>2, <2>3, <2>5
  <2>7. f[s] = part(n)[s] /\ f[next[s]] = part(k)[next[s]]
    BY <2>1
  <2> HIDE DEF part, f, n, k
  <2> QED
    BY <2>4, <2>6, <2>7
<1>5. ASSUME NEW s \in S, s \in done PROVE f[s] = out[s]
  <2>1. size[s] + 1 \in Nat /\ s \in Below(size[s] + 1)
    OBVIOUS
  <2>2. Solves(size[s] + 1, part(size[s] + 1))
    BY <1>3, <2>1
  <2> QED
    BY <1>5, <2>1, <2>2
<1> HIDE DEF part
<1>6. f = [s \in S |-> f[s]]
  OBVIOUS
<1>7. f = [s \in S |-> IF s \in done THEN out[s] ELSE step[s][f[next[s]]]]
  BY <1>4, <1>5
<1> HIDE DEF f
<1> QED
  BY <1>7 DEF Unfolds

Repeats(f, S, done, out, next) ==
  f = [s \in S |-> IF s \in done THEN out[s] ELSE f[next[s]]]

\* A function that is applied again, until it is done, to something smaller exists.
LEMMA Recursion ==
  ASSUME NEW S, NEW size \in [S -> Nat], NEW done, NEW out, NEW next,
         \A s \in S : s \notin done => next[s] \in S /\ size[next[s]] < size[s]
  PROVE  \E f : Repeats(f, S, done, out, next)
<1> DEFINE V == { out[s] : s \in S }
           step == [s \in S |-> [v \in V |-> v]]
<1>1. PICK f : Unfolds(f, S, done, out, next, step)
  BY Unfolding
<1> DEFINE Fine == { n \in Nat : \A s \in S : size[s] < n => f[s] \in V }
<1>2. Nat \subseteq Fine
  <2>1. 0 \in Fine
    OBVIOUS
  <2>2. ASSUME NEW n \in Nat, n \in Fine PROVE n + 1 \in Fine
    <3> SUFFICES ASSUME NEW s \in S, size[s] < n + 1 PROVE f[s] \in V
      OBVIOUS
    <3>1. f[s] = IF s \in done THEN out[s] ELSE step[s][f[next[s]]]
      BY <1>1 DEF Unfolds
    <3>2. ASSUME s \notin done PROVE f[next[s]] \in V
      BY <2>2, <3>2
    <3> QED
      BY <3>1, <3>2
  <2> HIDE DEF Fine
  <2> QED
    BY <2>1, <2>2, Induction
<1>3. \A s \in S : f[s] \in V
  <2> SUFFICES ASSUME NEW s \in S PROVE f[s] \in V
    OBVIOUS
  <2>1. size[s] + 1 \in Fine
    BY <1>2
  <2> QED
    BY <2>1
<1>4. \A s \in S : f[s] = IF s \in done THEN out[s] ELSE f[next[s]]
  BY <1>1, <1>3 DEF Unfolds
<1>5. f = [s \in S |-> f[s]]
  BY <1>1 DEF Unfolds
<1> HIDE DEF V, step, Fine
<1>6. f = [s \in S |-> IF s \in done THEN out[s] ELSE f[next[s]]]
  BY <1>4, <1>5
<1> QED
  BY <1>6 DEF Repeats

-----------------------------------------------------------------------------
(* The recursive functions are defined.                                    *)

LEMMA Halves ==
  ASSUME NEW i \in Nat
  PROVE  i \div 2 \in Nat /\ 2 * (i \div 2) <= i /\ i <= 2 * (i \div 2) + 1
  OBVIOUS

LEMMA Swapped ==
  ASSUME NEW heap \in Seq(Tasks), NEW i \in 1 .. Len(heap), NEW j \in 1 .. Len(heap), i # j
  PROVE  /\ Swap(heap, i, j) \in Seq(Tasks) /\ Len(Swap(heap, i, j)) = Len(heap)
         /\ Swap(heap, i, j)[i] = heap[j] /\ Swap(heap, i, j)[j] = heap[i]
         /\ \A k \in 1 .. Len(heap) : k # i /\ k # j => Swap(heap, i, j)[k] = heap[k]
  BY DEF Swap

Rises(heap, i) == i \in 2 .. Len(heap) /\ Before(heap[i], heap[i \div 2])

LEMMA UpDefined ==
  ASSUME NEW heap \in Seq(Tasks), NEW i \in Nat
  PROVE  heapify_up[<<heap, i>>] =
           IF Rises(heap, i) THEN heapify_up[<<Swap(heap, i, i \div 2), i \div 2>>] ELSE heap
<1> DEFINE S == Seq(Tasks) \X Nat
           size == [s \in S |-> s[2]]
           done == { s \in S : ~ Rises(s[1], s[2]) }
           out == [s \in S |-> s[1]]
           next == [s \in S |-> <<Swap(s[1], s[2], s[2] \div 2), s[2] \div 2>>]
<1>1. ASSUME NEW s \in S, s \notin done PROVE next[s] \in S /\ size[next[s]] < size[s]
  <2>1. s[1] \in Seq(Tasks) /\ s[2] \in 2 .. Len(s[1]) /\ Len(s[1]) \in Nat
    BY <1>1 DEF Rises
  <2>2. s[2] \div 2 \in 1 .. Len(s[1]) /\ s[2] \div 2 # s[2] /\ s[2] \div 2 < s[2]
    BY <2>1, Halves
  <2>3. Swap(s[1], s[2], s[2] \div 2) \in Seq(Tasks)
    BY <2>1, <2>2, Swapped
  <2>4. next[s] = <<Swap(s[1], s[2], s[2] \div 2), s[2] \div 2>>
    OBVIOUS
  <2> QED
    BY <2>2, <2>3, <2>4
<1>2. size \in [S -> Nat]
  OBVIOUS
<1>3. \E f : Repeats(f, S, done, out, next)
  <2>1. \A s \in S : s \notin done => next[s] \in S /\ size[next[s]] < size[s]
    BY <1>1
  <2> HIDE DEF S, size, done, out, next
  <2> QED
    BY <1>2, <2>1, Recursion
<1>4. \E f : f = [s \in Seq(Tasks) \X Nat |->
                    LET h == s[1]
                        j == s[2]
                        parent == j \div 2
                    IN  IF j \in 2 .. Len(h) /\ Before(h[j], h[parent])
                        THEN f[<<Swap(h, j, parent), parent>>]
                        ELSE h]
  <2>1. PICK f : f = [s \in S |-> IF s \in done THEN out[s] ELSE f[next[s]]]
    BY <1>3 DEF Repeats
  <2>2. f = [s \in Seq(Tasks) \X Nat |->
               IF s[2] \in 2 .. Len(s[1]) /\ Before(s[1][s[2]], s[1][s[2] \div 2])
               THEN f[<<Swap(s[1], s[2], s[2] \div 2), s[2] \div 2>>]
               ELSE s[1]]
    BY <2>1 DEF Rises
  <2> QED
    BY <2>2
<1>5. heapify_up = [s \in Seq(Tasks) \X Nat |->
                    LET h == s[1]
                        j == s[2]
                        parent == j \div 2
                    IN  IF j \in 2 .. Len(h) /\ Before(h[j], h[parent])
                        THEN heapify_up[<<Swap(h, j, parent), parent>>]
                        ELSE h]
  BY <1>4, Zenon DEF heapify_up
<1> QED
  BY <1>5 DEF Rises

\* No child comes before the one that FirstChild finds, and that comes before i or is i.
LEMMA FirstIs ==
  ASSUME NEW heap \in Seq(Tasks), NEW i \in Nat \ {0}, NEW first, first = FirstChild(heap, i)
  PROVE  /\ \/ first = i
            \/ /\ first \in 1 .. Len(heap) /\ i \in 1 .. Len(heap) /\ first > i
               /\ first \div 2 = i
               /\ Before(heap[first], heap[i])
         /\ \A k \in 2 .. Len(heap) : k \div 2 = i => ~ Before(heap[k], heap[first])
<1>1. Len(heap) \in Nat /\ \A k \in 1 .. Len(heap) : heap[k] \in Tasks
  BY ElementOfSeq
<1>2. \A k \in 1 .. Len(heap) : Priority[heap[k]] \in Int
  BY <1>1, PriorityAssumption
<1>3. 2 * i \in Nat /\ i < 2 * i /\ i >= 1 /\ (2 * i) \div 2 = i /\ (2 * i + 1) \div 2 = i
  OBVIOUS
<1>4. \A k \in 2 .. Len(heap) : k \div 2 = i => k = 2 * i \/ k = 2 * i + 1
  BY Halves
<1> DEFINE left == IF 2 * i <= Len(heap) /\ Before(heap[2 * i], heap[i]) THEN 2 * i ELSE i
<1>5. first = IF 2 * i + 1 <= Len(heap) /\ Before(heap[2 * i + 1], heap[left])
              THEN 2 * i + 1 ELSE left
  BY DEF FirstChild
<1>6. CASE 2 * i > Len(heap)
  BY <1>1, <1>3, <1>4, <1>5, <1>6
<1>7. CASE 2 * i <= Len(heap)
  <2>1. i \in 1 .. Len(heap) /\ 2 * i \in 1 .. Len(heap) /\ left \in {i, 2 * i}
    BY <1>1, <1>3, <1>7
  <2>2. ~ Before(heap[2 * i], heap[left]) /\ ~ Before(heap[i], heap[left])
    BY <1>2, <1>7, <2>1 DEF Before
  <2>3. CASE first = left
    <3>1. 2 * i + 1 <= Len(heap) => ~ Before(heap[2 * i + 1], heap[left])
      BY <1>1, <1>3, <1>5, <2>1, <2>3
    <3>2. first = i \/ (first = 2 * i /\ Before(heap[2 * i], heap[i]))
      BY <2>3
    <3> QED
      BY <1>1, <1>3, <1>4, <2>1, <2>2, <2>3, <3>1, <3>2
  <2>4. CASE first # left
    <3>1. 2 * i + 1 \in 1 .. Len(heap) /\ first = 2 * i + 1 /\ Before(heap[first], heap[left])
      BY <1>1, <1>3, <1>5, <2>4
    <3>2. Before(heap[first], heap[i]) /\ ~ Before(heap[2 * i], heap[first])
          /\ ~ Before(heap[first], heap[first])
      BY <1>2, <2>1, <2>2, <3>1 DEF Before
    <3> QED
      BY <1>1, <1>3, <1>4, <2>1, <3>1, <3>2
  <2> QED
    BY <2>3, <2>4
<1> QED
  BY <1>1, <1>3, <1>6, <1>7

LEMMA DownDefined ==
  ASSUME NEW heap \in Seq(Tasks), NEW i \in Nat \ {0}, NEW first, first = FirstChild(heap, i)
  PROVE  heapify_down[<<heap, i>>] =
           IF first = i THEN heap ELSE heapify_down[<<Swap(heap, i, first), first>>]
<1> DEFINE S == Seq(Tasks) \X (Nat \ {0})
           size == [s \in S |-> IF s[2] <= Len(s[1]) THEN Len(s[1]) - s[2] ELSE 0]
           done == { s \in S : FirstChild(s[1], s[2]) = s[2] }
           out == [s \in S |-> s[1]]
           next == [s \in S |-> <<Swap(s[1], s[2], FirstChild(s[1], s[2])),
                                  FirstChild(s[1], s[2])>>]
<1>1. ASSUME NEW s \in S, s \notin done PROVE next[s] \in S /\ size[next[s]] < size[s]
  <2> DEFINE h == s[1]
             j == s[2]
             k == FirstChild(h, j)
  <2>1. h \in Seq(Tasks) /\ j \in Nat \ {0} /\ Len(h) \in Nat /\ k # j
    BY <1>1
  <2>2. k \in 1 .. Len(h) /\ j \in 1 .. Len(h) /\ k > j
    BY <2>1, FirstIs
  <2>3. Swap(h, j, k) \in Seq(Tasks) /\ Len(Swap(h, j, k)) = Len(h)
    BY <2>1, <2>2, Swapped
  <2>4. next[s] = <<Swap(h, j, k), k>>
    OBVIOUS
  <2>5. next[s] \in S /\ size[next[s]] = Len(h) - k
    <3> HIDE DEF k
    <3> QED
      BY <2>1, <2>2, <2>3, <2>4
  <2> QED
    BY <2>1, <2>2, <2>5
<1>2. size \in [S -> Nat]
  OBVIOUS
<1>3. \E f : Repeats(f, S, done, out, next)
  <2>1. \A s \in S : s \notin done => next[s] \in S /\ size[next[s]] < size[s]
    BY <1>1
  <2> HIDE DEF S, size, done, out, next
  <2> QED
    BY <1>2, <2>1, Recursion
<1>4. \E f : f = [s \in Seq(Tasks) \X (Nat \ {0}) |->
                    LET h == s[1]
                        j == s[2]
                        k == FirstChild(h, j)
                    IN  IF k = j THEN h ELSE f[<<Swap(h, j, k), k>>]]
  <2>1. PICK f : f = [s \in S |-> IF s \in done THEN out[s] ELSE f[next[s]]]
    BY <1>3 DEF Repeats
  <2>2. f = [s \in Seq(Tasks) \X (Nat \ {0}) |->
               IF FirstChild(s[1], s[2]) = s[2] THEN s[1]
               ELSE f[<<Swap(s[1], s[2], FirstChild(s[1], s[2])), FirstChild(s[1], s[2])>>]]
    BY <2>1
  <2> QED
    BY <2>2
<1>5. heapify_down = [s \in Seq(Tasks) \X (Nat \ {0}) |->
                        LET h == s[1]
                            j == s[2]
                            k == FirstChild(h, j)
                        IN  IF k = j THEN h ELSE heapify_down[<<Swap(h, j, k), k>>]]
  BY <1>4, Zenon DEF heapify_down
<1> QED
  BY <1>5

-----------------------------------------------------------------------------
(* Sifting moves tasks and loses none.                                     *)

Contents(heap) == { heap[k] : k \in 1 .. Len(heap) }
Distinct(heap) == \A j, k \in 1 .. Len(heap) : heap[j] = heap[k] => j = k
Rearranged(g, heap) ==
  /\ g \in Seq(Tasks) /\ Len(g) = Len(heap)
  /\ Contents(g) = Contents(heap)
  /\ Distinct(heap) => Distinct(g)

LEMMA SwapRearranges ==
  ASSUME NEW heap \in Seq(Tasks), NEW i \in 1 .. Len(heap), NEW j \in 1 .. Len(heap), i # j
  PROVE  Rearranged(Swap(heap, i, j), heap)
<1> DEFINE g == Swap(heap, i, j)
<1>1. /\ g \in Seq(Tasks) /\ Len(g) = Len(heap) /\ g[i] = heap[j] /\ g[j] = heap[i]
      /\ \A k \in 1 .. Len(heap) : k # i /\ k # j => g[k] = heap[k]
  BY Swapped
<1> HIDE DEF g
<1>2. \A k \in 1 .. Len(heap) : \E l \in 1 .. Len(heap) : g[l] = heap[k]
  BY <1>1
<1>3. \A k \in 1 .. Len(heap) : \E l \in 1 .. Len(heap) : heap[l] = g[k]
  BY <1>1
<1>4. Contents(g) = Contents(heap)
  <2>1. Len(g) = Len(heap)
    BY <1>1
  <2>2. ASSUME NEW x \in Contents(g) PROVE x \in Contents(heap)
    BY <1>3, <2>1, <2>2 DEF Contents
  <2>3. ASSUME NEW x \in Contents(heap) PROVE x \in Contents(g)
    BY <1>2, <2>1, <2>3 DEF Contents
  <2> QED
    BY <2>2, <2>3
<1>5. Distinct(heap) => Distinct(g)
  BY <1>1 DEF Distinct
<1> QED
  BY <1>1, <1>4, <1>5 DEF Rearranged, g

LEMMA RearrangedAgain ==
  ASSUME NEW f, NEW g, NEW heap, Rearranged(f, g), Rearranged(g, heap)
  PROVE  Rearranged(f, heap)
  BY DEF Rearranged

LEMMA Parent ==
  ASSUME NEW heap \in Seq(Tasks), NEW i \in 2 .. Len(heap)
  PROVE  /\ i \div 2 \in 1 .. Len(heap) /\ i \div 2 # i /\ i \div 2 < i
         /\ Len(heap) \in Nat /\ i \in 1 .. Len(heap) /\ i \div 2 \in Nat
<1>1. i \in Nat /\ Len(heap) \in Nat
  OBVIOUS
<1> QED
  BY <1>1, Halves

LEMMA UpRearranges ==
  ASSUME NEW heap \in Seq(Tasks), NEW i \in Nat
  PROVE  Rearranged(heapify_up[<<heap, i>>], heap)
<1> DEFINE Holds == { n \in Nat : \A h \in Seq(Tasks), j \in Nat :
                        j <= n => Rearranged(heapify_up[<<h, j>>], h) }
<1>1. ASSUME NEW h \in Seq(Tasks), NEW j \in Nat, ~ Rises(h, j)
      PROVE  Rearranged(heapify_up[<<h, j>>], h)
  BY <1>1, UpDefined DEF Rearranged
<1>2. 0 \in Holds
  BY <1>1 DEF Rises
<1>3. ASSUME NEW n \in Nat, n \in Holds PROVE n + 1 \in Holds
  <2> SUFFICES ASSUME NEW h \in Seq(Tasks), NEW j \in Nat, j <= n + 1, Rises(h, j)
               PROVE  Rearranged(heapify_up[<<h, j>>], h)
    BY <1>1
  <2> DEFINE g == Swap(h, j, j \div 2)
  <2>1. j \in 2 .. Len(h)
    BY DEF Rises
  <2>2. j \div 2 \in 1 .. Len(h) /\ j \div 2 # j /\ j \div 2 < j /\ j \div 2 \in Nat
        /\ j \in 1 .. Len(h)
    BY <2>1, Parent
  <2>3. Rearranged(g, h) /\ g \in Seq(Tasks)
    BY <2>2, SwapRearranges DEF Rearranged
  <2>4. heapify_up[<<h, j>>] = heapify_up[<<g, j \div 2>>]
    BY UpDefined
  <2>5. j \div 2 <= n
    BY <2>2
  <2> HIDE DEF g
  <2>6. Rearranged(heapify_up[<<g, j \div 2>>], g)
    BY <1>3, <2>2, <2>3, <2>5
  <2> QED
    BY <2>3, <2>4, <2>6, RearrangedAgain
<1>4. i \in Holds
  <2> HIDE DEF Holds
  <2> QED
    BY <1>2, <1>3, Induction
<1> QED
  BY <1>4

LEMMA DownRearranges ==
  ASSUME NEW heap \in Seq(Tasks), NEW i \in Nat \ {0}
  PROVE  Rearranged(heapify_down[<<heap, i>>], heap)
<1> DEFINE Holds == { n \in Nat : \A h \in Seq(Tasks), j \in Nat \ {0} :
                        Len(h) - j <= n => Rearranged(heapify_down[<<h, j>>], h) }
<1>1. ASSUME NEW h \in Seq(Tasks), NEW j \in Nat \ {0}, FirstChild(h, j) = j
      PROVE  Rearranged(heapify_down[<<h, j>>], h)
  BY <1>1, DownDefined DEF Rearranged
<1>2. ASSUME NEW h \in Seq(Tasks), NEW j \in Nat \ {0}, NEW k, k = FirstChild(h, j), k # j
      PROVE  /\ k \in 1 .. Len(h) /\ k \in Nat \ {0} /\ k > j
             /\ Rearranged(Swap(h, j, k), h) /\ Swap(h, j, k) \in Seq(Tasks)
             /\ heapify_down[<<h, j>>] = heapify_down[<<Swap(h, j, k), k>>]
  <2>1. k \in 1 .. Len(h) /\ j \in 1 .. Len(h) /\ k > j
    BY <1>2, FirstIs
  <2> QED
    BY <1>2, <2>1, SwapRearranges, DownDefined DEF Rearranged
<1>3. 0 \in Holds
  <2> SUFFICES ASSUME NEW h \in Seq(Tasks), NEW j \in Nat \ {0}, Len(h) - j <= 0
               PROVE  Rearranged(heapify_down[<<h, j>>], h)
    OBVIOUS
  <2> DEFINE k == FirstChild(h, j)
  <2>1. Len(h) \in Nat
    OBVIOUS
  <2>2. k # j => k \in 1 .. Len(h) /\ k > j
    BY <1>2
  <2> HIDE DEF k
  <2>3. k = j
    BY <2>1, <2>2
  <2> QED
    BY <1>1, <2>3 DEF k
<1>4. ASSUME NEW n \in Nat, n \in Holds PROVE n + 1 \in Holds
  <2> SUFFICES ASSUME NEW h \in Seq(Tasks), NEW j \in Nat \ {0}, Len(h) - j <= n + 1,
                      NEW k, k = FirstChild(h, j), k # j
               PROVE  Rearranged(heapify_down[<<h, j>>], h)
    BY <1>1
  <2> DEFINE g == Swap(h, j, k)
  <2>1. /\ k \in 1 .. Len(h) /\ k \in Nat \ {0} /\ k > j
        /\ Rearranged(g, h) /\ g \in Seq(Tasks)
        /\ heapify_down[<<h, j>>] = heapify_down[<<g, k>>]
    BY <1>2
  <2> HIDE DEF g
  <2>2. Len(g) = Len(h) /\ Len(h) \in Nat
    BY <2>1 DEF Rearranged
  <2>3. Len(g) - k <= n
    BY <2>1, <2>2
  <2>4. Rearranged(heapify_down[<<g, k>>], g)
    BY <1>4, <2>1, <2>3
  <2> QED
    BY <2>1, <2>4, RearrangedAgain
<1>5. Nat \subseteq Holds
  <2> HIDE DEF Holds
  <2> QED
    BY <1>3, <1>4, Induction
<1>6. Len(heap) \in Nat
  OBVIOUS
<1>7. Len(heap) - i <= Len(heap)
  BY <1>6
<1>8. Len(heap) \in Holds
  <2> HIDE DEF Holds
  <2> QED
    BY <1>5, <1>6
<1> QED
  BY <1>7, <1>8

-----------------------------------------------------------------------------
(* Sifting restores the heap.                                              *)

Follows(heap, k, j) == ~ Before(heap[k], heap[j])

\* A heap but for i, which may come before its parent; its children do not.
Rising(heap, i) ==
  /\ \A k \in 2 .. Len(heap) : k # i => Follows(heap, k, k \div 2)
  /\ \A k \in 2 .. Len(heap) : k \div 2 = i /\ i > 1 => Follows(heap, k, i \div 2)

\* A heap but for i, which its children may come before; they do not come before its parent.
Sinking(heap, i) ==
  /\ \A k \in 2 .. Len(heap) : k \div 2 # i => Follows(heap, k, k \div 2)
  /\ \A k \in 2 .. Len(heap) : k \div 2 = i /\ i > 1 => Follows(heap, k, i \div 2)

LEMMA FollowsIs ==
  ASSUME NEW heap \in Seq(Tasks)
  PROVE  /\ \A k \in 1 .. Len(heap) : heap[k] \in Tasks /\ Priority[heap[k]] \in Int
         /\ \A j, k : Follows(heap, k, j) <=> ~ (Priority[heap[k]] < Priority[heap[j]])
<1>1. \A k \in 1 .. Len(heap) : heap[k] \in Tasks
  BY ElementOfSeq
<1> QED
  BY <1>1, PriorityAssumption DEF Follows, Before

LEMMA RisingStep ==
  ASSUME NEW heap \in Seq(Tasks), NEW i \in Nat, Rising(heap, i), Rises(heap, i)
  PROVE  Rising(Swap(heap, i, i \div 2), i \div 2)
<1> DEFINE p == i \div 2
           g == Swap(heap, i, p)
<1>1. /\ i \in 2 .. Len(heap) /\ i \in 1 .. Len(heap) /\ p \in 1 .. Len(heap) /\ p < i
      /\ Len(heap) \in Nat /\ p \in Nat
  BY Parent DEF Rises
<1>2. /\ g \in Seq(Tasks) /\ Len(g) = Len(heap) /\ g[i] = heap[p] /\ g[p] = heap[i]
      /\ \A k \in 1 .. Len(heap) : k # i /\ k # p => g[k] = heap[k]
  <2> HIDE DEF p
  <2>1. i # p
    BY <1>1
  <2> QED
    BY <1>1, <2>1, Swapped
<1>3. Priority[heap[i]] < Priority[heap[p]]
  BY DEF Rises, Before
<1>4. \A k \in 2 .. Len(heap) : k \in 1 .. Len(heap) /\ k \div 2 \in 1 .. Len(heap) /\ k \div 2 < k
  BY Parent
<1> HIDE DEF g
<1>5. ASSUME NEW k \in 2 .. Len(g), k # p PROVE Follows(g, k, k \div 2)
  <2>1. k \in 2 .. Len(heap) /\ k \in 1 .. Len(heap) /\ k \div 2 \in 1 .. Len(heap)
        /\ k \div 2 < k
    BY <1>2, <1>4
  <2>2. CASE k = i
    BY <1>1, <1>2, <1>3, <2>2, FollowsIs
  <2>3. CASE k # i /\ k \div 2 = i
    <3>1. g[k] = heap[k] /\ g[k \div 2] = heap[p]
      BY <1>2, <1>5, <2>1, <2>3
    <3>2. Follows(heap, k, p)
      BY <1>1, <2>1, <2>3 DEF Rising
    <3> QED
      BY <3>1, <3>2 DEF Follows
  <2>4. CASE k # i /\ k \div 2 = p
    <3>1. g[k] = heap[k] /\ g[k \div 2] = heap[i]
      BY <1>2, <1>5, <2>1, <2>4
    <3>2. Follows(heap, k, p)
      BY <2>1, <2>4 DEF Rising
    <3>3. /\ Priority[heap[k]] \in Int /\ Priority[heap[i]] \in Int /\ Priority[heap[p]] \in Int
          /\ ~ (Priority[heap[k]] < Priority[heap[p]])
      BY <1>1, <2>1, <3>2, FollowsIs
    <3>4. ~ (Priority[g[k]] < Priority[g[k \div 2]])
      BY <1>3, <3>1, <3>3
    <3> QED
      BY <1>2, <3>4, FollowsIs
  <2>5. CASE k # i /\ k \div 2 # i /\ k \div 2 # p
    <3>1. g[k] = heap[k] /\ g[k \div 2] = heap[k \div 2]
      BY <1>2, <1>5, <2>1, <2>5
    <3>2. Follows(heap, k, k \div 2)
      BY <2>1, <2>5 DEF Rising
    <3> QED
      BY <3>1, <3>2 DEF Follows
  <2> QED
    BY <2>2, <2>3, <2>4, <2>5
<1>6. ASSUME NEW k \in 2 .. Len(g), k \div 2 = p, p > 1 PROVE Follows(g, k, p \div 2)
  <2> DEFINE q == p \div 2
  <2>1. k \in 2 .. Len(heap) /\ k \in 1 .. Len(heap) /\ k # p /\ p \in 2 .. Len(heap)
    BY <1>1, <1>2, <1>4, <1>6
  <2>2. q \in 1 .. Len(heap) /\ q < p
    BY <1>4, <2>1
  <2>3. Follows(heap, p, q)
    BY <1>1, <2>1 DEF Rising
  <2> HIDE DEF q
  <2>4. g[q] = heap[q]
    BY <1>1, <1>2, <2>2
  <2>5. /\ Priority[heap[k]] \in Int /\ Priority[heap[q]] \in Int /\ Priority[heap[p]] \in Int
        /\ ~ (Priority[heap[p]] < Priority[heap[q]])
    BY <1>1, <2>1, <2>2, <2>3, FollowsIs
  <2>6. CASE k = i
    <3>1. ~ (Priority[g[k]] < Priority[g[q]])
      BY <1>2, <2>4, <2>5, <2>6
    <3> QED
      BY <1>2, <3>1, FollowsIs DEF q
  <2>7. CASE k # i
    <3>1. Follows(heap, k, p)
      BY <1>6, <2>1, <2>7 DEF Rising
    <3>2. ~ (Priority[heap[k]] < Priority[heap[p]])
      BY <3>1, FollowsIs
    <3>3. g[k] = heap[k]
      BY <1>2, <2>1, <2>7
    <3>4. ~ (Priority[g[k]] < Priority[g[q]])
      BY <2>4, <2>5, <3>2, <3>3
    <3> QED
      BY <1>2, <3>4, FollowsIs DEF q
  <2> QED
    BY <2>6, <2>7
<1> QED
  BY <1>5, <1>6 DEF Rising, g

LEMMA SinkingStep ==
  ASSUME NEW heap \in Seq(Tasks), NEW i \in Nat \ {0}, Sinking(heap, i),
         NEW f, f = FirstChild(heap, i), f # i
  PROVE  Sinking(Swap(heap, i, f), f)
<1> DEFINE g == Swap(heap, i, f)
<1>1. /\ f \in 1 .. Len(heap) /\ i \in 1 .. Len(heap) /\ f > i /\ f \div 2 = i
      /\ Before(heap[f], heap[i]) /\ Len(heap) \in Nat /\ f \in 2 .. Len(heap)
  <2>1. /\ f \in 1 .. Len(heap) /\ i \in 1 .. Len(heap) /\ f > i /\ f \div 2 = i
        /\ Before(heap[f], heap[i]) /\ Len(heap) \in Nat
    BY FirstIs
  <2> QED
    BY <2>1
<1>2. \A k \in 2 .. Len(heap) : k \div 2 = i => Follows(heap, k, f)
  BY FirstIs DEF Follows
<1>3. /\ g \in Seq(Tasks) /\ Len(g) = Len(heap) /\ g[i] = heap[f] /\ g[f] = heap[i]
      /\ \A k \in 1 .. Len(heap) : k # i /\ k # f => g[k] = heap[k]
  BY <1>1, Swapped
<1>4. \A k \in 2 .. Len(heap) : k \in 1 .. Len(heap) /\ k \div 2 \in 1 .. Len(heap) /\ k \div 2 < k
  BY Parent
<1> HIDE DEF g
<1>5. ASSUME NEW k \in 2 .. Len(g), k \div 2 # f PROVE Follows(g, k, k \div 2)
  <2>1. k \in 2 .. Len(heap) /\ k \in 1 .. Len(heap) /\ k \div 2 \in 1 .. Len(heap)
        /\ k \div 2 < k
    BY <1>3, <1>4
  <2>2. CASE k = i
    <3>1. g[k] = heap[f] /\ g[k \div 2] = heap[i \div 2]
      BY <1>1, <1>3, <2>1, <2>2
    <3>2. i > 1
      BY <1>1, <2>1, <2>2
    <3>3. Follows(heap, f, i \div 2)
      BY <1>1, <3>2 DEF Sinking
    <3> QED
      BY <3>1, <3>3 DEF Follows
  <2>3. CASE k = f
    <3>1. /\ Priority[heap[i]] \in Int /\ Priority[heap[f]] \in Int
          /\ Priority[heap[f]] < Priority[heap[i]]
      BY <1>1, FollowsIs DEF Before
    <3>2. ~ (Priority[g[k]] < Priority[g[k \div 2]])
      BY <1>1, <1>3, <2>3, <3>1
    <3> QED
      BY <1>3, <3>2, FollowsIs
  <2>4. CASE k # i /\ k # f /\ k \div 2 = i
    <3>1. g[k] = heap[k] /\ g[k \div 2] = heap[f]
      BY <1>3, <2>1, <2>4
    <3>2. Follows(heap, k, f)
      BY <1>2, <2>1, <2>4
    <3> QED
      BY <3>1, <3>2 DEF Follows
  <2>5. CASE k # i /\ k # f /\ k \div 2 # i
    <3>1. g[k] = heap[k] /\ g[k \div 2] = heap[k \div 2]
      BY <1>3, <1>5, <2>1, <2>5
    <3>2. Follows(heap, k, k \div 2)
      BY <2>1, <2>5 DEF Sinking
    <3> QED
      BY <3>1, <3>2 DEF Follows
  <2> QED
    BY <2>2, <2>3, <2>4, <2>5
<1>6. ASSUME NEW k \in 2 .. Len(g), k \div 2 = f, f > 1 PROVE Follows(g, k, f \div 2)
  <2>1. k \in 2 .. Len(heap) /\ k \in 1 .. Len(heap) /\ k > f
    BY <1>3, <1>4, <1>6
  <2>2. g[k] = heap[k] /\ g[f \div 2] = heap[f]
    BY <1>1, <1>3, <2>1
  <2>3. Follows(heap, k, f)
    BY <1>1, <1>6, <2>1 DEF Sinking
  <2> QED
    BY <2>2, <2>3 DEF Follows
<1> QED
  BY <1>5, <1>6 DEF Sinking, g

\* heapify_up makes a heap of one in which only the node it starts from is too far down.
THEOREM UpRestoresHeap ==
  ASSUME NEW heap \in Seq(Tasks), NEW i \in Nat, Rising(heap, i)
  PROVE  IsHeap(heapify_up[<<heap, i>>])
<1> DEFINE Holds == { n \in Nat : \A h \in Seq(Tasks), j \in Nat :
                        j <= n /\ Rising(h, j) => IsHeap(heapify_up[<<h, j>>]) }
<1>1. ASSUME NEW h \in Seq(Tasks), NEW j \in Nat, Rising(h, j), ~ Rises(h, j)
      PROVE  IsHeap(heapify_up[<<h, j>>])
  <2>1. heapify_up[<<h, j>>] = h
    BY <1>1, UpDefined
  <2>2. ASSUME NEW k \in 2 .. Len(h) PROVE ~ Before(h[k], h[k \div 2])
    BY <1>1 DEF Rising, Rises, Follows
  <2> QED
    BY <2>1, <2>2 DEF IsHeap
<1>2. 0 \in Holds
  BY <1>1 DEF Rises
<1>3. ASSUME NEW n \in Nat, n \in Holds PROVE n + 1 \in Holds
  <2> SUFFICES ASSUME NEW h \in Seq(Tasks), NEW j \in Nat, j <= n + 1, Rising(h, j), Rises(h, j)
               PROVE  IsHeap(heapify_up[<<h, j>>])
    BY <1>1
  <2> DEFINE p == j \div 2
             g == Swap(h, j, p)
  <2>1. p \in 1 .. Len(h) /\ p # j /\ p < j /\ p \in Nat /\ j \in 1 .. Len(h)
    BY Parent DEF Rises
  <2>2. g \in Seq(Tasks)
    BY <2>1, Swapped
  <2>3. Rising(g, p)
    BY RisingStep
  <2>4. heapify_up[<<h, j>>] = heapify_up[<<g, p>>]
    BY UpDefined
  <2>5. p <= n
    BY <2>1
  <2> HIDE DEF g, p
  <2> QED
    BY <1>3, <2>1, <2>2, <2>3, <2>4, <2>5
<1>4. i \in Holds
  <2> HIDE DEF Holds
  <2> QED
    BY <1>2, <1>3, Induction
<1> QED
  BY <1>4

\* heapify_down makes a heap of one in which only the node it starts from is too far up.
THEOREM DownRestoresHeap ==
  ASSUME NEW heap \in Seq(Tasks), NEW i \in Nat \ {0}, Sinking(heap, i)
  PROVE  IsHeap(heapify_down[<<heap, i>>])
<1> DEFINE Holds == { n \in Nat : \A h \in Seq(Tasks), j \in Nat \ {0} :
                        Len(h) - j <= n /\ Sinking(h, j) => IsHeap(heapify_down[<<h, j>>]) }
<1>1. ASSUME NEW h \in Seq(Tasks), NEW j \in Nat \ {0}, Sinking(h, j), FirstChild(h, j) = j
      PROVE  IsHeap(heapify_down[<<h, j>>])
  <2>1. heapify_down[<<h, j>>] = h
    BY <1>1, DownDefined
  <2>2. \A k \in 2 .. Len(h) : k \div 2 = j => ~ Before(h[k], h[j])
    BY <1>1, FirstIs
  <2>3. ASSUME NEW k \in 2 .. Len(h) PROVE ~ Before(h[k], h[k \div 2])
    BY <1>1, <2>2 DEF Sinking, Follows
  <2> QED
    BY <2>1, <2>3 DEF IsHeap
<1>2. 0 \in Holds
  <2> SUFFICES ASSUME NEW h \in Seq(Tasks), NEW j \in Nat \ {0}, Len(h) - j <= 0, Sinking(h, j)
               PROVE  IsHeap(heapify_down[<<h, j>>])
    OBVIOUS
  <2> DEFINE k == FirstChild(h, j)
  <2>1. Len(h) \in Nat
    OBVIOUS
  <2>2. k # j => k \in 1 .. Len(h) /\ k > j
    BY FirstIs
  <2> HIDE DEF k
  <2>3. k = j
    BY <2>1, <2>2
  <2> QED
    BY <1>1, <2>3 DEF k
<1>3. ASSUME NEW n \in Nat, n \in Holds PROVE n + 1 \in Holds
  <2> SUFFICES ASSUME NEW h \in Seq(Tasks), NEW j \in Nat \ {0}, Len(h) - j <= n + 1,
                      Sinking(h, j), NEW k, k = FirstChild(h, j), k # j
               PROVE  IsHeap(heapify_down[<<h, j>>])
    BY <1>1
  <2> DEFINE g == Swap(h, j, k)
  <2>1. k \in 1 .. Len(h) /\ j \in 1 .. Len(h) /\ k > j /\ Len(h) \in Nat
    BY FirstIs
  <2>2. g \in Seq(Tasks) /\ Len(g) = Len(h)
    BY <2>1, Swapped
  <2>3. Sinking(g, k)
    BY SinkingStep
  <2>4. heapify_down[<<h, j>>] = heapify_down[<<g, k>>]
    BY DownDefined
  <2>5. Len(g) - k <= n /\ k \in Nat \ {0}
    BY <2>1, <2>2
  <2> HIDE DEF g
  <2> QED
    BY <1>3, <2>2, <2>3, <2>4, <2>5
<1>4. Len(heap) \in Nat /\ Len(heap) - i <= Len(heap)
  <2>1. Len(heap) \in Nat
    OBVIOUS
  <2> QED
    BY <2>1
<1>5. Len(heap) \in Holds
  <2> HIDE DEF Holds
  <2> QED
    BY <1>2, <1>3, <1>4, Induction
<1> QED
  BY <1>4, <1>5

-----------------------------------------------------------------------------
(* push and pop.                                                           *)

\* push adds the task, and leaves a heap a heap.
THEOREM PushIs ==
  ASSUME NEW heap \in Seq(Tasks), NEW t \in Tasks
  PROVE  /\ Pushed(heap, t) \in Seq(Tasks) /\ Len(Pushed(heap, t)) = Len(heap) + 1
         /\ Contents(Pushed(heap, t)) = Contents(heap) \cup {t}
         /\ Distinct(heap) /\ t \notin Contents(heap) => Distinct(Pushed(heap, t))
         /\ IsHeap(heap) => IsHeap(Pushed(heap, t))
<1> DEFINE n == Len(heap) + 1
           a == Append(heap, t)
<1>1. Len(heap) \in Nat /\ n \in Nat /\ a \in Seq(Tasks) /\ Len(a) = n /\ a[n] = t
  OBVIOUS
<1>2. \A k \in 1 .. Len(heap) : a[k] = heap[k]
  OBVIOUS
<1> HIDE DEF a
<1>3. Contents(a) = Contents(heap) \cup {t}
  <2>1. ASSUME NEW x \in Contents(a) PROVE x \in Contents(heap) \cup {t}
    <3>1. PICK k \in 1 .. n : x = a[k]
      BY <1>1, <2>1 DEF Contents
    <3>2. k = n \/ k \in 1 .. Len(heap)
      BY <1>1
    <3> QED
      BY <1>1, <1>2, <3>1, <3>2 DEF Contents
  <2>2. t \in Contents(a)
    BY <1>1 DEF Contents
  <2>3. ASSUME NEW x \in Contents(heap) PROVE x \in Contents(a)
    <3>1. PICK k \in 1 .. Len(heap) : x = heap[k]
      BY <2>3 DEF Contents
    <3>2. k \in 1 .. Len(a) /\ x = a[k]
      BY <1>1, <1>2, <3>1
    <3> QED
      BY <3>2 DEF Contents
  <2> QED
    BY <2>1, <2>2, <2>3
<1>4. ASSUME Distinct(heap), t \notin Contents(heap) PROVE Distinct(a)
  <2> SUFFICES ASSUME NEW j \in 1 .. Len(a), NEW k \in 1 .. Len(a), a[j] = a[k] PROVE j = k
    BY DEF Distinct
  <2>1. /\ j = n \/ j \in 1 .. Len(heap)
        /\ k = n \/ k \in 1 .. Len(heap)
    BY <1>1
  <2>2. \A l \in 1 .. Len(heap) : a[l] # t
    BY <1>2, <1>4 DEF Contents
  <2> HIDE DEF n
  <2> QED
    BY <1>1, <1>2, <1>4, <2>1, <2>2 DEF Distinct
<1>5. ASSUME IsHeap(heap) PROVE Rising(a, n)
  <2>1. ASSUME NEW k \in 2 .. Len(a), k # n PROVE Follows(a, k, k \div 2)
    <3>1. k \in 2 .. Len(heap)
      BY <1>1, <2>1
    <3>2. k \in 1 .. Len(heap) /\ k \div 2 \in 1 .. Len(heap)
      BY <3>1, Parent
    <3> QED
      BY <1>2, <1>5, <3>1, <3>2 DEF IsHeap, Follows
  <2>2. ASSUME NEW k \in 2 .. Len(a), k \div 2 = n PROVE FALSE
    BY <1>1, <2>2, Parent
  <2> QED
    BY <2>1, <2>2 DEF Rising
<1>6. Pushed(heap, t) = heapify_up[<<a, n>>]
  BY DEF Pushed, a
<1> HIDE DEF n
<1>7. Rearranged(Pushed(heap, t), a)
  BY <1>1, <1>6, UpRearranges
<1>8. IsHeap(heap) => IsHeap(Pushed(heap, t))
  BY <1>1, <1>5, <1>6, UpRestoresHeap
<1> QED
  BY <1>1, <1>3, <1>4, <1>7, <1>8 DEF Rearranged, n

\* No task of a heap comes before its first one.
THEOREM RootFirst ==
  ASSUME NEW heap \in Seq(Tasks), IsHeap(heap), NEW i \in 1 .. Len(heap)
  PROVE  ~ Before(heap[i], heap[1])
<1> DEFINE Holds == { n \in Nat : \A k \in 1 .. Len(heap) : k <= n => Follows(heap, k, 1) }
<1>1. 0 \in Holds
  OBVIOUS
<1>2. ASSUME NEW n \in Nat, n \in Holds PROVE n + 1 \in Holds
  <2> SUFFICES ASSUME NEW k \in 1 .. Len(heap), k <= n + 1 PROVE Follows(heap, k, 1)
    OBVIOUS
  <2>1. CASE k = 1
    BY <2>1, FollowsIs
  <2>2. CASE k # 1
    <3> DEFINE p == k \div 2
    <3>1. k \in 2 .. Len(heap) /\ Len(heap) \in Nat
      BY <2>2
    <3>2. p \in 1 .. Len(heap) /\ p < k /\ 1 \in 1 .. Len(heap)
      BY <3>1, Parent
    <3>3. Follows(heap, k, p)
      BY <3>1 DEF IsHeap, Follows
    <3> HIDE DEF p
    <3>4. p <= n
      BY <3>2
    <3>5. Follows(heap, p, 1)
      BY <1>2, <3>2, <3>4
    <3>6. /\ Priority[heap[k]] \in Int /\ Priority[heap[p]] \in Int /\ Priority[heap[1]] \in Int
          /\ ~ (Priority[heap[k]] < Priority[heap[p]])
          /\ ~ (Priority[heap[p]] < Priority[heap[1]])
      BY <3>2, <3>3, <3>5, FollowsIs
    <3> QED
      BY <3>6, FollowsIs
  <2> QED
    BY <2>1, <2>2
<1>3. i \in Holds
  <2> HIDE DEF Holds
  <2> QED
    BY <1>1, <1>2, Induction
<1> QED
  BY <1>3 DEF Follows

\* pop takes the first task out and no other, and leaves a heap a heap.
THEOREM PopIs ==
  ASSUME NEW heap \in Seq(Tasks), heap # <<>>, Distinct(heap)
  PROVE  /\ Popped(heap) \in Seq(Tasks) /\ Len(Popped(heap)) = Len(heap) - 1
         /\ Contents(Popped(heap)) = Contents(heap) \ {heap[1]}
         /\ Distinct(Popped(heap))
         /\ IsHeap(heap) => IsHeap(Popped(heap))
<1> DEFINE l == Len(heap)
           m == l - 1
           w == Swap(heap, 1, l)
           s == SubSeq(w, 1, m)
<1>1. l \in Nat /\ l \in 1 .. l /\ 1 \in 1 .. l /\ m \in Nat /\ m <= l
  <2>1. Len(heap) \in Nat /\ Len(heap) # 0
    BY EmptySeq
  <2> QED
    BY <2>1
<1>2. /\ w \in Seq(Tasks) /\ Len(w) = l /\ w[1] = heap[l]
      /\ \A k \in 2 .. m : w[k] = heap[k]
  <2>1. CASE l = 1
    <3>1. w = heap
      BY <2>1 DEF Swap
    <3>2. 2 .. m = {}
      BY <2>1
    <3> QED
      BY <2>1, <3>1, <3>2
  <2>2. CASE l # 1
    <3> HIDE DEF w
    <3>1. /\ w \in Seq(Tasks) /\ Len(w) = l /\ w[1] = heap[l]
          /\ \A k \in 1 .. l : k # 1 /\ k # l => w[k] = heap[k]
      BY <1>1, <2>2, Swapped DEF w
    <3>2. \A k \in 2 .. m : k \in 1 .. l /\ k # 1 /\ k # l
      BY <1>1
    <3> QED
      BY <3>1, <3>2
  <2> QED
    BY <2>1, <2>2
<1> HIDE DEF w
<1>3. s \in Seq(Tasks) /\ Len(s) = m /\ \A k \in 1 .. m : s[k] = w[k]
  <2> HIDE DEF l, m
  <2> QED
    BY <1>1, <1>2, SubSeqProperties
<1> HIDE DEF s
<1>4. /\ \A k \in 2 .. m : s[k] = heap[k]
      /\ m > 0 => s[1] = heap[l]
  BY <1>1, <1>2, <1>3
<1>5. \A k \in 1 .. m : k = 1 \/ k \in 2 .. m
  BY <1>1
<1>6. \A k \in 1 .. l : k = 1 \/ k = l \/ k \in 2 .. m
  BY <1>1
<1>7. Contents(s) = Contents(heap) \ {heap[1]}
  <2>1. ASSUME NEW x \in Contents(s) PROVE x \in Contents(heap) \ {heap[1]}
    <3>1. PICK k \in 1 .. m : x = s[k]
      BY <1>3, <2>1 DEF Contents
    <3>2. m > 0 /\ (k = 1 => x = heap[l] /\ l # 1) /\ (k # 1 => x = heap[k] /\ k \in 1 .. l)
      BY <1>1, <1>4, <1>5, <3>1
    <3>3. PICK j \in 1 .. l : j # 1 /\ x = heap[j]
      BY <1>1, <3>2
    <3> QED
      BY <1>1, <3>3 DEF Contents, Distinct
  <2>2. ASSUME NEW x \in Contents(heap), x # heap[1] PROVE x \in Contents(s)
    <3>1. PICK k \in 1 .. l : x = heap[k]
      BY <2>2 DEF Contents
    <3>2. k # 1
      BY <2>2, <3>1
    <3>3. CASE k = l
      <4>1. m > 0 /\ 1 \in 1 .. m
        BY <1>1, <3>2, <3>3
      <4> QED
        BY <1>3, <1>4, <3>1, <3>3, <4>1 DEF Contents
    <3>4. CASE k \in 2 .. m
      <4>1. k \in 1 .. m
        BY <1>1, <3>4
      <4> QED
        BY <1>3, <1>4, <3>1, <3>4, <4>1 DEF Contents
    <3> QED
      BY <1>6, <3>2, <3>3, <3>4
  <2> QED
    BY <2>1, <2>2
<1>8. Distinct(s)
  <2> SUFFICES ASSUME NEW j \in 1 .. m, NEW k \in 1 .. m, s[j] = s[k] PROVE j = k
    BY <1>3 DEF Distinct
  <2> DEFINE at(x) == IF x = 1 THEN l ELSE x
  <2>1. /\ at(j) \in 1 .. l /\ s[j] = heap[at(j)]
        /\ at(k) \in 1 .. l /\ s[k] = heap[at(k)]
    BY <1>1, <1>4, <1>5
  <2>2. at(j) = at(k)
    BY <2>1 DEF Distinct
  <2> QED
    BY <1>1, <2>2
<1>9. ASSUME IsHeap(heap) PROVE Sinking(s, 1)
  <2>1. ASSUME NEW k \in 2 .. Len(s), k \div 2 # 1 PROVE Follows(s, k, k \div 2)
    <3>1. k \in 2 .. l /\ k \in 2 .. m
      BY <1>1, <1>3
    <3>2. k \div 2 \in 1 .. Len(s) /\ k \div 2 # 1
      BY <1>3, <2>1, Parent
    <3>3. k \div 2 \in 2 .. m
      BY <1>3, <1>5, <3>2
    <3> QED
      BY <1>4, <1>9, <3>1, <3>3 DEF IsHeap, Follows
  <2> QED
    BY <2>1 DEF Sinking
<1>10. Popped(heap) = heapify_down[<<s, 1>>]
  BY DEF Popped, s, w
<1>11. Rearranged(Popped(heap), s)
  BY <1>3, <1>10, DownRearranges
<1>12. IsHeap(heap) => IsHeap(Popped(heap))
  BY <1>3, <1>9, <1>10, DownRestoresHeap
<1> QED
  BY <1>3, <1>7, <1>8, <1>11, <1>12 DEF Rearranged

LEMMA PushAllDefined ==
  ASSUME NEW heap \in Seq(Tasks), NEW tasks \in Seq(Tasks)
  PROVE  push_all[<<heap, tasks>>] =
           IF tasks = <<>> THEN heap
           ELSE push_all[<<Pushed(heap, Head(tasks)), Tail(tasks)>>]
<1> DEFINE S == Seq(Tasks) \X Seq(Tasks)
           size == [s \in S |-> Len(s[2])]
           done == { s \in S : s[2] = <<>> }
           out == [s \in S |-> s[1]]
           next == [s \in S |-> <<Pushed(s[1], Head(s[2])), Tail(s[2])>>]
<1>1. ASSUME NEW s \in S, s \notin done PROVE next[s] \in S /\ size[next[s]] < size[s]
  <2>1. s[1] \in Seq(Tasks) /\ s[2] \in Seq(Tasks) /\ s[2] # <<>>
    BY <1>1
  <2>2. Head(s[2]) \in Tasks /\ Tail(s[2]) \in Seq(Tasks) /\ Len(Tail(s[2])) = Len(s[2]) - 1
        /\ Len(s[2]) \in Nat
    BY <2>1, HeadTailProperties
  <2>3. Pushed(s[1], Head(s[2])) \in Seq(Tasks)
    BY <2>1, <2>2, PushIs
  <2>4. next[s] = <<Pushed(s[1], Head(s[2])), Tail(s[2])>>
    OBVIOUS
  <2>5. next[s] \in S
    BY <2>2, <2>3, <2>4
  <2>6. size[next[s]] = Len(Tail(s[2])) /\ size[s] = Len(s[2])
    BY <2>4, <2>5
  <2> QED
    BY <2>2, <2>5, <2>6
<1>2. size \in [S -> Nat]
  OBVIOUS
<1>3. \E f : Repeats(f, S, done, out, next)
  <2>1. \A s \in S : s \notin done => next[s] \in S /\ size[next[s]] < size[s]
    BY <1>1
  <2> HIDE DEF S, size, done, out, next
  <2> QED
    BY <1>2, <2>1, Recursion
<1>4. \E f : f = [s \in Seq(Tasks) \X Seq(Tasks) |->
                    LET h == s[1]
                        ts == s[2]
                    IN  IF ts = <<>> THEN h ELSE f[<<Pushed(h, Head(ts)), Tail(ts)>>]]
  <2>1. PICK f : f = [s \in S |-> IF s \in done THEN out[s] ELSE f[next[s]]]
    BY <1>3 DEF Repeats
  <2>2. f = [s \in Seq(Tasks) \X Seq(Tasks) |->
               IF s[2] = <<>> THEN s[1] ELSE f[<<Pushed(s[1], Head(s[2])), Tail(s[2])>>]]
    BY <2>1
  <2> QED
    BY <2>2
<1>5. push_all = [s \in Seq(Tasks) \X Seq(Tasks) |->
                    LET h == s[1]
                        ts == s[2]
                    IN  IF ts = <<>> THEN h ELSE push_all[<<Pushed(h, Head(ts)), Tail(ts)>>]]
  BY <1>4, Zenon DEF push_all
<1> QED
  BY <1>5

LEMMA HeadAndTail ==
  ASSUME NEW tasks \in Seq(Tasks), tasks # <<>>
  PROVE  /\ Head(tasks) \in Tasks /\ Tail(tasks) \in Seq(Tasks)
         /\ Len(Tail(tasks)) = Len(tasks) - 1 /\ Len(tasks) \in Nat /\ Len(tasks) # 0
         /\ Contents(tasks) = Contents(Tail(tasks)) \cup {Head(tasks)}
         /\ Distinct(tasks) => Distinct(Tail(tasks)) /\ Head(tasks) \notin Contents(Tail(tasks))
<1> DEFINE n == Len(tasks)
           m == n - 1
           s == Tail(tasks)
<1>1. /\ n \in Nat /\ n # 0 /\ Head(tasks) = tasks[1] /\ s \in Seq(Tasks) /\ Len(s) = m
      /\ \A k \in 1 .. m : s[k] = tasks[k + 1]
      /\ Head(tasks) \in Tasks
  <2>1. n \in Nat /\ n # 0
    BY EmptySeq
  <2> QED
    BY <2>1, HeadTailProperties
<1> HIDE DEF s
<1>2. \A k \in 1 .. m : k + 1 \in 1 .. n /\ k + 1 # 1
  BY <1>1
<1>3. \A k \in 1 .. n : k = 1 \/ (k - 1 \in 1 .. m /\ k = (k - 1) + 1)
  BY <1>1
<1>4. 1 \in 1 .. n
  BY <1>1
<1>5. Contents(tasks) = Contents(s) \cup {Head(tasks)}
  <2>1. ASSUME NEW x \in Contents(tasks) PROVE x \in Contents(s) \cup {Head(tasks)}
    <3>1. PICK k \in 1 .. n : x = tasks[k]
      BY <2>1 DEF Contents
    <3>2. k = 1 \/ \E j \in 1 .. m : x = s[j]
      BY <1>1, <1>3, <3>1
    <3>3. CASE k = 1
      BY <1>1, <3>1, <3>3
    <3>4. CASE \E j \in 1 .. m : x = s[j]
      BY <1>1, <3>4 DEF Contents
    <3> QED
      BY <3>2, <3>3, <3>4
  <2>2. ASSUME NEW x \in Contents(s) PROVE x \in Contents(tasks)
    <3>1. PICK k \in 1 .. m : x = s[k]
      BY <1>1, <2>2 DEF Contents
    <3> QED
      BY <1>1, <1>2, <3>1 DEF Contents
  <2>3. Head(tasks) \in Contents(tasks)
    BY <1>1, <1>4 DEF Contents
  <2> QED
    BY <2>1, <2>2, <2>3
<1>6. ASSUME Distinct(tasks) PROVE Distinct(s) /\ Head(tasks) \notin Contents(s)
  <2>1. ASSUME NEW j \in 1 .. m, NEW k \in 1 .. m, s[j] = s[k] PROVE j = k
    <3>1. j + 1 = k + 1
      BY <1>1, <1>2, <1>6, <2>1 DEF Distinct
    <3> QED
      BY <3>1
  <2>2. ASSUME NEW k \in 1 .. m PROVE s[k] # Head(tasks)
    BY <1>1, <1>2, <1>4, <1>6 DEF Distinct
  <2> QED
    BY <1>1, <2>1, <2>2 DEF Distinct, Contents
<1> QED
  BY <1>1, <1>5, <1>6 DEF s

Pushes(h, ts) ==
  /\ push_all[<<h, ts>>] \in Seq(Tasks)
  /\ Len(push_all[<<h, ts>>]) = Len(h) + Len(ts)
  /\ Contents(push_all[<<h, ts>>]) = Contents(h) \cup Contents(ts)
  /\ Distinct(h) /\ Distinct(ts) /\ Contents(h) \cap Contents(ts) = {}
       => Distinct(push_all[<<h, ts>>])
  /\ IsHeap(h) => IsHeap(push_all[<<h, ts>>])

\* The same of tasks that are pushed one by one.
THEOREM PushAllIs ==
  ASSUME NEW heap \in Seq(Tasks), NEW tasks \in Seq(Tasks)
  PROVE  Pushes(heap, tasks)
<1> DEFINE Holds == { n \in Nat : \A h, ts \in Seq(Tasks) : Len(ts) <= n => Pushes(h, ts) }
<1>1. ASSUME NEW h \in Seq(Tasks) PROVE Pushes(h, <<>>)
  <2>1. \A ts \in Seq(Tasks) : ts = <<>> => push_all[<<h, ts>>] = h
    BY PushAllDefined
  <2>2. Contents(<<>>) = {} /\ Len(<<>>) = 0 /\ Len(h) \in Nat /\ <<>> \in Seq(Tasks)
    BY DEF Contents
  <2>3. push_all[<<h, <<>> >>] = h
    BY <2>1, <2>2
  <2> QED
    BY <2>2, <2>3 DEF Pushes
<1>2. 0 \in Holds
  <2> SUFFICES ASSUME NEW h \in Seq(Tasks), NEW ts \in Seq(Tasks), Len(ts) <= 0
               PROVE  Pushes(h, ts)
    OBVIOUS
  <2>1. ts = <<>>
    <3>1. Len(ts) \in Nat
      OBVIOUS
    <3> QED
      BY <3>1, EmptySeq
  <2> QED
    BY <1>1, <2>1
<1>3. ASSUME NEW n \in Nat, n \in Holds PROVE n + 1 \in Holds
  <2> SUFFICES ASSUME NEW h \in Seq(Tasks), NEW ts \in Seq(Tasks), Len(ts) <= n + 1, ts # <<>>
               PROVE  Pushes(h, ts)
    BY <1>1
  <2>1. PICK t, rest, g : t = Head(ts) /\ rest = Tail(ts) /\ g = Pushed(h, t)
    OBVIOUS
  <2>2. /\ t \in Tasks /\ rest \in Seq(Tasks) /\ Len(rest) = Len(ts) - 1 /\ Len(ts) \in Nat
        /\ Contents(ts) = Contents(rest) \cup {t}
        /\ Distinct(ts) => Distinct(rest) /\ t \notin Contents(rest)
    BY <2>1, HeadAndTail
  <2>3. /\ g \in Seq(Tasks) /\ Len(g) = Len(h) + 1 /\ Contents(g) = Contents(h) \cup {t}
        /\ Distinct(h) /\ t \notin Contents(h) => Distinct(g)
        /\ IsHeap(h) => IsHeap(g)
    BY <2>1, <2>2, PushIs
  <2>4. Len(rest) <= n /\ Len(h) \in Nat
    BY <2>2
  <2>5. Pushes(g, rest)
    BY <1>3, <2>2, <2>3, <2>4
  <2>6. push_all[<<h, ts>>] = push_all[<<g, rest>>]
    BY <2>1, PushAllDefined
  <2> DEFINE r == push_all[<<g, rest>>]
  <2>7. r \in Seq(Tasks) /\ Len(r) = Len(h) + Len(ts)
    BY <2>2, <2>3, <2>4, <2>5 DEF Pushes
  <2>8. Contents(r) = Contents(h) \cup Contents(ts)
    BY <2>2, <2>3, <2>5 DEF Pushes
  <2>9. ASSUME Distinct(h), Distinct(ts), Contents(h) \cap Contents(ts) = {} PROVE Distinct(r)
    <3>1. Distinct(rest) /\ t \notin Contents(rest) /\ t \notin Contents(h)
      BY <2>2, <2>9
    <3>2. Distinct(g) /\ Contents(g) \cap Contents(rest) = {}
      BY <2>2, <2>3, <2>9, <3>1
    <3> QED
      BY <2>5, <3>1, <3>2 DEF Pushes
  <2>10. IsHeap(h) => IsHeap(r)
    BY <2>3, <2>5 DEF Pushes
  <2> HIDE DEF r
  <2>11. push_all[<<h, ts>>] = r
    BY <2>6 DEF r
  <2> QED
    BY <2>7, <2>8, <2>9, <2>10, <2>11 DEF Pushes
<1>4. Len(tasks) \in Holds
  <2>1. Len(tasks) \in Nat
    OBVIOUS
  <2> HIDE DEF Holds
  <2> QED
    BY <1>2, <1>3, <2>1, Induction
<1> QED
  BY <1>4

\* A queue in which no task is twice has as many tasks as it is long.
LEMMA DistinctCounts ==
  ASSUME NEW heap \in Seq(Tasks), Distinct(heap)
  PROVE  IsFiniteSet(Contents(heap)) /\ Len(heap) = Cardinality(Contents(heap))
<1> DEFINE D == 1 .. Len(heap)
           f == [k \in D |-> heap[k]]
<1>1. IsFiniteSet(D) /\ Cardinality(D) = Len(heap)
  <2>1. Len(heap) \in Nat
    OBVIOUS
  <2> QED
    BY <2>1, FS_Interval
<1>2. f \in Bijection(D, Contents(heap))
  BY DEF Bijection, Injection, Surjection, IsInjective, Contents, Distinct
<1>3. ExistsBijection(D, Contents(heap))
  BY <1>2 DEF ExistsBijection
<1> QED
  BY <1>1, <1>3, FS_Bijection

-----------------------------------------------------------------------------
(* The queue.                                                              *)

LEMMA GroupTasks ==
  /\ IsFiniteSet(Workers) /\ MaxFlag \in Nat \ {0} /\ MaxReuse \in Nat
  /\ Group \in Seq(Tasks) /\ Distinct(Group) /\ Grouped = Contents(Group)
  /\ Grouped \subseteq Tasks
<1>1. /\ Group \in Seq(Tasks) /\ DOMAIN Group = 1 .. Len(Group)
      /\ \A k \in 1 .. Len(Group) : Group[k] \in Tasks
  BY PoolAssumption
<1> QED
  BY <1>1, PoolAssumption DEF Distinct, Contents, Grouped, ToSet

\* What a step that touches tasks does.
LEMMA TaskSteps ==
  ASSUME [Next]_vars
  PROVE  \/ UNCHANGED <<task_queue, task, job>>
         \/ \E t \in Tasks : QueueTask(t)
         \/ QueueGroup
         \/ \E w \in Workers : Pop(w) \/ Finish(w)
  BY DEF Next, vars, poolVars, Notify, Allocate, TerminateWorker, Work, Wait, Leave,
         QueueForDisposal, End, WakeSpuriously, Manage, ManagerTest, ManagerSleep, ManagerJoins,
         TerminateAll, OwnerStep, PolledEmpty, ResetFlag, EndCleanup, Flushed, TerminateManager,
         NotifyManager, JoinManager

QueueInv ==
  /\ task_queue \in Seq(Tasks)
  /\ task \in [Tasks -> {"new", "queued", "running", "done"}]
  /\ job \in [Workers -> SUBSET Tasks]
  /\ IsHeap(task_queue) /\ Distinct(task_queue)
  /\ Contents(task_queue) = { t \in Tasks : task[t] = "queued" }
  /\ \A w \in Workers : \A t \in job[w] : task[t] = "running"
  /\ \A v, w \in Workers : v # w => job[v] \cap job[w] = {}

LEMMA InitQueue == Init => QueueInv
<1>1. Contents(<<>>) = {} /\ Distinct(<<>>) /\ IsHeap(<<>>) /\ <<>> \in Seq(Tasks)
  BY DEF Contents, Distinct, IsHeap
<1> QED
  BY <1>1 DEF Init, QueueInv

LEMMA QueueStep == QueueInv /\ [Next]_vars => QueueInv'
<1> SUFFICES ASSUME QueueInv, [Next]_vars PROVE QueueInv'
  OBVIOUS
<1>1. CASE UNCHANGED <<task_queue, task, job>>
  BY <1>1 DEF QueueInv
<1>2. ASSUME NEW t \in Tasks, QueueTask(t) PROVE QueueInv'
  <2>1. /\ task[t] = "new" /\ task_queue' = Pushed(task_queue, t)
        /\ task' = [task EXCEPT ![t] = "queued"] /\ job' = job
    BY <1>2 DEF QueueTask
  <2>2. t \notin Contents(task_queue)
    BY <2>1 DEF QueueInv
  <2>3. /\ task_queue' \in Seq(Tasks) /\ Contents(task_queue') = Contents(task_queue) \cup {t}
        /\ Distinct(task_queue') /\ IsHeap(task_queue')
    BY <2>1, <2>2, PushIs DEF QueueInv
  <2>4. Contents(task_queue') = { u \in Tasks : task'[u] = "queued" }
    BY <2>1, <2>3 DEF QueueInv
  <2> QED
    BY <2>1, <2>3, <2>4 DEF QueueInv
<1>3. ASSUME QueueGroup PROVE QueueInv'
  <2>1. /\ \A t \in Grouped : task[t] = "new"
        /\ task_queue' = push_all[<<task_queue, Group>>]
        /\ task' = [t \in Tasks |-> IF t \in Grouped THEN "queued" ELSE task[t]] /\ job' = job
    BY <1>3 DEF QueueGroup
  <2>2. Contents(task_queue) \cap Contents(Group) = {}
    BY <2>1, GroupTasks DEF QueueInv
  <2>3. /\ task_queue' \in Seq(Tasks) /\ Contents(task_queue') = Contents(task_queue) \cup Grouped
        /\ Distinct(task_queue') /\ IsHeap(task_queue')
    BY <2>1, <2>2, PushAllIs, GroupTasks DEF QueueInv, Pushes
  <2>4. Contents(task_queue') = { u \in Tasks : task'[u] = "queued" }
    <3>1. Contents(task_queue) = { u \in Tasks : task[u] = "queued" }
      BY DEF QueueInv
    <3>2. \A u \in Tasks : task'[u] = IF u \in Grouped THEN "queued" ELSE task[u]
      BY <2>1
    <3> QED
      BY <2>3, <3>1, <3>2, GroupTasks
  <2>5. ASSUME NEW w \in Workers, NEW t \in job[w] PROVE task'[t] = "running"
    <3>1. t \in Tasks /\ task[t] = "running"
      BY DEF QueueInv
    <3> QED
      BY <2>1, <3>1
  <2>6. task' \in [Tasks -> {"new", "queued", "running", "done"}]
    BY <2>1 DEF QueueInv
  <2> QED
    BY <2>1, <2>3, <2>4, <2>5, <2>6 DEF QueueInv
<1>4. ASSUME NEW w \in Workers, Pop(w) PROVE QueueInv'
  <2> DEFINE t == task_queue[1]
  <2>1. /\ task_queue # <<>> /\ Len(task_queue) \in Nat /\ Len(task_queue) # 0
        /\ Head(task_queue) = t
    BY <1>4, EmptySeq DEF Pop, QueueInv
  <2>2. t \in Contents(task_queue)
    BY <2>1 DEF Contents
  <2> HIDE DEF t
  <2>3. t \in Tasks /\ task[t] = "queued"
    BY <2>2 DEF QueueInv
  <2>4. /\ task_queue' = Popped(task_queue) /\ task' = [task EXCEPT ![t] = "running"]
        /\ job' = [job EXCEPT ![w] = {t}]
    BY <1>4, <2>1 DEF Pop
  <2>5. /\ task_queue' \in Seq(Tasks) /\ Contents(task_queue') = Contents(task_queue) \ {t}
        /\ Distinct(task_queue') /\ IsHeap(task_queue')
    BY <2>1, <2>4, PopIs DEF QueueInv, t
  <2>6. Contents(task_queue') = { u \in Tasks : task'[u] = "queued" }
    BY <2>3, <2>4, <2>5 DEF QueueInv
  <2>7. \A v \in Workers : t \notin job[v]
    BY <2>3 DEF QueueInv
  <2> QED
    BY <2>3, <2>4, <2>5, <2>6, <2>7 DEF QueueInv
<1>5. ASSUME NEW w \in Workers, Finish(w) PROVE QueueInv'
  <2>1. /\ task' = [t \in Tasks |-> IF t \in job[w] THEN "done" ELSE task[t]]
        /\ job' = [job EXCEPT ![w] = {}] /\ task_queue' = task_queue
    BY <1>5 DEF Finish
  <2>2. \A t \in job[w] : task[t] # "queued"
    BY DEF QueueInv
  <2>3. { u \in Tasks : task'[u] = "queued" } = { u \in Tasks : task[u] = "queued" }
    BY <2>1, <2>2
  <2>4. ASSUME NEW v \in Workers, NEW t \in job'[v] PROVE task'[t] = "running"
    <3>1. v # w /\ t \in job[v] /\ t \in Tasks
      BY <2>1, <2>4 DEF QueueInv
    <3> QED
      BY <2>1, <3>1 DEF QueueInv
  <2> QED
    BY <2>1, <2>3, <2>4 DEF QueueInv
<1> QED
  BY <1>1, <1>2, <1>3, <1>4, <1>5, TaskSteps

THEOREM QueueInvariant == Spec => []QueueInv
  BY InitQueue, QueueStep, PTL DEF Spec

\* The vector is a heap of the tasks that wait, each of them once.
THEOREM QueueIsHeap == Spec => []HeapHoldsQueue
<1>1. QueueInv => HeapHoldsQueue
  <2> SUFFICES ASSUME QueueInv PROVE HeapHoldsQueue
    OBVIOUS
  <2>1. task_queue \in Seq(Tasks) /\ DOMAIN task_queue = 1 .. Len(task_queue)
    BY DEF QueueInv
  <2>2. ToSet(task_queue) = Contents(task_queue)
    BY <2>1 DEF ToSet, Contents
  <2>3. Len(task_queue) = Cardinality(Contents(task_queue))
    BY <2>1, DistinctCounts DEF QueueInv
  <2> QED
    BY <2>2, <2>3 DEF HeapHoldsQueue, QueueInv
<1> QED
  BY <1>1, QueueInvariant, PTL

\* A worker takes a task that no task that waits comes before.
THEOREM UrgentFirst == Spec => MostUrgentFirst
<1>1. ASSUME QueueInv, [Next]_vars, NEW t \in Tasks, NEW u \in Tasks,
             task[t] = "queued", task'[t] = "running", task[u] = "queued"
      PROVE  ~ Before(u, t)
  <2>1. ~ UNCHANGED <<task_queue, task, job>>
    BY <1>1
  <2>2. ~ \E x \in Tasks : QueueTask(x)
    BY <1>1 DEF QueueTask, QueueInv
  <2>3. ~ QueueGroup
    BY <1>1 DEF QueueGroup
  <2>4. ~ \E w \in Workers : Finish(w)
    BY <1>1 DEF Finish, QueueInv
  <2>5. PICK w \in Workers : Pop(w)
    BY <1>1, <2>1, <2>2, <2>3, <2>4, TaskSteps
  <2>6. /\ task_queue \in Seq(Tasks) /\ task_queue # <<>>
        /\ task' = [task EXCEPT ![Head(task_queue)] = "running"]
    BY <1>1, <2>5 DEF Pop, QueueInv
  <2>7. t = task_queue[1]
    BY <1>1, <2>6 DEF QueueInv
  <2>8. PICK i \in 1 .. Len(task_queue) : u = task_queue[i]
    BY <1>1 DEF QueueInv, Contents
  <2> QED
    BY <1>1, <2>6, <2>7, <2>8, RootFirst DEF QueueInv
<1>2. QueueInv /\ [Next]_vars =>
        [\A t, u \in Tasks : task[t] = "queued" /\ task'[t] = "running"
           => ~ (task[u] = "queued" /\ Before(u, t))]_vars
  BY <1>1
<1> QED
  BY <1>2, QueueInvariant, PTL DEF Spec, MostUrgentFirst

-----------------------------------------------------------------------------
(* Types.                                                                  *)

WorkerType == worker \in [Workers -> {"unused", "testing", "waiting", "busy", "leaving",
                                       "queued", "ended", "joined"}]
ManagerType ==
  /\ manager \in {"testing", "falling", "asleep", "joining", "returned"}
  /\ targets \in Seq(Workers) /\ target \subseteq Workers
OwnerType ==
  /\ termination_flag \in 0 .. MaxFlag /\ notifying \in Nat
  /\ is_cleaning_up \in BOOLEAN /\ is_terminated \in BOOLEAN
  /\ owner \in {"alive", "polling", "reset", "clean", "flush", "terminate",
                "notify", "join", "gone"}
  /\ destroying \in BOOLEAN /\ cleanups \in Nat

LEMMA WorkerTypeStep == WorkerType /\ [Next]_vars => WorkerType'
<1> SUFFICES ASSUME WorkerType, [Next]_vars PROVE WorkerType'
  OBVIOUS
<1> USE DEF WorkerType
<1>1. CASE UNCHANGED worker
  BY <1>1
<1>2. ASSUME NEW S, Wake(S) PROVE WorkerType'
  BY <1>2 DEF Wake
<1>3. CASE Notify \/ QueueGroup \/ TerminateWorker \/ \E w \in Workers : WakeSpuriously(w)
  BY <1>2, <1>3 DEF Notify, QueueGroup, TerminateWorker, WakeSpuriously
<1>4. CASE \E destroy \in BOOLEAN : TerminateAll(destroy)
  BY <1>1, <1>2, <1>4 DEF TerminateAll
<1>5. CASE \E w \in Workers : Allocate(w) \/ Work(w)
  BY <1>5 DEF Allocate, Work, Wait, Pop, Finish, Leave, QueueForDisposal, End
<1>6. CASE Manage
  BY <1>6 DEF Manage, ManagerTest, ManagerSleep, ManagerJoins, poolVars
<1>7. CASE OwnerStep
  BY <1>7 DEF OwnerStep, PolledEmpty, ResetFlag, EndCleanup, Flushed, TerminateManager,
              NotifyManager, JoinManager, poolVars
<1>8. CASE (\E t \in Tasks : QueueTask(t)) \/ UNCHANGED vars
  BY <1>8 DEF QueueTask, vars, poolVars
<1> QED
  BY <1>3, <1>4, <1>5, <1>6, <1>7, <1>8 DEF Next

LEMMA ManagerTypeStep == ManagerType /\ [Next]_vars => ManagerType'
<1> SUFFICES ASSUME ManagerType, [Next]_vars PROVE ManagerType'
  OBVIOUS
<1>1. CASE UNCHANGED managerVars
  BY <1>1 DEF managerVars, ManagerType
<1>2. ASSUME NEW w \in Workers, QueueForDisposal(w) PROVE ManagerType'
  BY <1>2 DEF QueueForDisposal, WokenManager, ManagerType
<1>3. CASE ManagerTest
  <2>1. CASE targets = <<>> \/ is_terminated
    BY <1>3, <2>1 DEF ManagerTest, ManagerType
  <2>2. CASE targets # <<>> /\ ~ is_terminated
    <3>1. Head(targets) \in Workers /\ Tail(targets) \in Seq(Workers)
      BY <2>2, HeadTailProperties DEF ManagerType
    <3> QED
      BY <1>3, <2>2, <3>1 DEF ManagerTest, ManagerType
  <2> QED
    BY <2>1, <2>2
<1>4. CASE ManagerSleep \/ ManagerJoins \/ NotifyManager
  BY <1>4 DEF ManagerSleep, ManagerJoins, NotifyManager, WokenManager, ManagerType
<1>5. CASE PolledEmpty \/ ResetFlag \/ EndCleanup \/ Flushed \/ TerminateManager \/ JoinManager
  BY <1>1, <1>5 DEF PolledEmpty, ResetFlag, EndCleanup, Flushed, TerminateManager, JoinManager
<1>6. CASE \/ \E t \in Tasks : QueueTask(t)
           \/ Notify \/ QueueGroup \/ TerminateWorker
           \/ \E destroy \in BOOLEAN : TerminateAll(destroy)
           \/ UNCHANGED vars
  BY <1>1, <1>6 DEF QueueTask, Notify, QueueGroup, TerminateWorker, TerminateAll, vars
<1>7. CASE \E w \in Workers : Allocate(w) \/ Wait(w) \/ Pop(w) \/ Finish(w) \/ Leave(w)
                               \/ End(w) \/ WakeSpuriously(w)
  BY <1>1, <1>7 DEF Allocate, Wait, Pop, Finish, Leave, End, WakeSpuriously
<1> QED
  BY <1>2, <1>3, <1>4, <1>5, <1>6, <1>7 DEF Next, Work, Manage, OwnerStep

LEMMA OwnerTypeStep == OwnerType /\ [Next]_vars => OwnerType'
<1> SUFFICES ASSUME OwnerType, [Next]_vars PROVE OwnerType'
  OBVIOUS
<1> USE DEF OwnerType, ownerVars
<1>1. MaxFlag \in Nat \ {0}
  BY GroupTasks
<1>2. CASE UNCHANGED <<termination_flag, notifying, ownerVars>>
  BY <1>2
<1>3. CASE \E t \in Tasks : QueueTask(t)
  BY <1>3 DEF QueueTask
<1>4. CASE Notify
  BY <1>4 DEF Notify
<1>5. CASE QueueGroup \/ UNCHANGED vars
  BY <1>2, <1>5 DEF QueueGroup, vars, poolVars
<1>6. CASE TerminateWorker
  <2>1. termination_flag' = (termination_flag + 1) % (MaxFlag + 1)
    BY <1>6 DEF TerminateWorker
  <2>2. termination_flag' \in 0 .. MaxFlag
    BY <1>1, <2>1
  <2> QED
    BY <1>6, <2>2 DEF TerminateWorker
<1>7. CASE \E destroy \in BOOLEAN : TerminateAll(destroy)
  <2>1. PICK destroy \in BOOLEAN : TerminateAll(destroy)
    BY <1>7
  <2>2. /\ destroying' \in BOOLEAN /\ notifying' = notifying
        /\ UNCHANGED <<is_terminated, cleanups>>
    BY <2>1 DEF TerminateAll
  <2>3. CASE threads_map = {}
    <3>1. UNCHANGED <<termination_flag, is_cleaning_up>> /\ owner' \in {"flush", "alive"}
      BY <2>1, <2>3 DEF TerminateAll
    <3> QED
      BY <2>2, <3>1
  <2>4. CASE threads_map # {}
    <3>1. is_cleaning_up' = TRUE /\ termination_flag' = MaxFlag /\ owner' = "polling"
      BY <2>1, <2>4 DEF TerminateAll
    <3> QED
      BY <1>1, <2>2, <3>1
  <2> QED
    BY <2>3, <2>4
<1>8. ASSUME NEW w \in Workers, Leave(w) PROVE OwnerType'
  <2>1. termination_flag' = termination_flag - 1 /\ termination_flag > 0
    BY <1>8 DEF Leave, Told
  <2>2. termination_flag' \in 0 .. MaxFlag
    BY <1>1, <2>1
  <2> QED
    BY <1>8, <2>2 DEF Leave
<1>9. ASSUME NEW w \in Workers,
             Allocate(w) \/ Wait(w) \/ Pop(w) \/ Finish(w) \/ QueueForDisposal(w) \/ End(w)
               \/ WakeSpuriously(w)
      PROVE  OwnerType'
  BY <1>2, <1>9 DEF Allocate, Wait, Pop, Finish, QueueForDisposal, End, WakeSpuriously
<1>10. CASE Manage
  BY <1>2, <1>10 DEF Manage, ManagerTest, ManagerSleep, ManagerJoins, poolVars
<1>11. CASE ResetFlag
  BY <1>1, <1>11 DEF ResetFlag, FlagAfter
<1>12. CASE EndCleanup
  <2>1. owner' \in {"flush", "alive"} /\ is_cleaning_up' = FALSE
    BY <1>12 DEF EndCleanup
  <2>2. cleanups' \in Nat
    BY <1>12 DEF EndCleanup
  <2>3. UNCHANGED <<termination_flag, notifying, is_terminated, destroying>>
    BY <1>12 DEF EndCleanup, poolVars
  <2> QED
    BY <2>1, <2>2, <2>3
<1>13. CASE PolledEmpty \/ Flushed \/ TerminateManager
  BY <1>13 DEF PolledEmpty, Flushed, TerminateManager, poolVars
<1>14. CASE NotifyManager \/ JoinManager
  BY <1>14 DEF NotifyManager, JoinManager, poolVars
<1> QED
  BY <1>3, <1>4, <1>5, <1>6, <1>7, <1>8, <1>9, <1>10, <1>11, <1>12, <1>13, <1>14
     DEF Next, Work, OwnerStep

TypeInv == WorkerType /\ ManagerType /\ OwnerType

THEOREM TypeInvariant == Spec => []TypeInv
<1>1. Init => TypeInv
  <2>1. 0 \in 0 .. MaxFlag /\ 0 \in Nat /\ <<>> \in Seq(Workers)
    BY GroupTasks
  <2> QED
    BY <2>1 DEF Init, TypeInv, WorkerType, ManagerType, OwnerType
<1>2. TypeInv /\ [Next]_vars => TypeInv'
  BY WorkerTypeStep, ManagerTypeStep, OwnerTypeStep DEF TypeInv
<1> QED
  BY <1>1, <1>2, PTL DEF Spec

\* Every variable has its type.
THEOREM PoolTypeCorrect == Spec => []TypeOK
<1>1. QueueInv /\ TypeInv => TypeOK
  BY DEF QueueInv, TypeInv, WorkerType, ManagerType, OwnerType, TypeOK
<1> QED
  BY <1>1, QueueInvariant, TypeInvariant, PTL

-----------------------------------------------------------------------------
(* Where the workers are.                                                  *)

Active == In({"testing", "busy"})
Waiting == In({"waiting"})

LEMMA Counted ==
  ASSUME NEW S \in SUBSET Workers
  PROVE  IsFiniteSet(S) /\ Cardinality(S) \in Nat
BY GroupTasks, FS_Subset, FS_CardinalityType

LEMMA Waked ==
  ASSUME WorkerType, NEW S, S \subseteq Waiting, Wake(S)
  PROVE  threads_map' = threads_map /\ Active' = Active \cup S /\ Waiting' = Waiting \ S
BY DEF WorkerType, Wake, threads_map, Active, Waiting, In

LEMMA Awakened ==
  ASSUME WorkerType, NEW n, NEW S \in Woken(n), Wake(S)
  PROVE  /\ threads_map' = threads_map /\ Active' = Active \cup S /\ Waiting' = Waiting \ S
         /\ Waiting' # {} => Cardinality(S) = n /\ S \subseteq Workers
         /\ S \subseteq Waiting
<1>1. S \subseteq Waiting
  BY DEF Woken, Waiting
<1>2. threads_map' = threads_map /\ Active' = Active \cup S /\ Waiting' = Waiting \ S
  BY <1>1, Waked
<1>3. Cardinality(S) = n \/ S = Waiting
  BY DEF Woken, Waiting
<1>4. S \subseteq Workers
  BY <1>1 DEF Waiting, In
<1> QED
  BY <1>1, <1>2, <1>3, <1>4

LEMMA Moved ==
  ASSUME WorkerType, NEW w \in Workers, NEW s, worker' = [worker EXCEPT ![w] = s]
  PROVE  /\ threads_map' = IF s \in {"testing", "waiting", "busy"} THEN threads_map \cup {w}
                           ELSE threads_map \ {w}
         /\ Active' = IF s \in {"testing", "busy"} THEN Active \cup {w} ELSE Active \ {w}
         /\ Waiting' = IF s \in {"waiting"} THEN Waiting \cup {w} ELSE Waiting \ {w}
<1>1. worker'[w] = s /\ \A v \in Workers : v # w => worker'[v] = worker[v]
  BY DEF WorkerType
<1> QED
  BY <1>1 DEF threads_map, Active, Waiting, In

\* The steps that move a worker into or out of the pool, or to and from sleep.
LEMMA Moves ==
  ASSUME WorkerType, [Next]_vars
  PROVE  \/ UNCHANGED <<threads_map, Active, Waiting>>
         \/ Notify \/ QueueGroup \/ TerminateWorker
         \/ \E destroy \in BOOLEAN : TerminateAll(destroy)
         \/ \E w \in Workers : Allocate(w) \/ Wait(w) \/ Leave(w) \/ WakeSpuriously(w)
<1> USE DEF threads_map, Active, Waiting, In
<1>1. CASE UNCHANGED worker
  BY <1>1
<1>2. CASE \/ \E t \in Tasks : QueueTask(t)
           \/ ManagerTest \/ ManagerSleep \/ OwnerStep \/ UNCHANGED vars
  BY <1>1, <1>2 DEF QueueTask, ManagerTest, ManagerSleep, OwnerStep, PolledEmpty, ResetFlag,
       EndCleanup, Flushed, TerminateManager, NotifyManager, JoinManager, vars, poolVars
<1>3. ASSUME NEW w \in Workers, Pop(w) \/ Finish(w)
      PROVE  UNCHANGED <<threads_map, Active, Waiting>>
  <2>1. /\ worker[w] = "testing" \/ worker[w] = "busy"
        /\ worker' = [worker EXCEPT ![w] = "testing"] \/ worker' = [worker EXCEPT ![w] = "busy"]
    BY <1>3 DEF Pop, Finish
  <2>2. \A v \in Workers : v # w => worker'[v] = worker[v]
    BY <2>1 DEF WorkerType
  <2>3. worker'[w] = "testing" \/ worker'[w] = "busy"
    BY <2>1 DEF WorkerType
  <2> QED
    BY <2>1, <2>2, <2>3
<1>4. ASSUME NEW w \in Workers, QueueForDisposal(w) \/ End(w)
      PROVE  UNCHANGED <<threads_map, Active, Waiting>>
  <2>1. /\ worker[w] = "leaving" \/ worker[w] = "queued"
        /\ worker' = [worker EXCEPT ![w] = "queued"] \/ worker' = [worker EXCEPT ![w] = "ended"]
    BY <1>4 DEF QueueForDisposal, End
  <2>2. \A v \in Workers : v # w => worker'[v] = worker[v]
    BY <2>1 DEF WorkerType
  <2>3. worker'[w] = "queued" \/ worker'[w] = "ended"
    BY <2>1 DEF WorkerType
  <2> QED
    BY <2>1, <2>2, <2>3
<1>5. CASE ManagerJoins
  <2>1. /\ \A w \in target : worker[w] = "ended"
        /\ worker' = [w \in Workers |-> IF w \in target THEN "joined" ELSE worker[w]]
    BY <1>5 DEF ManagerJoins
  <2>2. \A w \in Workers : \/ worker'[w] = worker[w]
                           \/ worker[w] = "ended" /\ worker'[w] = "joined"
    BY <2>1
  <2> QED
    BY <2>2
<1> QED
  BY <1>2, <1>3, <1>4, <1>5 DEF Next, Work, Manage

-----------------------------------------------------------------------------
(* The termination flag.                                                   *)

\* During a cleanup the pool empties and stays empty, and the flag is reset before the
\* pool is opened again.
FlagInv ==
  /\ FlagCovered
  /\ owner = "polling" => is_cleaning_up
  /\ owner \in {"reset", "clean"} => is_cleaning_up /\ threads_map = {}
  /\ owner = "clean" => termination_flag = 0

LEMMA PoolFinite == threads_map \in SUBSET Workers
BY DEF threads_map, In

LEMMA FlagStep == TypeInv /\ FlagInv /\ [Next]_vars => FlagInv'
<1> SUFFICES ASSUME TypeInv, FlagInv, [Next]_vars PROVE FlagInv'
  OBVIOUS
<1> USE DEF FlagInv, FlagCovered, ownerVars
<1>1. CASE UNCHANGED <<threads_map, termination_flag, ownerVars>>
  BY <1>1
<1>2. CASE UNCHANGED <<termination_flag, ownerVars>> /\ UNCHANGED threads_map
  BY <1>1, <1>2
<1>3. WorkerType /\ termination_flag \in Nat /\ Cardinality(threads_map) \in Nat
      /\ IsFiniteSet(threads_map) /\ MaxFlag \in Nat
  BY PoolFinite, Counted, GroupTasks DEF TypeInv, OwnerType
<1>4. CASE Notify \/ QueueGroup
  <2>1. PICK n : \E S \in Woken(n) : Wake(S)
    BY <1>4 DEF Notify, QueueGroup, GroupWoken
  <2>2. threads_map' = threads_map
    BY <1>3, <2>1, Awakened
  <2> QED
    BY <1>2, <1>4, <2>2 DEF Notify, QueueGroup
<1>5. ASSUME NEW w \in Workers, WakeSpuriously(w) PROVE FlagInv'
  <2>1. {w} \subseteq Waiting /\ Wake({w})
    BY <1>5 DEF WakeSpuriously, Waiting, In
  <2>2. threads_map' = threads_map
    BY <1>3, <2>1, Waked
  <2> QED
    BY <1>2, <1>5, <2>2 DEF WakeSpuriously
<1>6. ASSUME NEW w \in Workers, Wait(w) PROVE FlagInv'
  <2>1. worker' = [worker EXCEPT ![w] = "waiting"] /\ w \in threads_map
    BY <1>6 DEF Wait, threads_map, In
  <2>2. threads_map' = threads_map
    <3>1. threads_map' = threads_map \cup {w}
      BY <1>3, <2>1, Moved
    <3> QED
      BY <2>1, <3>1
  <2> QED
    BY <1>2, <1>6, <2>2 DEF Wait
<1>7. ASSUME NEW w \in Workers, Allocate(w) PROVE FlagInv'
  <2>1. /\ worker' = [worker EXCEPT ![w] = "testing"] /\ w \notin threads_map /\ ~ is_cleaning_up
        /\ UNCHANGED <<termination_flag, ownerVars>>
    BY <1>7 DEF Allocate, threads_map, In
  <2>2. threads_map' = threads_map \cup {w}
    BY <1>3, <2>1, Moved
  <2>3. Cardinality(threads_map') = Cardinality(threads_map) + 1
    BY <1>3, <2>1, <2>2, FS_AddElement
  <2>4. Cardinality(threads_map)' = Cardinality(threads_map')
    OBVIOUS
  <2> QED
    BY <1>3, <2>1, <2>3
<1>8. ASSUME NEW w \in Workers, Leave(w) PROVE FlagInv'
  <2>1. /\ worker' = [worker EXCEPT ![w] = "leaving"] /\ w \in threads_map
        /\ termination_flag' = termination_flag - 1
        /\ UNCHANGED ownerVars
    BY <1>8 DEF Leave, threads_map, In
  <2>2. threads_map' = threads_map \ {w}
    BY <1>3, <2>1, Moved
  <2>3. Cardinality(threads_map') = Cardinality(threads_map) - 1
    BY <1>3, <2>1, <2>2, FS_RemoveElement
  <2> QED
    BY <1>3, <2>1, <2>3
<1>9. CASE TerminateWorker
  <2>1. PICK S \in Woken(1) : Wake(S)
    BY <1>9 DEF TerminateWorker
  <2>2. threads_map' = threads_map
    BY <1>3, <2>1, Awakened
  <2>3. /\ Cardinality(threads_map) > termination_flag
        /\ termination_flag' = (termination_flag + 1) % (MaxFlag + 1) /\ UNCHANGED ownerVars
    BY <1>9 DEF TerminateWorker, MayTerminate
  <2>4. termination_flag + 1 <= Cardinality(threads_map) /\ termination_flag \in 0 .. MaxFlag
    BY <1>3, <2>3 DEF TypeInv, OwnerType
  <2>5. termination_flag' <= termination_flag + 1 /\ termination_flag' \in Nat
    BY <1>3, <2>3, <2>4
  <2>6. termination_flag' <= Cardinality(threads_map)
    BY <1>3, <2>4, <2>5
  <2>7. threads_map # {}
    BY <1>3, <2>3, FS_EmptySet
  <2>8. owner # "clean" /\ owner # "reset"
    BY <2>7
  <2> QED
    BY <2>2, <2>3, <2>6, <2>8
<1>10. ASSUME NEW destroy \in BOOLEAN, TerminateAll(destroy) PROVE FlagInv'
  <2>1. owner = "alive"
    BY <1>10 DEF TerminateAll
  <2>2. CASE threads_map = {}
    <3>1. UNCHANGED <<worker, termination_flag, is_cleaning_up>> /\ owner' \in {"flush", "alive"}
      BY <1>10, <2>2 DEF TerminateAll
    <3>2. threads_map' = threads_map
      BY <3>1 DEF threads_map, In
    <3> QED
      BY <3>1, <3>2
  <2>3. CASE threads_map # {}
    BY <1>10, <2>3 DEF TerminateAll
  <2> QED
    BY <2>2, <2>3
<1>11. CASE UNCHANGED threads_map
  <2>1. CASE \/ \E t \in Tasks : QueueTask(t)
             \/ Manage \/ UNCHANGED vars
             \/ \E w \in Workers : Pop(w) \/ Finish(w) \/ QueueForDisposal(w) \/ End(w)
    <3>1. UNCHANGED <<termination_flag, ownerVars>>
      BY <2>1 DEF QueueTask, Manage, ManagerTest, ManagerSleep, ManagerJoins, vars, poolVars,
                  Pop, Finish, QueueForDisposal, End
    <3> QED
      BY <1>2, <1>11, <3>1
  <2>2. CASE PolledEmpty
    BY <1>11, <2>2 DEF PolledEmpty, poolVars
  <2>3. CASE ResetFlag
    BY <1>3, <1>11, <2>3 DEF ResetFlag, FlagAfter
  <2>4. CASE EndCleanup
    <3>1. /\ owner = "clean" /\ owner' \in {"flush", "alive"}
          /\ termination_flag' = termination_flag
      BY <2>4 DEF EndCleanup, poolVars
    <3> QED
      BY <1>3, <1>11, <3>1
  <2>5. CASE Flushed \/ TerminateManager \/ NotifyManager \/ JoinManager
    <3>1. /\ owner' \in {"terminate", "notify", "join", "gone"}
          /\ UNCHANGED <<termination_flag, is_cleaning_up>>
      BY <2>5 DEF Flushed, TerminateManager, NotifyManager, JoinManager, poolVars
    <3> QED
      BY <1>11, <3>1
  <2> QED
    BY <1>4, <1>5, <1>6, <1>7, <1>8, <1>9, <1>10, <2>1, <2>2, <2>3, <2>4, <2>5
       DEF Next, Work, OwnerStep
<1> QED
  BY <1>3, <1>4, <1>5, <1>6, <1>7, <1>8, <1>9, <1>10, <1>11, Moves

THEOREM FlagInvariant == Spec => []FlagInv
<1>1. Init => FlagInv
  <2> SUFFICES ASSUME Init PROVE FlagInv
    OBVIOUS
  <2>1. threads_map = {}
    BY DEF Init, threads_map, In
  <2> QED
    BY <2>1, FS_EmptySet DEF Init, FlagInv, FlagCovered
<1> QED
  BY <1>1, FlagStep, TypeInvariant, PTL DEF Spec

\* Outside a cleanup no more workers are told to terminate than there are.
THEOREM FlagIsCovered == Spec => []FlagCovered
  BY FlagInvariant, PTL DEF FlagInv

-----------------------------------------------------------------------------
(* Notifications.                                                          *)

\* While somebody sleeps, whoever is awake and what is about to be notified suffice
\* for the tasks and the terminations that wait.
WakeInv ==
  Waiting # {} => Len(task_queue) + termination_flag <= notifying + Cardinality(Active)

LEMMA Disjoint ==
  ASSUME NEW S, S \subseteq Waiting
  PROVE  /\ IsFiniteSet(Active) /\ Cardinality(Active) \in Nat
         /\ IsFiniteSet(S) /\ Cardinality(S) \in Nat
         /\ Cardinality(Active \cup S) = Cardinality(Active) + Cardinality(S)
<1>1. Active \in SUBSET Workers /\ S \in SUBSET Workers /\ Active \cap S = {}
  BY DEF Active, Waiting, In
<1>2. IsFiniteSet(Active) /\ Cardinality(Active) \in Nat /\ IsFiniteSet(S) /\ Cardinality(S) \in Nat
  BY <1>1, Counted
<1>3. Cardinality(Active \cup S) = Cardinality(Active) + Cardinality(S) - Cardinality({})
  BY <1>1, <1>2, FS_Union
<1> QED
  BY <1>2, <1>3, FS_EmptySet

LEMMA WakeStep == QueueInv /\ TypeInv /\ WakeInv /\ [Next]_vars => WakeInv'
<1> SUFFICES ASSUME QueueInv, TypeInv, WakeInv, [Next]_vars, Waiting' # {}
             PROVE  Len(task_queue') + termination_flag' <= notifying' + Cardinality(Active')
  BY DEF WakeInv
<1>1. /\ WorkerType /\ termination_flag \in 0 .. MaxFlag /\ termination_flag \in Nat
      /\ notifying \in Nat /\ task_queue \in Seq(Tasks) /\ Len(task_queue) \in Nat
      /\ MaxFlag \in Nat
  BY GroupTasks DEF TypeInv, OwnerType, QueueInv
<1>2. IsFiniteSet(Active) /\ Cardinality(Active) \in Nat
  BY Disjoint
<1>3. ASSUME NEW n, NEW S \in Woken(n), Wake(S)
      PROVE  /\ Waiting # {} /\ Cardinality(S) = n /\ n \in Nat
             /\ Cardinality(Active') = Cardinality(Active) + n
  <2>1. /\ Active' = Active \cup S /\ Waiting' = Waiting \ S
        /\ Cardinality(S) = n /\ S \subseteq Waiting
    BY <1>1, <1>3, Awakened
  <2> QED
    BY <2>1, Disjoint
<1>4. CASE Notify
  <2>1. PICK S \in Woken(1) : Wake(S)
    BY <1>4 DEF Notify
  <2>2. Waiting # {} /\ Cardinality(Active') = Cardinality(Active) + 1
    BY <1>3, <2>1
  <2>3. notifying' = notifying - 1 /\ UNCHANGED <<task_queue, termination_flag>>
    BY <1>4 DEF Notify
  <2> QED
    BY <1>1, <1>2, <2>2, <2>3 DEF WakeInv
<1>5. CASE QueueGroup
  <2>1. PICK S \in Woken(Len(Group)) : Wake(S)
    BY <1>5 DEF QueueGroup, GroupWoken
  <2>2. /\ Waiting # {} /\ Len(Group) \in Nat
        /\ Cardinality(Active') = Cardinality(Active) + Len(Group)
    BY <1>3, <2>1
  <2>3. task_queue' = push_all[<<task_queue, Group>>] /\ UNCHANGED <<notifying, termination_flag>>
    BY <1>5 DEF QueueGroup
  <2>4. Len(task_queue') = Len(task_queue) + Len(Group)
    BY <1>1, <2>3, PushAllIs, GroupTasks DEF Pushes
  <2> QED
    BY <1>1, <1>2, <2>2, <2>3, <2>4 DEF WakeInv
<1>6. CASE TerminateWorker
  <2>1. PICK S \in Woken(1) : Wake(S)
    BY <1>6 DEF TerminateWorker
  <2>2. Waiting # {} /\ Cardinality(Active') = Cardinality(Active) + 1
    BY <1>3, <2>1
  <2>3. /\ termination_flag' = (termination_flag + 1) % (MaxFlag + 1)
        /\ UNCHANGED <<task_queue, notifying>>
    BY <1>6 DEF TerminateWorker
  <2>4. termination_flag' <= termination_flag + 1 /\ termination_flag' \in Nat
    BY <1>1, <2>3
  <2> QED
    BY <1>1, <1>2, <2>2, <2>3, <2>4 DEF WakeInv
<1>7. ASSUME NEW t \in Tasks, QueueTask(t)
      PROVE  Len(task_queue') + termination_flag' <= notifying' + Cardinality(Active')
  <2>1. /\ task_queue' = Pushed(task_queue, t) /\ notifying' = notifying + 1
        /\ UNCHANGED <<worker, termination_flag>>
    BY <1>7 DEF QueueTask
  <2>2. Len(task_queue') = Len(task_queue) + 1
    BY <1>1, <2>1, PushIs
  <2>3. Waiting' = Waiting /\ Active' = Active
    BY <2>1 DEF Waiting, Active, In
  <2> QED
    BY <1>1, <1>2, <2>1, <2>2, <2>3 DEF WakeInv
<1>8. ASSUME NEW destroy \in BOOLEAN, TerminateAll(destroy)
      PROVE  Len(task_queue') + termination_flag' <= notifying' + Cardinality(Active')
  <2>1. CASE threads_map = {}
    <3>1. UNCHANGED <<worker, termination_flag, task_queue, notifying>>
      BY <1>8, <2>1 DEF TerminateAll
    <3>2. Waiting' = Waiting /\ Active' = Active
      BY <3>1 DEF Waiting, Active, In
    <3> QED
      BY <3>1, <3>2 DEF WakeInv
  <2>2. CASE threads_map # {}
    <3>1. PICK S \in Woken(Cardinality(Workers)) : Wake(S)
      BY <1>8, <2>2 DEF TerminateAll, AllWoken
    <3>2. /\ Waiting' = Waiting \ S /\ S \subseteq Waiting /\ S \subseteq Workers
          /\ Cardinality(S) = Cardinality(Workers)
      BY <1>1, <3>1, Awakened
    <3>3. S = Workers
      BY <3>2, GroupTasks, FS_Subset
    <3>4. Waiting' = {}
      BY <3>2, <3>3 DEF Waiting, In
    <3> QED
      BY <3>4
  <2> QED
    BY <2>1, <2>2
<1>9. ASSUME NEW w \in Workers, Wait(w)
      PROVE  Len(task_queue') + termination_flag' <= notifying' + Cardinality(Active')
  <2>1. /\ Len(task_queue') = 0 /\ termination_flag' = 0 /\ notifying' = notifying
    BY <1>1, <1>9 DEF Wait, Told
  <2>2. Active' \in SUBSET Workers
    BY DEF Active, In
  <2>3. Cardinality(Active') \in Nat
    BY <2>2, Counted
  <2> QED
    BY <1>1, <2>1, <2>3
<1>10. ASSUME NEW w \in Workers, Allocate(w)
      PROVE  Len(task_queue') + termination_flag' <= notifying' + Cardinality(Active')
  <2>1. /\ worker' = [worker EXCEPT ![w] = "testing"] /\ w \notin Active /\ w \notin Waiting
        /\ UNCHANGED <<task_queue, termination_flag, notifying>>
    BY <1>10 DEF Allocate, Active, Waiting, In
  <2>2. Active' = Active \cup {w} /\ Waiting' = Waiting
    <3>1. Active' = Active \cup {w} /\ Waiting' = Waiting \ {w}
      BY <1>1, <2>1, Moved
    <3> QED
      BY <2>1, <3>1
  <2>3. Cardinality(Active') = Cardinality(Active) + 1
    BY <1>2, <2>1, <2>2, FS_AddElement
  <2> QED
    BY <1>1, <1>2, <2>1, <2>2, <2>3 DEF WakeInv
<1>11. ASSUME NEW w \in Workers, Leave(w)
      PROVE  Len(task_queue') + termination_flag' <= notifying' + Cardinality(Active')
  <2>1. /\ worker' = [worker EXCEPT ![w] = "leaving"] /\ w \in Active /\ w \notin Waiting
        /\ termination_flag' = termination_flag - 1
        /\ UNCHANGED <<task_queue, notifying>>
    BY <1>11 DEF Leave, Active, Waiting, In
  <2>2. Active' = Active \ {w} /\ Waiting' = Waiting
    <3>1. "leaving" \notin {"testing", "busy"} /\ "leaving" \notin {"waiting"}
      OBVIOUS
    <3>2. Active' = Active \ {w}
      BY <1>1, <2>1, <3>1, Moved
    <3>3. Waiting' = Waiting \ {w}
      BY <1>1, <2>1, <3>1, Moved
    <3> QED
      BY <2>1, <3>2, <3>3
  <2>3. Cardinality(Active') = Cardinality(Active) - 1
    BY <1>2, <2>1, <2>2, FS_RemoveElement
  <2> QED
    BY <1>1, <1>2, <2>1, <2>2, <2>3 DEF WakeInv
<1>12. ASSUME NEW w \in Workers, WakeSpuriously(w)
      PROVE  Len(task_queue') + termination_flag' <= notifying' + Cardinality(Active')
  <2>1. {w} \subseteq Waiting /\ Wake({w}) /\ UNCHANGED <<task_queue, termination_flag, notifying>>
    BY <1>12 DEF WakeSpuriously, Waiting, In
  <2>2. Active' = Active \cup {w} /\ Waiting # {}
    BY <1>1, <2>1, Waked
  <2>3. Cardinality(Active') = Cardinality(Active) + 1
    BY <2>1, <2>2, Disjoint, FS_Singleton
  <2> QED
    BY <1>1, <1>2, <2>1, <2>2, <2>3 DEF WakeInv
<1>13. CASE UNCHANGED <<threads_map, Active, Waiting>>
  <2>1. Waiting # {} /\ Cardinality(Active') = Cardinality(Active)
    BY <1>13
  <2>2. CASE \E w \in Workers : Pop(w)
    <3>1. task_queue # <<>> /\ task_queue' = Popped(task_queue)
          /\ UNCHANGED <<termination_flag, notifying>>
      BY <2>2 DEF Pop
    <3>2. Len(task_queue') = Len(task_queue) - 1
      BY <3>1, PopIs DEF QueueInv
    <3> QED
      BY <1>1, <1>2, <2>1, <3>1, <3>2 DEF WakeInv
  <2>3. CASE ResetFlag
    <3>1. termination_flag' = 0 /\ UNCHANGED <<task_queue, notifying>>
      BY <2>3 DEF ResetFlag, FlagAfter
    <3> QED
      BY <1>1, <1>2, <2>1, <3>1 DEF WakeInv
  <2>4. CASE \/ Manage \/ UNCHANGED vars
             \/ \E w \in Workers : Finish(w) \/ QueueForDisposal(w) \/ End(w)
             \/ PolledEmpty \/ EndCleanup \/ Flushed
             \/ TerminateManager \/ NotifyManager \/ JoinManager
    <3>1. UNCHANGED <<task_queue, termination_flag, notifying>>
      BY <2>4 DEF Manage, ManagerTest, ManagerSleep, ManagerJoins, vars, poolVars, Finish,
                  QueueForDisposal, End, PolledEmpty, EndCleanup, Flushed, TerminateManager,
                  NotifyManager, JoinManager
    <3> QED
      BY <2>1, <3>1 DEF WakeInv
  <2> QED
    BY <1>4, <1>5, <1>6, <1>7, <1>8, <1>9, <1>10, <1>11, <1>12, <2>2, <2>3, <2>4
       DEF Next, Work, OwnerStep
<1> QED
  BY <1>1, <1>4, <1>5, <1>6, <1>8, <1>9, <1>10, <1>11, <1>12, <1>13, Moves

THEOREM WakeInvariant == Spec => []WakeInv
<1>1. Init => WakeInv
  BY DEF Init, WakeInv, Waiting, In
<1> QED
  BY <1>1, WakeStep, QueueInvariant, TypeInvariant, PTL DEF Spec

\* Nobody sleeps through work or a termination without a notification on its way.
THEOREM SomebodyIsWoken == Spec => []SomebodyWakes
<1>1. QueueInv /\ TypeInv /\ WakeInv => SomebodyWakes
  <2> SUFFICES ASSUME QueueInv, TypeInv, WakeInv, threads_map # {},
                      In({"testing", "busy", "leaving", "queued"}) = {},
                      task_queue # <<>> \/ termination_flag > 0
               PROVE  notifying > 0
    BY DEF SomebodyWakes
  <2>1. Waiting # {} /\ Active = {}
    BY DEF threads_map, Waiting, Active, In
  <2>2. /\ termination_flag \in Nat /\ notifying \in Nat /\ Len(task_queue) \in Nat
        /\ task_queue # <<>> => Len(task_queue) # 0
    BY GroupTasks, EmptySeq DEF TypeInv, OwnerType, QueueInv
  <2> QED
    BY <2>1, <2>2, FS_EmptySet DEF WakeInv
<1> QED
  BY <1>1, QueueInvariant, TypeInvariant, WakeInvariant, PTL

-----------------------------------------------------------------------------
(* The last worker.                                                        *)

Passed == owner \in {"terminate", "notify", "join", "gone"}
Gone == owner \in {"flush", "terminate", "notify", "join", "gone"}

\* One worker at a time is on its way out, with the mutex; whoever is out and not joined is
\* known to the manager; and once the owner has seen no targets, at most the one
\* on its way is still to come.
HandOver ==
  /\ \A v, w \in In({"leaving", "queued"}) : v = w
  /\ In({"queued", "ended"}) \subseteq ToSet(targets) \cup target
  /\ target # {} => manager = "joining"
  /\ Gone => destroying /\ threads_map = {}
  /\ Passed => \A v, w \in In({"leaving"}) \cup ToSet(targets) : v = w
  /\ owner = "gone" => manager = "returned"

LEMMA TargetsAre ==
  ASSUME NEW s \in Seq(Workers), NEW w \in Workers
  PROVE  /\ ToSet(Append(s, w)) = ToSet(s) \cup {w}
         /\ s # <<>> => Head(s) \in Workers /\ ToSet(s) = ToSet(Tail(s)) \cup {Head(s)}
<1> DEFINE n == Len(s)
<1>1. n \in Nat /\ DOMAIN s = 1 .. n
  OBVIOUS
<1>2. ToSet(Append(s, w)) = ToSet(s) \cup {w}
  <2> DEFINE a == Append(s, w)
  <2>1. DOMAIN a = 1 .. n + 1 /\ a[n + 1] = w /\ \A k \in 1 .. n : a[k] = s[k]
    OBVIOUS
  <2> HIDE DEF a
  <2>2. ASSUME NEW x \in ToSet(a) PROVE x \in ToSet(s) \cup {w}
    <3>1. PICK k \in 1 .. n + 1 : x = a[k]
      BY <2>1, <2>2 DEF ToSet
    <3>2. k = n + 1 \/ k \in 1 .. n
      BY <1>1
    <3> QED
      BY <1>1, <2>1, <3>1, <3>2 DEF ToSet
  <2>3. ASSUME NEW x \in ToSet(s) PROVE x \in ToSet(a)
    <3>1. PICK k \in 1 .. n : x = s[k]
      BY <1>1, <2>3 DEF ToSet
    <3>2. k \in 1 .. n + 1 /\ x = a[k]
      BY <1>1, <2>1, <3>1
    <3> QED
      BY <2>1, <3>2 DEF ToSet
  <2>4. w \in ToSet(a)
    <3>1. n + 1 \in DOMAIN a
      BY <1>1, <2>1
    <3> QED
      BY <2>1, <3>1 DEF ToSet
  <2> QED
    BY <2>2, <2>3, <2>4 DEF a
<1>3. ASSUME s # <<>> PROVE Head(s) \in Workers /\ ToSet(s) = ToSet(Tail(s)) \cup {Head(s)}
  <2> DEFINE t == Tail(s)
             m == n - 1
  <2>1. /\ Head(s) \in Workers /\ Head(s) = s[1] /\ DOMAIN t = 1 .. m /\ n > 0
        /\ \A k \in 1 .. m : t[k] = s[k + 1]
    <3>1. n > 0
      BY <1>1, <1>3, EmptySeq
    <3> QED
      BY <1>1, <1>3, <3>1, HeadTailProperties
  <2> HIDE DEF t
  <2>2. ASSUME NEW x \in ToSet(s) PROVE x \in ToSet(t) \cup {Head(s)}
    <3>1. PICK k \in 1 .. n : x = s[k]
      BY <1>1, <2>2 DEF ToSet
    <3>2. k = 1 \/ (k - 1 \in 1 .. m /\ t[k - 1] = s[k])
      BY <1>1, <2>1
    <3>3. CASE k = 1
      BY <2>1, <3>1, <3>3
    <3>4. CASE k - 1 \in 1 .. m /\ t[k - 1] = s[k]
      BY <2>1, <3>1, <3>4 DEF ToSet
    <3> QED
      BY <3>2, <3>3, <3>4
  <2>3. ASSUME NEW x \in ToSet(t) PROVE x \in ToSet(s)
    <3>1. PICK k \in 1 .. m : x = t[k]
      BY <2>1, <2>3 DEF ToSet
    <3>2. k + 1 \in 1 .. n /\ x = s[k + 1]
      BY <1>1, <2>1, <3>1
    <3> QED
      BY <1>1, <3>2 DEF ToSet
  <2>4. Head(s) \in ToSet(s)
    <3>1. 1 \in 1 .. n
      BY <1>1, <2>1
    <3> QED
      BY <1>1, <2>1, <3>1 DEF ToSet
  <2> QED
    BY <2>1, <2>2, <2>3, <2>4 DEF t
<1> QED
  BY <1>2, <1>3

\* The owner moves nobody out, and the workers it wakes are not on their way.
LEMMA OwnerMovesNobody ==
  ASSUME WorkerType, OwnerStep \/ \E destroy \in BOOLEAN : TerminateAll(destroy)
  PROVE  UNCHANGED <<In({"leaving"}), In({"leaving", "queued"}), In({"queued", "ended"})>>
<1> USE DEF In
<1>1. CASE UNCHANGED worker
  BY <1>1
<1>2. ASSUME NEW S, S \subseteq Waiting, Wake(S)
      PROVE  UNCHANGED <<In({"leaving"}), In({"leaving", "queued"}), In({"queued", "ended"})>>
  BY <1>2 DEF Wake, Waiting
<1>3. ASSUME NEW destroy \in BOOLEAN, TerminateAll(destroy)
      PROVE  UNCHANGED <<In({"leaving"}), In({"leaving", "queued"}), In({"queued", "ended"})>>
  <2>1. UNCHANGED worker \/ \E S \in Woken(Cardinality(Workers)) : Wake(S)
    BY <1>3 DEF TerminateAll, AllWoken
  <2>2. \A S \in Woken(Cardinality(Workers)) : S \subseteq Waiting
    BY DEF Woken, Waiting
  <2> QED
    BY <1>1, <1>2, <2>1, <2>2
<1>4. CASE OwnerStep
  BY <1>1, <1>4 DEF OwnerStep, PolledEmpty, ResetFlag, EndCleanup, Flushed, TerminateManager,
       NotifyManager, JoinManager, poolVars
<1> QED
  BY <1>3, <1>4

\* Where a worker that is on its way out, or out, may come from.
LEMMA Outs ==
  ASSUME WorkerType, [Next]_vars
  PROVE  \/ \E w \in Workers : Leave(w) \/ QueueForDisposal(w) \/ End(w)
         \/ ManagerJoins
         \/ UNCHANGED <<In({"leaving"}), In({"leaving", "queued"}), In({"queued", "ended"})>>
<1> USE DEF In
<1>1. CASE UNCHANGED worker
  BY <1>1
<1>2. ASSUME NEW S, S \subseteq Waiting, Wake(S)
      PROVE  UNCHANGED <<In({"leaving"}), In({"leaving", "queued"}), In({"queued", "ended"})>>
  BY <1>2 DEF Wake, Waiting
<1>3. CASE Notify \/ QueueGroup \/ TerminateWorker
  <2>1. PICK n : \E S \in Woken(n) : Wake(S)
    BY <1>3 DEF Notify, QueueGroup, GroupWoken, TerminateWorker
  <2>2. PICK S \in Woken(n) : Wake(S)
    BY <2>1
  <2>3. S \subseteq Waiting
    BY DEF Woken, Waiting
  <2> QED
    BY <1>2, <2>2, <2>3
<1>4. CASE \E w \in Workers : WakeSpuriously(w)
  <2>1. PICK w \in Workers : worker[w] = "waiting" /\ Wake({w})
    BY <1>4 DEF WakeSpuriously
  <2> QED
    BY <1>2, <2>1 DEF Waiting
<1>5. CASE OwnerStep \/ \E destroy \in BOOLEAN : TerminateAll(destroy)
  BY <1>5, OwnerMovesNobody
<1>6. ASSUME NEW w \in Workers, Allocate(w) \/ Wait(w) \/ Pop(w) \/ Finish(w)
      PROVE  UNCHANGED <<In({"leaving"}), In({"leaving", "queued"}), In({"queued", "ended"})>>
  <2>1. /\ worker[w] \in {"unused", "testing", "busy"}
        /\ \E s \in {"testing", "waiting", "busy"} : worker' = [worker EXCEPT ![w] = s]
    BY <1>6 DEF Allocate, Wait, Pop, Finish
  <2>2. /\ worker'[w] \in {"testing", "waiting", "busy"}
        /\ \A v \in Workers : v # w => worker'[v] = worker[v]
    BY <2>1 DEF WorkerType
  <2> QED
    BY <2>1, <2>2
<1>7. CASE (\E t \in Tasks : QueueTask(t)) \/ ManagerTest \/ ManagerSleep \/ UNCHANGED vars
  BY <1>1, <1>7 DEF QueueTask, ManagerTest, ManagerSleep, vars, poolVars
<1> QED
  BY <1>3, <1>4, <1>5, <1>6, <1>7 DEF Next, Work, Manage

\* Nobody comes to a pool that is being destroyed.
LEMMA NobodyComes ==
  ASSUME WorkerType, [Next]_vars, destroying, threads_map = {}
  PROVE  threads_map' = {}
<1>1. CASE Notify \/ QueueGroup \/ TerminateWorker
  <2>1. PICK n : \E S \in Woken(n) : Wake(S)
    BY <1>1 DEF Notify, QueueGroup, GroupWoken, TerminateWorker
  <2> QED
    BY <2>1, Awakened
<1>2. ASSUME NEW destroy \in BOOLEAN, TerminateAll(destroy) PROVE threads_map' = {}
  <2>1. UNCHANGED worker
    BY <1>2 DEF TerminateAll
  <2> QED
    BY <2>1 DEF threads_map, In
<1>3. ASSUME NEW w \in Workers, Wait(w) \/ Leave(w) \/ WakeSpuriously(w) PROVE FALSE
  BY <1>3 DEF Wait, Leave, WakeSpuriously, threads_map, In
<1>4. ASSUME NEW w \in Workers, Allocate(w) PROVE FALSE
  BY <1>4 DEF Allocate
<1> QED
  BY <1>1, <1>2, <1>3, <1>4, Moves

LEMMA HandOverStep == TypeInv /\ FlagInv /\ HandOver /\ [Next]_vars => HandOver'
<1> SUFFICES ASSUME TypeInv, FlagInv, HandOver, [Next]_vars PROVE HandOver'
  OBVIOUS
<1> DEFINE L == In({"leaving"})
           LQ == In({"leaving", "queued"})
           QE == In({"queued", "ended"})
<1>1. WorkerType /\ ManagerType /\ targets \in Seq(Workers)
  BY DEF TypeInv, ManagerType
<1>2. CASE UNCHANGED <<owner, destroying>>
  <2> USE <1>2
  <2>1. (Gone => destroying /\ threads_map = {})'
    BY <1>1, NobodyComes DEF HandOver, Gone
  <2>2. ASSUME NEW w \in Workers, Leave(w) PROVE HandOver'
    <3>1. ~ Gone
      BY <2>2 DEF HandOver, Leave, threads_map, In
    <3>2. ~ Gone' /\ ~ Passed' /\ owner' # "gone"
      BY <3>1 DEF Gone, Passed
    <3>3. /\ LQ = {} /\ worker' = [worker EXCEPT ![w] = "leaving"] /\ worker[w] = "testing"
          /\ UNCHANGED managerVars
      BY <2>2 DEF Leave, MutexFree
    <3>4. \A v \in LQ' : v = w
      BY <1>1, <3>3 DEF WorkerType, In
    <3>5. QE' = QE
      BY <1>1, <3>3 DEF WorkerType, In
    <3> QED
      BY <3>2, <3>3, <3>4, <3>5 DEF HandOver, managerVars
  <2>3. ASSUME NEW w \in Workers, QueueForDisposal(w) PROVE HandOver'
    <3>1. /\ worker' = [worker EXCEPT ![w] = "queued"] /\ worker[w] = "leaving"
          /\ targets' = Append(targets, w) /\ target' = target
          /\ manager' = WokenManager
      BY <2>3 DEF QueueForDisposal
    <3>2. LQ' = LQ /\ QE' \subseteq QE \cup {w} /\ w \in L /\ L' \subseteq L
      BY <1>1, <3>1 DEF WorkerType, In
    <3>3. ToSet(targets') = ToSet(targets) \cup {w}
      BY <1>1, <3>1, TargetsAre
    <3>4. /\ manager = "joining" => manager' = "joining"
          /\ manager = "returned" => manager' = "returned"
      BY <3>1 DEF WokenManager
    <3>5. Passed' = Passed
      BY DEF Passed
    <3> HIDE DEF L, LQ, QE
    <3>6. Passed => \A u, v \in L' \cup ToSet(targets') : u = v
      <4>1. Passed => \A u, v \in L \cup ToSet(targets) : u = v
        BY DEF HandOver, L
      <4>2. L' \cup ToSet(targets') \subseteq L \cup ToSet(targets)
        BY <3>2, <3>3
      <4> QED
        BY <4>1, <4>2
    <3>7. (\A v, u \in LQ' : v = u) /\ QE' \subseteq ToSet(targets') \cup target'
      BY <3>1, <3>2, <3>3 DEF HandOver, LQ, QE
    <3> QED
      BY <2>1, <3>1, <3>4, <3>5, <3>6, <3>7 DEF HandOver, L, LQ, QE
  <2>4. ASSUME NEW w \in Workers, End(w) PROVE HandOver'
    <3>1. worker' = [worker EXCEPT ![w] = "ended"] /\ worker[w] = "queued" /\ UNCHANGED managerVars
      BY <2>4 DEF End
    <3>2. LQ' \subseteq LQ /\ QE' = QE /\ L' = L
      BY <1>1, <3>1 DEF WorkerType, In
    <3>3. Passed' = Passed
      BY DEF Passed
    <3> QED
      BY <2>1, <3>1, <3>2, <3>3 DEF HandOver, managerVars
  <2>5. CASE ManagerJoins
    <3>1. /\ \A w \in target : worker[w] = "ended"
          /\ worker' = [w \in Workers |-> IF w \in target THEN "joined" ELSE worker[w]]
          /\ target' = {} /\ targets' = targets /\ manager = "joining"
      BY <2>5 DEF ManagerJoins
    <3>2. LQ' = LQ /\ QE' \subseteq QE \ target /\ L' = L
      BY <1>1, <3>1 DEF WorkerType, In
    <3>3. Passed' = Passed
      BY DEF Passed
    <3> QED
      BY <2>1, <3>1, <3>2, <3>3 DEF HandOver
  <2>6. CASE UNCHANGED <<L, LQ, QE>>
    <3> HIDE DEF L, LQ, QE
    <3>1. Passed' = Passed
      BY DEF Passed
    <3>2. CASE UNCHANGED managerVars
      BY <2>1, <2>6, <3>1, <3>2 DEF HandOver, managerVars, L, LQ, QE
    <3>3. CASE ManagerSleep
      <4>1. UNCHANGED <<targets, target>> /\ manager = "falling"
        BY <3>3 DEF ManagerSleep
      <4> QED
        BY <2>1, <2>6, <3>1, <4>1 DEF HandOver, L, LQ, QE
    <3>4. CASE ManagerTest
      <4>1. manager = "testing" /\ target = {}
        BY <3>4 DEF ManagerTest, HandOver
      <4>2. CASE UNCHANGED <<targets, target>>
        BY <2>1, <2>6, <3>1, <4>1, <4>2 DEF HandOver, L, LQ, QE
      <4>3. CASE targets # <<>> /\ manager' = "joining" /\ target' = {Head(targets)}
                 /\ targets' = Tail(targets)
        <5>1. /\ Head(targets) \in Workers
              /\ ToSet(targets) = ToSet(targets') \cup {Head(targets)}
          <6>1. Head(targets) \in Workers
            BY <1>1, <4>3, HeadTailProperties
          <6>2. ToSet(targets) = ToSet(Tail(targets)) \cup {Head(targets)}
            BY <1>1, <4>3, <6>1, TargetsAre
          <6> QED
            BY <4>3, <6>1, <6>2
        <5>2. Passed' => \A u, v \in L' \cup ToSet(targets') : u = v
          BY <2>6, <3>1, <5>1 DEF HandOver, L
        <5>3. owner # "gone"
          BY <4>1 DEF HandOver
        <5> QED
          BY <2>1, <2>6, <4>1, <4>3, <5>1, <5>2, <5>3 DEF HandOver, L, LQ, QE
      <4> QED
        BY <3>4, <4>2, <4>3 DEF ManagerTest
    <3>5. CASE \/ \E t \in Tasks : QueueTask(t)
               \/ Notify \/ QueueGroup \/ TerminateWorker \/ UNCHANGED vars
               \/ \E w \in Workers : \/ Allocate(w) \/ Wait(w) \/ Pop(w) \/ Finish(w)
                                      \/ WakeSpuriously(w)
               \/ \E destroy \in BOOLEAN : TerminateAll(destroy)
      BY <3>2, <3>5 DEF QueueTask, Notify, QueueGroup, TerminateWorker, vars, Allocate, Wait, Pop,
                        Finish, WakeSpuriously, TerminateAll
    <3>6. ~ OwnerStep
      BY DEF OwnerStep, PolledEmpty, ResetFlag, EndCleanup, Flushed, TerminateManager,
             NotifyManager, JoinManager
    <3> QED
      BY <2>2, <2>3, <2>4, <2>5, <3>3, <3>4, <3>5, <3>6 DEF Next, Work, Manage
  <2> QED
    BY <1>1, <2>2, <2>3, <2>4, <2>5, <2>6, Outs
<1>3. CASE OwnerStep \/ \E destroy \in BOOLEAN : TerminateAll(destroy)
  <2>1. UNCHANGED <<L, LQ, QE>>
    BY <1>1, <1>3, OwnerMovesNobody
  <2>2. UNCHANGED <<targets, target>>
    BY <1>3 DEF OwnerStep, PolledEmpty, ResetFlag, EndCleanup, Flushed, TerminateManager,
                NotifyManager, JoinManager, TerminateAll, managerVars
  <2> HIDE DEF L, LQ, QE
  <2>3. CASE NotifyManager
    <3>1. /\ owner = "notify" /\ owner' = "join" /\ UNCHANGED <<worker, destroying>>
          /\ manager = "joining" => manager' = "joining"
      BY <2>3 DEF NotifyManager, WokenManager, poolVars
    <3>2. threads_map' = threads_map
      BY <3>1 DEF threads_map, In
    <3> QED
      BY <2>1, <2>2, <3>1, <3>2 DEF HandOver, Gone, Passed, L, LQ, QE
  <2>4. CASE JoinManager
    <3>1. /\ owner = "join" /\ owner' = "gone" /\ manager = "returned"
          /\ UNCHANGED <<worker, destroying, manager>>
      BY <2>4 DEF JoinManager, poolVars, managerVars
    <3>2. threads_map' = threads_map
      BY <3>1 DEF threads_map, In
    <3> QED
      BY <2>1, <2>2, <3>1, <3>2 DEF HandOver, Gone, Passed, L, LQ, QE
  <2>5. CASE TerminateManager
    <3>1. /\ owner = "terminate" /\ owner' = "notify" /\ UNCHANGED <<worker, destroying, manager>>
      BY <2>5 DEF TerminateManager, poolVars, managerVars
    <3>2. threads_map' = threads_map
      BY <3>1 DEF threads_map, In
    <3> QED
      BY <2>1, <2>2, <3>1, <3>2 DEF HandOver, Gone, Passed, L, LQ, QE
  <2>6. CASE Flushed
    <3>1. /\ owner = "flush" /\ owner' = "terminate" /\ targets = <<>>
          /\ UNCHANGED <<worker, destroying, manager>>
      BY <2>6 DEF Flushed, NoneLeft, poolVars, managerVars
    <3>2. threads_map' = threads_map
      BY <3>1 DEF threads_map, In
    <3>3. ToSet(targets) = {} /\ L \subseteq LQ
      BY <3>1 DEF ToSet, L, LQ, In
    <3>4. \A v, w \in L' \cup ToSet(targets') : v = w
      BY <2>1, <2>2, <3>3 DEF HandOver, LQ
    <3> QED
      BY <2>1, <2>2, <3>1, <3>2, <3>4 DEF HandOver, Gone, Passed, L, LQ, QE
  <2>7. CASE EndCleanup
    <3>1. /\ owner = "clean" /\ owner' = (IF destroying THEN "flush" ELSE "alive")
          /\ UNCHANGED <<worker, destroying, manager>>
      BY <2>7 DEF EndCleanup, poolVars, managerVars
    <3>2. threads_map' = {}
      BY <3>1 DEF FlagInv, threads_map, In
    <3> QED
      BY <2>1, <2>2, <3>1, <3>2 DEF HandOver, Gone, Passed, L, LQ, QE
  <2>8. CASE PolledEmpty \/ ResetFlag
    <3>1. owner' \in {"reset", "clean"} /\ manager' = manager
      BY <2>8 DEF PolledEmpty, ResetFlag, managerVars
    <3> QED
      BY <2>1, <2>2, <3>1 DEF HandOver, Gone, Passed, L, LQ, QE
  <2>9. ASSUME NEW destroy \in BOOLEAN, TerminateAll(destroy) PROVE HandOver'
    <3>1. manager' = manager /\ destroying' = destroy
      BY <2>9 DEF TerminateAll, managerVars
    <3>2. CASE threads_map # {}
      <4>1. owner' = "polling"
        BY <2>9, <3>2 DEF TerminateAll
      <4> QED
        BY <2>1, <2>2, <3>1, <4>1 DEF HandOver, Gone, Passed, L, LQ, QE
    <3>3. CASE threads_map = {}
      <4>1. owner' = (IF destroy THEN "flush" ELSE "alive") /\ UNCHANGED worker
        BY <2>9, <3>3 DEF TerminateAll
      <4>2. threads_map' = {}
        BY <3>3, <4>1 DEF threads_map, In
      <4> QED
        BY <2>1, <2>2, <3>1, <4>1, <4>2 DEF HandOver, Gone, Passed, L, LQ, QE
    <3> QED
      BY <3>2, <3>3
  <2> QED
    BY <1>3, <2>3, <2>4, <2>5, <2>6, <2>7, <2>8, <2>9 DEF OwnerStep
<1>4. CASE \/ \E t \in Tasks : QueueTask(t)
           \/ Notify \/ QueueGroup \/ TerminateWorker \/ Manage \/ UNCHANGED vars
           \/ \E w \in Workers : Allocate(w) \/ Work(w) \/ WakeSpuriously(w)
  <2>1. UNCHANGED <<owner, destroying>>
    BY <1>4 DEF QueueTask, Notify, QueueGroup, TerminateWorker, Manage, ManagerTest, ManagerSleep,
       ManagerJoins, vars, ownerVars, Allocate, Work, Wait, Pop, Finish, Leave,
       QueueForDisposal, End, WakeSpuriously
  <2> QED
    BY <1>2, <2>1
<1> QED
  BY <1>3, <1>4 DEF Next

THEOREM HandOverInvariant == Spec => []HandOver
<1>1. Init => HandOver
  <2> SUFFICES ASSUME Init PROVE HandOver
    OBVIOUS
  <2>1. In({"leaving", "queued"}) = {} /\ In({"queued", "ended"}) = {} /\ threads_map = {}
    BY DEF Init, threads_map, In
  <2> QED
    BY <2>1 DEF Init, HandOver, Gone, Passed
<1> QED
  BY <1>1, HandOverStep, TypeInvariant, FlagInvariant, PTL DEF Spec

\* When the pool is gone, at most one of its workers is left that nobody joins.
THEOREM OneOvertakes == Spec => []AtMostOneOvertakes
<1>1. TypeInv /\ HandOver => AtMostOneOvertakes
  <2> SUFFICES ASSUME TypeInv, HandOver, owner = "gone",
                      NEW v \in Workers \ In({"unused", "joined"}),
                      NEW w \in Workers \ In({"unused", "joined"})
               PROVE  v = w
    BY DEF AtMostOneOvertakes
  <2>1. target = {} /\ threads_map = {}
    BY DEF HandOver, Gone
  <2>2. \A u \in Workers \ In({"unused", "joined"}) :
          u \in In({"leaving"}) \/ u \in In({"queued", "ended"})
    BY <2>1 DEF TypeInv, WorkerType, threads_map, In
  <2>3. \A u \in Workers \ In({"unused", "joined"}) : u \in In({"leaving"}) \cup ToSet(targets)
    BY <2>1, <2>2 DEF HandOver
  <2> QED
    BY <2>3 DEF HandOver, Passed
<1> QED
  BY <1>1, HandOverInvariant, TypeInvariant, PTL
=============================================================================
