--------------------------- MODULE CompilerProofs ---------------------------
(***************************************************************************)
(* The compiler and the code it emits, for programs of any length: the     *)
(* stack of loops, the labels and jumps of regular functions, the bytes of *)
(* variables that are alive together.                                      *)
(***************************************************************************)
EXTENDS CompiledCode, FiniteSetTheorems, FunctionTheorems, SequenceTheorems, TLAPS

-----------------------------------------------------------------------------
(* Induction, and recursive functions.  That a function defined by         *)
(* recursion exists has to be shown: only then does the CHOOSE behind the  *)
(* definition of one say anything about its values.                        *)

\* If S left out k, adding 1 would map its members below k into themselves
\* without 0, which are fewer.
LEMMA Induction ==
  ASSUME NEW S, 0 \in S, \A n \in Nat : n \in S => n + 1 \in S
  PROVE  Nat \subseteq S
<1> SUFFICES ASSUME NEW k \in Nat, k \notin S PROVE FALSE
  OBVIOUS
<1> DEFINE A == (0 .. k) \cap S
           B == A \ {0}
           f == [m \in A |-> m + 1]
<1>1. IsFiniteSet(A)
  <2>1. IsFiniteSet(0 .. k)
    BY FS_Interval
  <2> QED
    BY <2>1, FS_Subset
<1>2. IsFiniteSet(B) /\ Cardinality(B) = Cardinality(A) - 1
  <2>1. 0 \in A
    OBVIOUS
  <2> HIDE DEF A
  <2> QED
    BY <1>1, <2>1, FS_RemoveElement
<1>3. \A m \in A : m + 1 \in B
  OBVIOUS
<1>4. f \in Injection(A, B)
  BY <1>3 DEF Injection, IsInjective
<1> HIDE DEF A, B, f
<1>5. Cardinality(A) <= Cardinality(B)
  BY <1>2, <1>4, FS_Injection
<1>6. Cardinality(A) \in Nat
  BY <1>1, FS_CardinalityType
<1> QED
  BY <1>2, <1>5, <1>6

\* f takes s to out[s], or to what step[s] makes of the value at the next of s.
Unfolds(f, S, done, out, next, step) ==
  f = [s \in S |-> IF s \in done THEN out[s] ELSE step[s][f[next[s]]]]

\* A function that is given by its value at something smaller exists: on what is smaller
\* than n it exists for every n, and where two of these meet they agree.
LEMMA Unfolding ==
  ASSUME NEW S, NEW size \in [S -> Nat], NEW done, NEW out, NEW next, NEW step,
         \A s \in S : s \notin done => next[s] \in S /\ size[next[s]] < size[s]
  PROVE  \E f : Unfolds(f, S, done, out, next, step)
<1> DEFINE Below(n) == { s \in S : size[s] < n }
           Solves(n, g) == \A s \in Below(n) :
                             g[s] = IF s \in done THEN out[s] ELSE step[s][g[next[s]]]
           Solved == { n \in Nat : \E g : Solves(n, g) }
<1>1. Nat \subseteq Solved
  <2>1. 0 \in Solved
    <3>1. Solves(0, out)
      OBVIOUS
    <3> QED
      BY <3>1
  <2>2. ASSUME NEW n \in Nat, n \in Solved PROVE n + 1 \in Solved
    <3>1. PICK g : Solves(n, g)
      BY <2>2
    <3> DEFINE h == [s \in S |-> IF s \in done THEN out[s] ELSE step[s][g[next[s]]]]
    <3>2. ASSUME NEW s \in Below(n + 1), s \notin done PROVE h[s] = step[s][h[next[s]]]
      <4>1. s \in S /\ next[s] \in S /\ next[s] \in Below(n) /\ h[s] = step[s][g[next[s]]]
        BY <3>2
      <4>2. g[next[s]] = IF next[s] \in done THEN out[next[s]]
                        ELSE step[next[s]][g[next[next[s]]]]
        BY <3>1, <4>1
      <4> QED
        BY <4>1, <4>2
    <3>3. \A s \in Below(n + 1) : s \in done => h[s] = out[s]
      OBVIOUS
    <3>4. Solves(n + 1, h)
      BY <3>2, <3>3
    <3> HIDE DEF h, Solves
    <3> QED
      BY <3>4
  <2> HIDE DEF Solved
  <2> QED
    BY <2>1, <2>2, Induction
<1> DEFINE Agreeing == { n \in Nat : \A m, j \in Nat : \A g, h : Solves(m, g) /\ Solves(j, h) =>
                           \A s \in Below(n) : s \in Below(m) /\ s \in Below(j) => g[s] = h[s] }
<1>2. Nat \subseteq Agreeing
  <2>1. 0 \in Agreeing
    OBVIOUS
  <2>2. ASSUME NEW n \in Nat, n \in Agreeing PROVE n + 1 \in Agreeing
    <3> SUFFICES ASSUME NEW m \in Nat, NEW j \in Nat, NEW g, NEW h, Solves(m, g), Solves(j, h),
                        NEW s \in Below(n + 1), s \in Below(m), s \in Below(j)
                 PROVE  g[s] = h[s]
      OBVIOUS
    <3>1. CASE s \in done
      BY <3>1
    <3>2. CASE s \notin done
      <4>1. next[s] \in Below(n) /\ next[s] \in Below(m) /\ next[s] \in Below(j)
        BY <3>2
      <4>2. g[next[s]] = h[next[s]]
        BY <2>2, <4>1
      <4> QED
        BY <3>2, <4>2
    <3> QED
      BY <3>1, <3>2
  <2> HIDE DEF Agreeing
  <2> QED
    BY <2>1, <2>2, Induction
<1> DEFINE part(n) == CHOOSE g : Solves(n, g)
           f == [s \in S |-> part(size[s] + 1)[s]]
<1>3. \A n \in Nat : Solves(n, part(n))
  BY <1>1
<1>4. ASSUME NEW s \in S, s \notin done PROVE f[s] = step[s][f[next[s]]]
  <2> DEFINE n == size[s] + 1
             k == size[next[s]] + 1
  <2>1. n \in Nat /\ k \in Nat /\ next[s] \in S /\ size[next[s]] \in Nat /\ size[s] \in Nat
    BY <1>4
  <2>2. s \in Below(n) /\ next[s] \in Below(n) /\ next[s] \in Below(k)
    BY <1>4, <2>1
  <2>3. Solves(n, part(n)) /\ Solves(k, part(k))
    BY <1>3, <2>1
  <2>4. part(n)[s] = step[s][part(n)[next[s]]]
    BY <1>4, <2>2, <2>3
  <2>5. k \in Agreeing
    BY <1>2, <2>1
  <2>6. part(n)[next[s]] = part(k)[next[s]]
    <3> HIDE DEF part, Solves, Below, n, k
    <3> QED
      BY <2>1, <2>2, <2>3, <2>5
  <2>7. f[s] = part(n)[s] /\ f[next[s]] = part(k)[next[s]]
    BY <2>1
  <2> HIDE DEF part, f, n, k
  <2> QED
    BY <2>4, <2>6, <2>7
<1>5. ASSUME NEW s \in S, s \in done PROVE f[s] = out[s]
  <2>1. size[s] + 1 \in Nat /\ s \in Below(size[s] + 1)
    OBVIOUS
  <2>2. Solves(size[s] + 1, part(size[s] + 1))
    BY <1>3, <2>1
  <2> QED
    BY <1>5, <2>1, <2>2
<1> HIDE DEF part
<1>6. f = [s \in S |-> f[s]]
  OBVIOUS
<1>7. f = [s \in S |-> IF s \in done THEN out[s] ELSE step[s][f[next[s]]]]
  BY <1>4, <1>5
<1> HIDE DEF f
<1> QED
  BY <1>7 DEF Unfolds

\* What step makes of a function at s depends on its values at what is smaller only.
Narrows(S, size, V, ok, step) ==
  \A s \in S : \A f, g \in [S -> V] :
    (\A t \in S : size[t] < size[s] => f[t] = g[t] /\ f[t] \in ok[t])
      => step[<<s, f>>] = step[<<s, g>>] /\ step[<<s, f>>] \in ok[s]

Solution(f, S, V, ok, step) ==
  f \in [S -> V] /\ \A s \in S : f[s] = step[<<s, f>>] /\ f[s] \in ok[s]

\* A function exists whose value at s is what step makes of the function itself, if that needs
\* no more than its values at what is smaller, where they are as they should be (ok).
LEMMA NestedRecursion ==
  ASSUME NEW S, NEW size \in [S -> Nat], NEW V, NEW v0 \in V, NEW ok, NEW step,
         \A s \in S : ok[s] \subseteq V,
         Narrows(S, size, V, ok, step)
  PROVE  \E f : Solution(f, S, V, ok, step)
<1> USE DEF Narrows, Solution
<1> DEFINE Below(n) == { s \in S : size[s] < n }
           Solves(n, g) == g \in [S -> V] /\ \A s \in Below(n) : g[s] = step[<<s, g>>] /\ g[s] \in ok[s]
           Solved == { n \in Nat : \E g : Solves(n, g) }
<1>0. \A m, n \in Nat : \A s \in S : s \in Below(n) => /\ size[s] \in Nat
                                                      /\ (m < size[s] => m + 1 < n /\ m < n)
  OBVIOUS
<1>1. Nat \subseteq Solved
  <2>1. 0 \in Solved
    <3>1. Solves(0, [s \in S |-> v0])
      OBVIOUS
    <3> QED
      BY <3>1
  <2>2. ASSUME NEW n \in Nat, n \in Solved PROVE n + 1 \in Solved
    <3>1. PICK g : Solves(n, g)
      BY <2>2
    <3> DEFINE h == [s \in S |-> IF s \in Below(n + 1) THEN step[<<s, g>>] ELSE v0]
    <3>2. ASSUME NEW s \in Below(n + 1), NEW t \in S, size[t] < size[s]
          PROVE  t \in Below(n) /\ t \in Below(n + 1)
      BY <3>2
    <3>3. ASSUME NEW s \in Below(n + 1) PROVE step[<<s, g>>] \in ok[s]
      <4>1. s \in S /\ g \in [S -> V] /\ \A t \in S : size[t] < size[s] => g[t] \in ok[t]
        BY <3>1, <3>2
      <4> QED
        BY <4>1
    <3>4. h \in [S -> V]
      BY <3>3
    <3>5. ASSUME NEW t \in Below(n) PROVE g[t] = h[t] /\ g[t] \in ok[t]
      <4>1. t \in Below(n + 1)
        OBVIOUS
      <4> QED
        BY <3>1, <3>5, <4>1
    <3>6. ASSUME NEW s \in Below(n + 1) PROVE h[s] = step[<<s, h>>] /\ h[s] \in ok[s]
      <4>1. s \in S /\ h[s] = step[<<s, g>>] /\ g \in [S -> V]
        BY <3>1
      <4>2. \A t \in S : size[t] < size[s] => g[t] = h[t] /\ g[t] \in ok[t]
        BY <3>2, <3>5
      <4> HIDE DEF h
      <4>3. step[<<s, g>>] = step[<<s, h>>]
        BY <3>4, <4>1, <4>2
      <4> QED
        BY <3>3, <4>1, <4>3
    <3> HIDE DEF h
    <3>7. Solves(n + 1, h)
      BY <3>4, <3>6
    <3> HIDE DEF Solves
    <3> QED
      BY <3>7
  <2> HIDE DEF Solved
  <2> QED
    BY <2>1, <2>2, Induction
<1> DEFINE Agreeing == { n \in Nat : \A m, j \in Nat : \A g, h : Solves(m, g) /\ Solves(j, h) =>
                           \A s \in Below(n) : s \in Below(m) /\ s \in Below(j) => g[s] = h[s] }
<1>2. Nat \subseteq Agreeing
  <2>1. 0 \in Agreeing
    OBVIOUS
  <2>2. ASSUME NEW n \in Nat, n \in Agreeing PROVE n + 1 \in Agreeing
    <3> SUFFICES ASSUME NEW m \in Nat, NEW j \in Nat, NEW g, NEW h, Solves(m, g), Solves(j, h),
                        NEW s \in Below(n + 1), s \in Below(m), s \in Below(j)
                 PROVE  g[s] = h[s]
      OBVIOUS
    <3>1. ASSUME NEW t \in S, size[t] < size[s]
          PROVE  t \in Below(n) /\ t \in Below(m) /\ t \in Below(j)
      BY <3>1
    <3>2. ASSUME NEW t \in S, size[t] < size[s] PROVE g[t] = h[t] /\ g[t] \in ok[t]
      <4>1. g[t] = h[t]
        <5> HIDE DEF Solves, Below
        <5> QED
          BY <2>2, <3>1, <3>2
      <4> QED
        BY <3>1, <3>2, <4>1
    <3>3. step[<<s, g>>] = step[<<s, h>>]
      BY <3>2
    <3> QED
      BY <3>3
  <2> HIDE DEF Agreeing
  <2> QED
    BY <2>1, <2>2, Induction
<1> DEFINE part(n) == CHOOSE g : Solves(n, g)
           f == [s \in S |-> part(size[s] + 1)[s]]
<1>3. \A n \in Nat : Solves(n, part(n))
  BY <1>1
<1>4. ASSUME NEW n \in Nat, NEW s \in Below(n) PROVE f[s] = part(n)[s] /\ f[s] \in ok[s]
  <2> DEFINE k == size[s] + 1
  <2>1. k \in Nat /\ s \in S /\ s \in Below(k)
    OBVIOUS
  <2>2. Solves(n, part(n)) /\ Solves(k, part(k)) /\ k \in Agreeing
    BY <1>2, <1>3, <2>1
  <2>3. f[s] = part(k)[s]
    BY <2>1
  <2> HIDE DEF part, k, f
  <2>4. part(k)[s] = part(n)[s]
    <3> HIDE DEF Solves, Below
    <3> QED
      BY <2>1, <2>2
  <2> QED
    BY <2>1, <2>2, <2>3, <2>4
<1>5. f \in [S -> V]
  <2>1. ASSUME NEW s \in S PROVE f[s] \in V
    <3>1. size[s] + 1 \in Nat /\ s \in Below(size[s] + 1)
      OBVIOUS
    <3> HIDE DEF f
    <3> QED
      BY <1>4, <3>1
  <2>2. f = [s \in S |-> f[s]]
    OBVIOUS
  <2> HIDE DEF f
  <2> QED
    BY <2>1, <2>2
<1>6. ASSUME NEW s \in S PROVE f[s] = step[<<s, f>>] /\ f[s] \in ok[s]
  <2>1. PICK n \in Nat : s \in Below(n)
    <3>1. size[s] + 1 \in Nat /\ s \in Below(size[s] + 1)
      OBVIOUS
    <3> QED
      BY <3>1
  <2>2. PICK g : g = part(n) /\ Solves(n, g)
    BY <1>3
  <2>3. \A t \in S : size[t] < size[s] => t \in Below(n)
    BY <2>1
  <2> HIDE DEF f, part
  <2>4. \A t \in S : size[t] < size[s] => g[t] = f[t] /\ g[t] \in ok[t]
    BY <1>4, <2>2, <2>3
  <2>5. step[<<s, g>>] = step[<<s, f>>]
    BY <1>5, <2>2, <2>4
  <2> QED
    BY <1>4, <2>1, <2>2, <2>5
<1> HIDE DEF f
<1> QED
  BY <1>5, <1>6

-----------------------------------------------------------------------------
(* Concatenation.                                                          *)

LEMMA Concatenated ==
  ASSUME NEW S, NEW a \in Seq(S), NEW b \in Seq(S)
  PROVE  /\ a \o b \in Seq(S) /\ Len(a \o b) = Len(a) + Len(b)
         /\ DOMAIN (a \o b) = 1 .. Len(a) + Len(b)
         /\ \A k \in 1 .. Len(a) : (a \o b)[k] = a[k]
         /\ \A k \in 1 .. Len(b) : (a \o b)[Len(a) + k] = b[k]
         /\ ToSet(a \o b) = ToSet(a) \cup ToSet(b)
<1>1. /\ a \o b \in Seq(S) /\ Len(a \o b) = Len(a) + Len(b)
      /\ DOMAIN (a \o b) = 1 .. Len(a) + Len(b)
  OBVIOUS
<1>2. /\ DOMAIN a = 1 .. Len(a) /\ DOMAIN b = 1 .. Len(b) /\ Len(a) \in Nat /\ Len(b) \in Nat
  OBVIOUS
<1>3. ASSUME NEW k \in 1 .. Len(a) PROVE (a \o b)[k] = a[k]
  OBVIOUS
<1>4. ASSUME NEW k \in 1 .. Len(b) PROVE (a \o b)[Len(a) + k] = b[k]
  OBVIOUS
<1>5. ASSUME NEW k \in 1 .. Len(a) + Len(b), k \notin 1 .. Len(a)
      PROVE  \E m \in 1 .. Len(b) : k = Len(a) + m
  <2>1. k - Len(a) \in 1 .. Len(b) /\ k = Len(a) + (k - Len(a))
    BY <1>2, <1>5
  <2> QED
    BY <2>1
<1>6. ToSet(a \o b) = ToSet(a) \cup ToSet(b)
  <2>1. ASSUME NEW x \in ToSet(a \o b) PROVE x \in ToSet(a) \cup ToSet(b)
    <3>1. PICK k \in 1 .. Len(a) + Len(b) : x = (a \o b)[k]
      BY <1>1 DEF ToSet
    <3>2. CASE k \in 1 .. Len(a)
      BY <1>2, <1>3, <3>1, <3>2 DEF ToSet
    <3>3. CASE k \notin 1 .. Len(a)
      <4>1. PICK m \in 1 .. Len(b) : k = Len(a) + m
        BY <1>5, <3>3
      <4>2. x = b[m]
        BY <1>4, <3>1, <4>1
      <4> QED
        BY <1>2, <4>2 DEF ToSet
    <3> QED
      BY <3>2, <3>3
  <2>2. ASSUME NEW x \in ToSet(a) PROVE x \in ToSet(a \o b)
    <3>1. PICK k \in 1 .. Len(a) : x = a[k]
      BY <1>2 DEF ToSet
    <3>2. k \in DOMAIN (a \o b) /\ x = (a \o b)[k]
      BY <1>1, <1>2, <1>3, <3>1
    <3> QED
      BY <3>2 DEF ToSet
  <2>3. ASSUME NEW x \in ToSet(b) PROVE x \in ToSet(a \o b)
    <3>1. PICK k \in 1 .. Len(b) : x = b[k]
      BY <1>2 DEF ToSet
    <3>2. Len(a) + k \in DOMAIN (a \o b) /\ x = (a \o b)[Len(a) + k]
      BY <1>1, <1>2, <1>4, <3>1
    <3> QED
      BY <3>2 DEF ToSet
  <2> QED
    BY <2>1, <2>2, <2>3
<1> QED
  BY <1>1, <1>3, <1>4, <1>6

IsFlat(f, lists) ==
  f = [m \in 1 .. Len(lists) |-> IF m = 1 THEN lists[m] ELSE f[m - 1] \o lists[m]]

\* FlattenSeq is the last value of a function that appends the lists one by one.
LEMMA FlatIs ==
  ASSUME NEW S, NEW lists \in Seq(Seq(S)), lists # <<>>
  PROVE  \E g : /\ IsFlat(g, lists) /\ FlattenSeq(lists) = g[Len(lists)]
                /\ \A m \in 1 .. Len(lists) : g[m] \in Seq(S)
<1> DEFINE n == Len(lists)
<1>1. n \in Nat /\ n # 0 /\ DOMAIN lists = 1 .. n /\ \A m \in 1 .. n : lists[m] \in Seq(S)
  OBVIOUS
<1>2. \E f : IsFlat(f, lists)
  <2> DEFINE size == [m \in 1 .. n |-> m]
             done == {1}
             out == [m \in 1 .. n |-> lists[m]]
             next == [m \in 1 .. n |-> m - 1]
             step == [m \in 1 .. n |-> [v \in Seq(S) |-> v \o lists[m]]]
             T == 1 .. n
  <2>1. size \in [T -> Nat] /\ \A m \in T : m \notin done => next[m] \in T /\ size[next[m]] < size[m]
    BY <1>1
  <2>2. PICK f : Unfolds(f, T, done, out, next, step)
    <3> HIDE DEF size, done, out, next, step, T
    <3> QED
      BY <2>1, Unfolding
  <2>3. \A m \in 1 .. n : f[m] = IF m = 1 THEN lists[m] ELSE step[m][f[m - 1]]
    BY <1>1, <2>2 DEF Unfolds
  <2> DEFINE Typed == { m \in Nat : m \in 1 .. n => f[m] \in Seq(S) }
  <2>4. Nat \subseteq Typed
    <3>1. 0 \in Typed
      OBVIOUS
    <3>2. ASSUME NEW m \in Nat, m \in Typed PROVE m + 1 \in Typed
      <4> SUFFICES ASSUME m + 1 \in 1 .. n PROVE f[m + 1] \in Seq(S)
        OBVIOUS
      <4>1. CASE m = 0
        <5>1. 1 \in 1 .. n /\ m + 1 = 1
          BY <1>1, <4>1
        <5>2. f[1] = lists[1]
          BY <2>3, <5>1
        <5> QED
          BY <1>1, <5>1, <5>2
      <4>2. CASE m # 0
        <5>1. m \in 1 .. n /\ f[m] \in Seq(S) /\ lists[m + 1] \in Seq(S)
          BY <1>1, <3>2, <4>2
        <5>2. m + 1 # 1 /\ (m + 1) - 1 = m
          BY <4>2
        <5>3. f[m + 1] = step[m + 1][f[m]]
          BY <2>3, <5>2
        <5> QED
          BY <5>1, <5>3
      <4> QED
        BY <4>1, <4>2
    <3> HIDE DEF Typed
    <3> QED
      BY <3>1, <3>2, Induction
  <2>5. \A m \in 1 .. n : f[m] \in Seq(S)
    BY <2>4
  <2>6. ASSUME NEW m \in 1 .. n, m # 1 PROVE step[m][f[m - 1]] = f[m - 1] \o lists[m]
    <3>1. m - 1 \in 1 .. n
      BY <1>1, <2>6
    <3>2. f[m - 1] \in Seq(S)
      BY <2>5, <3>1
    <3> QED
      BY <3>2
  <2>7. f = [m \in 1 .. n |-> f[m]]
    BY <2>2 DEF Unfolds
  <2> HIDE DEF step
  <2>8. f = [m \in 1 .. n |-> IF m = 1 THEN lists[m] ELSE f[m - 1] \o lists[m]]
    BY <2>3, <2>6, <2>7
  <2> QED
    BY <2>8 DEF IsFlat
<1> DEFINE g == CHOOSE f : f = [m \in 1 .. Len(lists) |->
                                  IF m = 1 THEN lists[m] ELSE f[m - 1] \o lists[m]]
<1>3. g = [m \in 1 .. n |-> IF m = 1 THEN lists[m] ELSE g[m - 1] \o lists[m]]
  BY <1>2, Zenon DEF IsFlat
<1>4. FlattenSeq(lists) = g[n]
  BY <1>1 DEF FlattenSeq
<1> HIDE DEF g
<1> DEFINE Typed == { m \in Nat : m \in 1 .. n => g[m] \in Seq(S) }
<1>5. Nat \subseteq Typed
  <2>1. 0 \in Typed
    OBVIOUS
  <2>2. ASSUME NEW m \in Nat, m \in Typed PROVE m + 1 \in Typed
    <3> SUFFICES ASSUME m + 1 \in 1 .. n PROVE g[m + 1] \in Seq(S)
      OBVIOUS
    <3>1. CASE m = 0
      BY <1>1, <1>3, <3>1
    <3>2. CASE m # 0
      <4>1. m \in 1 .. n /\ g[m] \in Seq(S) /\ lists[m + 1] \in Seq(S)
        BY <1>1, <2>2, <3>2
      <4>2. m + 1 # 1 /\ (m + 1) - 1 = m
        BY <3>2
      <4>3. g[m + 1] = g[m] \o lists[m + 1]
        BY <1>3, <4>2
      <4> QED
        BY <4>1, <4>3
    <3> QED
      BY <3>1, <3>2
  <2> HIDE DEF Typed
  <2> QED
    BY <2>1, <2>2, Induction
<1>6. \A m \in 1 .. n : g[m] \in Seq(S)
  BY <1>5
<1> QED
  BY <1>3, <1>4, <1>6 DEF IsFlat

\* FlattenSeq concatenates: its elements are those of the lists.
LEMMA Flattened ==
  ASSUME NEW S, NEW lists \in Seq(Seq(S))
  PROVE  /\ FlattenSeq(lists) \in Seq(S)
         /\ ToSet(FlattenSeq(lists)) = UNION { ToSet(lists[k]) : k \in DOMAIN lists }
<1> DEFINE n == Len(lists)
           Upto(m) == UNION { ToSet(lists[k]) : k \in 1 .. m }
<1>1. n \in Nat /\ DOMAIN lists = 1 .. n /\ \A m \in 1 .. n : lists[m] \in Seq(S)
  OBVIOUS
<1>2. CASE n = 0
  <2>1. lists = <<>> /\ FlattenSeq(lists) = <<>>
    BY <1>2 DEF FlattenSeq
  <2>2. DOMAIN lists = {}
    BY <1>1, <1>2
  <2>3. ToSet(FlattenSeq(lists)) = {}
    BY <2>1 DEF ToSet
  <2>4. UNION { ToSet(lists[k]) : k \in DOMAIN lists } = {}
    BY <2>2
  <2>5. FlattenSeq(lists) \in Seq(S)
    <3>1. <<>> \in Seq(S)
      OBVIOUS
    <3> QED
      BY <2>1, <3>1, Zenon
  <2> QED
    BY <2>3, <2>4, <2>5, Zenon
<1>3. CASE n # 0
  <2>1. lists # <<>>
    BY <1>3
  <2>2. PICK g : /\ IsFlat(g, lists) /\ FlattenSeq(lists) = g[Len(lists)]
                 /\ \A m \in 1 .. Len(lists) : g[m] \in Seq(S)
    BY <2>1, FlatIs
  <2>3. /\ g = [m \in 1 .. n |-> IF m = 1 THEN lists[m] ELSE g[m - 1] \o lists[m]]
        /\ FlattenSeq(lists) = g[n]
    BY <2>2 DEF IsFlat
  <2> DEFINE Flat == { m \in Nat : m \in 1 .. n => g[m] \in Seq(S) /\ ToSet(g[m]) = Upto(m) }
  <2>4. Nat \subseteq Flat
    <3>1. 0 \in Flat
      OBVIOUS
    <3>2. ASSUME NEW m \in Nat, m \in Flat PROVE m + 1 \in Flat
      <4> SUFFICES ASSUME m + 1 \in 1 .. n
                   PROVE  g[m + 1] \in Seq(S) /\ ToSet(g[m + 1]) = Upto(m + 1)
        OBVIOUS
      <4>1. CASE m = 0
        <5>1. g[1] = lists[1] /\ lists[1] \in Seq(S)
          BY <1>1, <2>3, <4>1
        <5> QED
          BY <4>1, <5>1
      <4>2. CASE m # 0
        <5>1. m \in 1 .. n /\ g[m] \in Seq(S) /\ ToSet(g[m]) = Upto(m) /\ lists[m + 1] \in Seq(S)
          BY <1>1, <3>2, <4>2
        <5>2. g[m + 1] = g[m] \o lists[m + 1]
          <6>1. m + 1 # 1 /\ (m + 1) - 1 = m
            BY <4>2
          <6> QED
            BY <2>3, <6>1
        <5>3. ToSet(g[m] \o lists[m + 1]) = ToSet(g[m]) \cup ToSet(lists[m + 1])
          BY <5>1, Concatenated
        <5>4. Upto(m + 1) = Upto(m) \cup ToSet(lists[m + 1])
          <6>1. 1 .. m + 1 = (1 .. m) \cup {m + 1}
            OBVIOUS
          <6> QED
            BY <6>1
        <5> QED
          BY <5>1, <5>2, <5>3, <5>4
      <4> QED
        BY <4>1, <4>2
    <3> HIDE DEF Flat
    <3> QED
      BY <3>1, <3>2, Induction
  <2>5. g[n] \in Seq(S) /\ ToSet(g[n]) = Upto(n)
    <3>1. n \in 1 .. n
      BY <1>1, <1>3
    <3>2. n \in Flat
      <4> HIDE DEF Flat, n
      <4> QED
        BY <1>1, <2>4
    <3> HIDE DEF n, Upto
    <3> QED
      BY <3>1, <3>2
  <2> QED
    BY <1>1, <2>3, <2>5
<1> QED
  BY <1>2, <1>3

Along(h, q) == [k \in DOMAIN q |-> h[q[k]]]

LEMMA AlongJoined ==
  ASSUME NEW S, NEW h, NEW a \in Seq(S), NEW b \in Seq(S)
  PROVE  /\ Len(Along(h, a)) = Len(a)
         /\ Along(h, a \o b) = Along(h, a) \o Along(h, b)
<1>0. PICK T : T = { h[x] : x \in S }
  OBVIOUS
<1>1. ASSUME NEW q \in Seq(S) PROVE Along(h, q) \in Seq(T) /\ Len(Along(h, q)) = Len(q)
  BY <1>0 DEF Along
<1>2. /\ a \o b \in Seq(S) /\ Len(a \o b) = Len(a) + Len(b)
      /\ Len(a) \in Nat /\ Len(b) \in Nat
  OBVIOUS
<1>3. PICK x \in Seq(T), y \in Seq(T) : x = Along(h, a) /\ y = Along(h, b)
  BY <1>1
<1>4. Len(x) = Len(a) /\ Len(y) = Len(b)
  BY <1>1, <1>3
<1>5. PICK z \in Seq(T) : z = Along(h, a \o b)
  BY <1>1, <1>2
<1>6. Len(z) = Len(a) + Len(b)
  BY <1>1, <1>2, <1>5
<1>7. ASSUME NEW k \in 1 .. Len(a) + Len(b) PROVE z[k] = (x \o y)[k]
  <2>1. z[k] = h[(a \o b)[k]]
    BY <1>2, <1>5 DEF Along
  <2>2. CASE k \in 1 .. Len(a)
    BY <1>2, <1>3, <1>4, <2>1, <2>2 DEF Along
  <2>3. CASE k \notin 1 .. Len(a)
    <3>1. k - Len(a) \in 1 .. Len(b)
      BY <1>2, <2>3
    <3>2. (a \o b)[k] = b[k - Len(a)] /\ (x \o y)[k] = y[k - Len(a)]
      BY <1>2, <1>4, <2>3, <3>1
    <3>3. y[k - Len(a)] = h[b[k - Len(a)]]
      BY <1>3, <3>1 DEF Along
    <3> QED
      BY <2>1, <3>2, <3>3
  <2> QED
    BY <2>2, <2>3
<1>8. z = x \o y
  <2>1. x \o y \in Seq(T) /\ Len(x \o y) = Len(x) + Len(y)
    OBVIOUS
  <2> QED
    BY <1>4, <1>6, <1>7, <2>1, SeqEqual
<1> QED
  BY <1>1, <1>3, <1>5, <1>8

\* FlattenSeq of lists with h applied to every element.
LEMMA FlatAlong ==
  ASSUME NEW S, NEW h, NEW lists \in Seq(Seq(S))
  PROVE  FlattenSeq([k \in DOMAIN lists |-> Along(h, lists[k])]) = Along(h, FlattenSeq(lists))
<1> DEFINE T == { h[x] : x \in S }
           images == [k \in DOMAIN lists |-> Along(h, lists[k])]
<1>0. /\ images \in Seq(Seq(T)) /\ Len(images) = Len(lists)
      /\ \A k \in DOMAIN lists : images[k] = Along(h, lists[k])
  <2>1. ASSUME NEW q \in Seq(S) PROVE Along(h, q) \in Seq(T)
    BY DEF Along
  <2>2. PICK N \in Nat : N = Len(lists) /\ DOMAIN lists = 1 .. N /\ \A k \in 1 .. N : lists[k] \in Seq(S)
    OBVIOUS
  <2>3. PICK Y : Y = Seq(T)
    OBVIOUS
  <2>4. images \in [1 .. N -> Y]
    BY <2>1, <2>2, <2>3
  <2>5. \A k \in DOMAIN lists : images[k] = Along(h, lists[k])
    OBVIOUS
  <2> HIDE DEF images, T
  <2>6. images \in Seq(Y) /\ Len(images) = N
    BY <2>4
  <2> QED
    BY <2>2, <2>3, <2>5, <2>6
<1> HIDE DEF images, T
<1> DEFINE n == Len(lists)
<1>1. n \in Nat /\ DOMAIN lists = 1 .. n /\ \A m \in 1 .. n : lists[m] \in Seq(S)
  OBVIOUS
<1>2. ASSUME n = 0 PROVE FlattenSeq(images) = Along(h, FlattenSeq(lists))
  <2>1. lists = <<>> /\ images = <<>>
    BY <1>0, <1>2
  <2>2. FlattenSeq(lists) = <<>> /\ FlattenSeq(images) = <<>>
    BY <2>1 DEF FlattenSeq
  <2>3. Along(h, <<>>) = <<>>
    BY DEF Along
  <2> QED
    BY <2>2, <2>3
<1>3. ASSUME n # 0 PROVE FlattenSeq(images) = Along(h, FlattenSeq(lists))
  <2>1. lists # <<>> /\ images # <<>>
    BY <1>0, <1>1, <1>3
  <2>2. PICK g : /\ IsFlat(g, lists) /\ FlattenSeq(lists) = g[Len(lists)]
                 /\ \A m \in 1 .. Len(lists) : g[m] \in Seq(S)
    BY <2>1, FlatIs
  <2>3. PICK f : IsFlat(f, images) /\ FlattenSeq(images) = f[Len(images)]
    BY <1>0, <2>1, FlatIs
  <2>0. ASSUME NEW a \in Seq(S), NEW b \in Seq(S)
        PROVE  Along(h, a \o b) = Along(h, a) \o Along(h, b)
    BY AlongJoined
  <2>4. /\ \A m \in 1 .. n : g[m] = IF m = 1 THEN lists[m] ELSE g[m - 1] \o lists[m]
        /\ \A m \in 1 .. n : f[m] = IF m = 1 THEN images[m] ELSE f[m - 1] \o images[m]
    BY <1>0, <2>2, <2>3 DEF IsFlat
  <2> DEFINE Mapped == { m \in Nat : m \in 1 .. n => f[m] = Along(h, g[m]) }
  <2>5. Nat \subseteq Mapped
    <3>1. 0 \in Mapped
      OBVIOUS
    <3>2. ASSUME NEW m \in Nat, m \in Mapped PROVE m + 1 \in Mapped
      <4> SUFFICES ASSUME m + 1 \in 1 .. n PROVE f[m + 1] = Along(h, g[m + 1])
        OBVIOUS
      <4>1. images[m + 1] = Along(h, lists[m + 1])
        BY <1>0, <1>1
      <4>2. CASE m = 0
        <5>1. f[m + 1] = images[m + 1] /\ g[m + 1] = lists[m + 1]
          BY <2>4, <4>2
        <5> QED
          BY <4>1, <5>1
      <4>3. CASE m # 0
        <5>1. m \in 1 .. n /\ f[m] = Along(h, g[m]) /\ g[m] \in Seq(S) /\ lists[m + 1] \in Seq(S)
          BY <1>1, <2>2, <3>2, <4>3
        <5>2. m + 1 # 1 /\ (m + 1) - 1 = m
          BY <4>3
        <5>3. f[m + 1] = f[m] \o images[m + 1] /\ g[m + 1] = g[m] \o lists[m + 1]
          BY <2>4, <5>2
        <5>4. PICK a \in Seq(S), b \in Seq(S) : a = g[m] /\ b = lists[m + 1]
          BY <5>1
        <5>5. Along(h, a \o b) = Along(h, a) \o Along(h, b)
          BY <2>0
        <5> QED
          BY <4>1, <5>1, <5>3, <5>4, <5>5
      <4> QED
        BY <4>2, <4>3
    <3> HIDE DEF Mapped
    <3> QED
      BY <3>1, <3>2, Induction
  <2>6. n \in 1 .. n
    BY <1>1, <1>3
  <2> QED
    BY <1>0, <2>2, <2>3, <2>5, <2>6
<1>4. FlattenSeq(images) = Along(h, FlattenSeq(lists))
  BY <1>2, <1>3
<1> QED
  BY <1>4 DEF images

-----------------------------------------------------------------------------
(* The tree of scopes.                                                     *)

Opening == Branch \cup {"scope"}

\* A scope is what the instruction that opens it says, and the other way round.
ParentInv(c) ==
  /\ scopes[c].parent_scope \in DOMAIN scopes /\ scopes[c].parent_scope < c
  /\ scopes[c].opener \in DOMAIN instructions(scopes[c].parent_scope)
  /\ opener(c).op \in Opening /\ opener(c).arg = c
ChildInv(s, k) ==
  LET c == instructions(s)[k].arg
  IN  instructions(s)[k].op \in Opening =>
        c \in DOMAIN scopes \ {main} /\ scopes[c].parent_scope = s /\ scopes[c].opener = k
TreeInv ==
  /\ main \in DOMAIN scopes /\ scopes[main].parent_scope = 0
  /\ Len(scopes) <= calls + 1
  /\ \A c \in DOMAIN scopes \ {main} : ParentInv(c)
  /\ \A s \in DOMAIN scopes : \A k \in DOMAIN instructions(s) : ChildInv(s, k)

BuilderType ==
  scopes \in Seq(Scope) /\ building \in DOMAIN scopes /\ calls \in 0 .. MaxCalls

LEMMA ScopeTyped ==
  ASSUME scopes \in Seq(Scope), NEW s \in DOMAIN scopes
  PROVE  /\ s \in Nat \ {0} /\ s \in 1 .. Len(scopes) /\ Len(scopes) \in Nat
         /\ scopes[s] \in Scope /\ instructions(s) \in Seq(Instruction)
         /\ DOMAIN instructions(s) = 1 .. Len(instructions(s)) /\ Len(instructions(s)) \in Nat
         /\ \A k \in DOMAIN instructions(s) :
              /\ instructions(s)[k] \in Instruction /\ instructions(s)[k].arg \in Nat
              /\ k \in Nat \ {0}
<1>1. scopes[s] \in Scope /\ s \in 1 .. Len(scopes) /\ Len(scopes) \in Nat
  OBVIOUS
<1>2. instructions(s) \in Seq(Instruction)
  BY <1>1 DEF instructions, Scope
<1> HIDE DEF Scope
<1>3. /\ DOMAIN instructions(s) = 1 .. Len(instructions(s)) /\ Len(instructions(s)) \in Nat
      /\ \A k \in DOMAIN instructions(s) : instructions(s)[k] \in Instruction
  BY <1>2
<1>4. \A ins \in Instruction : ins.arg \in Nat
  BY DEF Instruction
<1> QED
  BY <1>1, <1>2, <1>3, <1>4

LEMMA Excepted ==
  ASSUME NEW S, NEW q \in Seq(S), NEW k \in DOMAIN q, NEW x \in S
  PROVE  LET r == [q EXCEPT ![k] = x]
         IN  r \in Seq(S) /\ DOMAIN r = DOMAIN q /\ Len(r) = Len(q)
  OBVIOUS

LEMMA Appended ==
  ASSUME NEW S, NEW q \in Seq(S), NEW x \in S
  PROVE  /\ Append(q, x) \in Seq(S) /\ Len(Append(q, x)) = Len(q) + 1
         /\ DOMAIN Append(q, x) = DOMAIN q \cup {Len(q) + 1}
         /\ \A k \in DOMAIN q : Append(q, x)[k] = q[k]
         /\ Append(q, x)[Len(q) + 1] = x
  OBVIOUS

\* What pushing an instruction changes.
LEMMA PushedIs ==
  ASSUME scopes \in Seq(Scope), NEW s \in DOMAIN scopes, NEW ins \in Instruction
  PROVE  LET pushed == Pushed(s, <<ins>>)
         IN  /\ pushed \in Seq(Scope) /\ DOMAIN pushed = DOMAIN scopes /\ Len(pushed) = Len(scopes)
             /\ \A c \in DOMAIN scopes : /\ pushed[c].parent_scope = scopes[c].parent_scope
                                         /\ pushed[c].opener = scopes[c].opener
                                         /\ c # s => pushed[c] = scopes[c]
             /\ pushed[s].instructions = Append(instructions(s), ins)
<1> DEFINE pushed == Pushed(s, <<ins>>)
<1>1. instructions(s) \in Seq(Instruction) /\ scopes[s] \in Scope
  BY ScopeTyped
<1>2. instructions(s) \o <<ins>> = Append(instructions(s), ins)
      /\ Append(instructions(s), ins) \in Seq(Instruction)
  BY <1>1
<1>3. pushed = [scopes EXCEPT ![s] = [scopes[s] EXCEPT !.instructions = Append(instructions(s), ins)]]
  BY <1>2 DEF Pushed, instructions
<1>4. [scopes[s] EXCEPT !.instructions = Append(instructions(s), ins)] \in Scope
  BY <1>1, <1>2 DEF Scope
<1>5. pushed \in Seq(Scope) /\ DOMAIN pushed = DOMAIN scopes /\ Len(pushed) = Len(scopes)
  <2> DEFINE new == [scopes[s] EXCEPT !.instructions = Append(instructions(s), ins)]
  <2>1. new \in Scope /\ pushed = [scopes EXCEPT ![s] = new]
    BY <1>3, <1>4
  <2> HIDE DEF new, pushed, Scope
  <2> QED
    BY <2>1, Excepted
<1>6. pushed[s] = [scopes[s] EXCEPT !.instructions = Append(instructions(s), ins)]
  BY <1>3
<1>7. pushed[s].instructions = Append(instructions(s), ins)
      /\ pushed[s].parent_scope = scopes[s].parent_scope /\ pushed[s].opener = scopes[s].opener
  BY <1>1, <1>6 DEF Scope
<1>8. \A c \in DOMAIN scopes : c # s => pushed[c] = scopes[c]
  BY <1>3
<1> HIDE DEF pushed
<1>9. \A c \in DOMAIN scopes : /\ pushed[c].parent_scope = scopes[c].parent_scope
                               /\ pushed[c].opener = scopes[c].opener
                               /\ c # s => pushed[c] = scopes[c]
  BY <1>7, <1>8
<1> QED
  BY <1>5, <1>7, <1>9 DEF pushed

PushesIn(s, ins) ==
  /\ ins.op \notin Opening /\ building' = s
  /\ scopes' = Pushed(s, <<ins>>)
OpensIn(s, ins) ==
  /\ ins.op \in Opening /\ ins.arg = Len(scopes) + 1
  /\ building' = Len(scopes) + 1 /\ calls' = calls + 1
  /\ scopes' = Append(Pushed(s, <<ins>>),
                      [parent_scope |-> s, opener |-> Len(instructions(s)) + 1,
                       instructions |-> <<>>])

\* What is constructed has been declared in the scope, and not constructed before; an else
\* follows an instruction.
Fits(s, ins) ==
  /\ ins.op = "construct" =>
       /\ ins.arg \in DOMAIN instructions(s) /\ instructions(s)[ins.arg].op = "declare"
       /\ ins \notin ToSet(instructions(s))
  /\ ins.op = "else" => instructions(s) # <<>>

\* A step of the user pushes an instruction, and opens a scope if that is one that does.
LEMMA BuildSteps ==
  ASSUME BuilderType, Build
  PROVE  /\ calls' \in 0 .. MaxCalls /\ calls' >= calls
         /\ \E s \in DOMAIN scopes, ins \in Instruction :
              Fits(s, ins) /\ (PushesIn(s, ins) \/ OpensIn(s, ins))
<1>1. calls \in Nat /\ MaxCalls \in Nat /\ calls <= MaxCalls
  BY BuilderAssumption DEF BuilderType
<1>2. PICK s \in DOMAIN scopes :
        \/ create_variable(s)
        \/ \E v \in DOMAIN instructions(s) : default_construct(s, v)
        \/ \E op \in Operations : PushLeaf(s, op)
        \/ \E op \in Operations : Open(s, op)
  BY DEF Build
<1>3. ASSUME create_variable(s)
      PROVE  /\ calls' = calls + 1 /\ calls < MaxCalls
             /\ \E ins \in Instruction : Fits(s, ins) /\ PushesIn(s, ins)
  <2> DEFINE ins == [op |-> "declare", arg |-> 0]
  <2>1. ins \in Instruction /\ ins.op \notin Opening /\ Fits(s, ins)
    BY DEF Instruction, Opening, Branch, Fits
  <2>2. scopes' = Pushed(s, <<ins>>) /\ building' = s /\ calls' = calls + 1 /\ calls < MaxCalls
    BY <1>3 DEF create_variable, Writes
  <2> QED
    BY <2>1, <2>2 DEF PushesIn
<1>4. ASSUME NEW v \in DOMAIN instructions(s), default_construct(s, v)
      PROVE  /\ calls' = calls
             /\ \E ins \in Instruction : Fits(s, ins) /\ PushesIn(s, ins)
  <2> DEFINE ins == [op |-> "construct", arg |-> v]
  <2>1. v \in Nat
    BY ScopeTyped DEF BuilderType
  <2>2. ins \in Instruction /\ ins.op \notin Opening /\ Fits(s, ins)
    BY <1>4, <2>1 DEF Instruction, Opening, Branch, Fits, default_construct
  <2>3. scopes' = Pushed(s, <<ins>>) /\ building' = s /\ calls' = calls
    BY <1>4 DEF default_construct
  <2> QED
    BY <2>2, <2>3 DEF PushesIn
<1>5. ASSUME NEW op \in Operations, PushLeaf(s, op)
      PROVE  /\ calls' = calls + 1 /\ calls < MaxCalls
             /\ \E ins \in Instruction : Fits(s, ins) /\ PushesIn(s, ins)
  <2> DEFINE ins == [op |-> op, arg |-> 0]
  <2>1. ins \in Instruction /\ ins.op \notin Opening /\ Fits(s, ins)
    BY <1>5 DEF Instruction, Opening, Branch, PushLeaf, Fits
  <2>2. scopes' = Pushed(s, <<ins>>) /\ building' = s /\ calls' = calls + 1 /\ calls < MaxCalls
    BY <1>5 DEF PushLeaf, Writes
  <2> QED
    BY <2>1, <2>2 DEF PushesIn
<1>6. ASSUME NEW op \in Operations, Open(s, op)
      PROVE  /\ calls' = calls + 1 /\ calls < MaxCalls
             /\ \E ins \in Instruction : Fits(s, ins) /\ OpensIn(s, ins)
  <2> DEFINE ins == [op |-> op, arg |-> Len(scopes) + 1]
  <2>1. Len(scopes) + 1 \in Nat
    BY DEF BuilderType
  <2>2. ins \in Instruction /\ ins.op \in Opening /\ Fits(s, ins)
    BY <1>6, <2>1 DEF Instruction, Opening, Open, MayOpen, Branch, Fits
  <2>3. /\ calls' = calls + 1 /\ calls < MaxCalls /\ building' = Len(scopes) + 1
        /\ scopes' = Append(Pushed(s, <<ins>>),
                            [parent_scope |-> s, opener |-> Len(instructions(s)) + 1,
                             instructions |-> <<>>])
    BY <1>6 DEF Open, Writes
  <2> HIDE DEF ins
  <2>4. ins.arg = Len(scopes) + 1
    BY DEF ins
  <2> QED
    BY <2>2, <2>3, <2>4 DEF OpensIn
<1> QED
  BY <1>1, <1>2, <1>3, <1>4, <1>5, <1>6

\* What a step of the user leaves of the scopes there are.
LEMMA BuildKeeps ==
  ASSUME BuilderType, NEW s \in DOMAIN scopes, NEW ins \in Instruction,
         PushesIn(s, ins) \/ OpensIn(s, ins)
  PROVE  /\ BuilderType' \/ calls' \notin 0 .. MaxCalls
         /\ ins.op \notin Opening => DOMAIN scopes' = DOMAIN scopes
         /\ ins.op \in Opening =>
              /\ DOMAIN scopes' = DOMAIN scopes \cup {Len(scopes) + 1}
              /\ scopes'[Len(scopes) + 1].parent_scope = s
              /\ scopes'[Len(scopes) + 1].opener = Len(instructions(s)) + 1
              /\ scopes'[Len(scopes) + 1].instructions = <<>>
              /\ Len(scopes') = Len(scopes) + 1
         /\ ins.op \notin Opening => Len(scopes') = Len(scopes)
         /\ \A c \in DOMAIN scopes :
              /\ scopes'[c].parent_scope = scopes[c].parent_scope
              /\ scopes'[c].opener = scopes[c].opener
              /\ c # s => scopes'[c].instructions = instructions(c)
         /\ scopes'[s].instructions = Append(instructions(s), ins)
<1> DEFINE old == Pushed(s, <<ins>>)
           new == [parent_scope |-> s, opener |-> Len(instructions(s)) + 1, instructions |-> <<>>]
<1>1. /\ old \in Seq(Scope) /\ DOMAIN old = DOMAIN scopes /\ Len(old) = Len(scopes)
      /\ \A c \in DOMAIN scopes : /\ old[c].parent_scope = scopes[c].parent_scope
                                  /\ old[c].opener = scopes[c].opener
                                  /\ c # s => old[c] = scopes[c]
      /\ old[s].instructions = Append(instructions(s), ins)
  <2> HIDE DEF old, Instruction, Scope
  <2>1. scopes \in Seq(Scope)
    BY DEF BuilderType
  <2> QED
    BY <2>1, PushedIs, Zenon DEF old
<1>2. /\ DOMAIN scopes = 1 .. Len(scopes) /\ Len(scopes) \in Nat /\ s \in Nat
      /\ Len(instructions(s)) \in Nat
  BY ScopeTyped DEF BuilderType
<1> HIDE DEF old
<1>3. CASE PushesIn(s, ins)
  <2>1. scopes' = old /\ building' = s /\ ins.op \notin Opening
    BY <1>3 DEF PushesIn, old
  <2>2. BuilderType' \/ calls' \notin 0 .. MaxCalls
    BY <1>1, <2>1 DEF BuilderType
  <2> QED
    BY <1>1, <2>1, <2>2 DEF instructions
<1>4. CASE OpensIn(s, ins)
  <2>1. scopes' = Append(old, new) /\ building' = Len(scopes) + 1 /\ ins.op \in Opening
    BY <1>4 DEF OpensIn, old
  <2>2. new \in Scope
    <3>1. <<>> \in Seq(Instruction)
      OBVIOUS
    <3> QED
      BY <1>2, <3>1 DEF Scope
  <2> HIDE DEF new
  <2>3. /\ Append(old, new) \in Seq(Scope) /\ Len(Append(old, new)) = Len(scopes) + 1
        /\ DOMAIN Append(old, new) = DOMAIN scopes \cup {Len(scopes) + 1}
        /\ \A c \in DOMAIN scopes : Append(old, new)[c] = old[c]
        /\ Append(old, new)[Len(scopes) + 1] = new
    <3>1. /\ Append(old, new) \in Seq(Scope) /\ Len(Append(old, new)) = Len(old) + 1
          /\ DOMAIN Append(old, new) = DOMAIN old \cup {Len(old) + 1}
          /\ \A k \in DOMAIN old : Append(old, new)[k] = old[k]
          /\ Append(old, new)[Len(old) + 1] = new
      <4>1. old \in Seq(Scope)
        BY <1>1
      <4> HIDE DEF Scope
      <4> QED
        BY <2>2, <4>1, Appended
    <3>2. Len(old) = Len(scopes) /\ DOMAIN old = DOMAIN scopes
      BY <1>1
    <3> QED
      BY <3>1, <3>2, Zenon
  <2>4. BuilderType' \/ calls' \notin 0 .. MaxCalls
    BY <1>2, <2>1, <2>3 DEF BuilderType
  <2>5. DOMAIN scopes' = DOMAIN scopes \cup {Len(scopes) + 1}
    BY <1>2, <2>1, <2>3
  <2>6. \A c \in DOMAIN scopes : scopes'[c] = old[c]
    BY <1>2, <2>1, <2>3
  <2>7. scopes'[Len(scopes) + 1] = new /\ Len(scopes') = Len(scopes) + 1
    BY <2>1, <2>3
  <2>8. /\ scopes'[Len(scopes) + 1].parent_scope = s
        /\ scopes'[Len(scopes) + 1].opener = Len(instructions(s)) + 1
        /\ scopes'[Len(scopes) + 1].instructions = <<>>
    BY <2>7 DEF new
  <2>9. \A c \in DOMAIN scopes :
              /\ scopes'[c].parent_scope = scopes[c].parent_scope
              /\ scopes'[c].opener = scopes[c].opener
              /\ c # s => scopes'[c].instructions = instructions(c)
    BY <1>1, <2>6 DEF instructions
  <2>10. scopes'[s].instructions = Append(instructions(s), ins)
    BY <1>1, <2>6
  <2> QED
    BY <2>1, <2>4, <2>5, <2>7, <2>8, <2>9, <2>10
<1> QED
  BY <1>3, <1>4

LEMMA BuildTree ==
  ASSUME BuilderType, TreeInv, Build
  PROVE  BuilderType' /\ TreeInv'
<1>1. PICK s \in DOMAIN scopes, ins \in Instruction : PushesIn(s, ins) \/ OpensIn(s, ins)
  BY BuildSteps
<1>2. calls' \in 0 .. MaxCalls /\ calls' >= calls /\ calls \in Nat
  BY BuildSteps DEF BuilderType
<1> DEFINE new == Len(scopes) + 1
           last == Len(instructions(s)) + 1
<1>3. BuilderType'
  BY <1>1, <1>2, BuildKeeps
<1>4. /\ ins.op \notin Opening => DOMAIN scopes' = DOMAIN scopes /\ Len(scopes') = Len(scopes)
      /\ ins.op \in Opening =>
              /\ DOMAIN scopes' = DOMAIN scopes \cup {new}
              /\ scopes'[new].parent_scope = s
              /\ scopes'[new].opener = last
              /\ scopes'[new].instructions = <<>>
              /\ Len(scopes') = Len(scopes) + 1
      /\ \A c \in DOMAIN scopes :
              /\ scopes'[c].parent_scope = scopes[c].parent_scope
              /\ scopes'[c].opener = scopes[c].opener
              /\ c # s => scopes'[c].instructions = instructions(c)
      /\ scopes'[s].instructions = Append(instructions(s), ins)
  BY <1>1, BuildKeeps
<1>5. /\ \A c \in DOMAIN scopes : /\ c \in Nat \ {0} /\ c <= Len(scopes)
                                  /\ DOMAIN instructions(c) = 1 .. Len(instructions(c))
                                  /\ Len(instructions(c)) \in Nat
                                  /\ instructions(c) \in Seq(Instruction)
      /\ Len(scopes) \in Nat /\ DOMAIN scopes = 1 .. Len(scopes)
  BY ScopeTyped DEF BuilderType
<1>6. /\ DOMAIN Append(instructions(s), ins) = DOMAIN instructions(s) \cup {last}
      /\ \A k \in DOMAIN instructions(s) : Append(instructions(s), ins)[k] = instructions(s)[k]
      /\ Append(instructions(s), ins)[last] = ins
  BY <1>5, Appended
<1>7. ASSUME NEW c \in DOMAIN scopes, NEW k \in DOMAIN instructions(c)
      PROVE  k \in DOMAIN scopes'[c].instructions
             /\ scopes'[c].instructions[k] = instructions(c)[k]
  BY <1>4, <1>6, <1>7
<1>8. ins.op \in Opening => ins.arg = new /\ calls' = calls + 1
  BY <1>1 DEF OpensIn, PushesIn
<1>9. main \in DOMAIN scopes' /\ scopes'[main].parent_scope = 0 /\ Len(scopes') <= calls' + 1
  <2>1. main \in DOMAIN scopes /\ scopes[main].parent_scope = 0 /\ Len(scopes) <= calls + 1
    BY DEF TreeInv
  <2> QED
    BY <1>2, <1>4, <1>5, <1>8, <2>1
<1>10. ASSUME NEW c \in DOMAIN scopes' \ {main} PROVE ParentInv(c)'
  <2>1. CASE c \in DOMAIN scopes
    <3> DEFINE p == scopes[c].parent_scope
    <3>1. /\ p \in DOMAIN scopes /\ p < c /\ scopes[c].opener \in DOMAIN instructions(p)
          /\ instructions(p)[scopes[c].opener].op \in Opening
          /\ instructions(p)[scopes[c].opener].arg = c
      BY <2>1 DEF TreeInv, ParentInv, opener
    <3>2. scopes'[c].parent_scope = p /\ scopes'[c].opener = scopes[c].opener
      BY <1>4, <2>1
    <3>3. scopes[c].opener \in DOMAIN scopes'[p].instructions
          /\ scopes'[p].instructions[scopes[c].opener] = instructions(p)[scopes[c].opener]
      BY <1>7, <3>1
    <3>4. p \in DOMAIN scopes'
      BY <1>4, <3>1
    <3> HIDE DEF p
    <3> QED
      BY <3>1, <3>2, <3>3, <3>4 DEF ParentInv, opener, instructions
  <2>2. CASE c \notin DOMAIN scopes
    <3>1. c = new /\ ins.op \in Opening
      BY <1>4, <2>2
    <3>2. scopes'[c].parent_scope = s /\ scopes'[c].opener = last /\ s \in DOMAIN scopes' /\ s < c
      BY <1>4, <1>5, <3>1
    <3>3. last \in DOMAIN scopes'[s].instructions /\ scopes'[s].instructions[last] = ins
      BY <1>4, <1>6
    <3> HIDE DEF new, last
    <3> QED
      BY <1>8, <3>1, <3>2, <3>3 DEF ParentInv, opener, instructions
  <2> QED
    BY <2>1, <2>2
<1>11. ASSUME NEW c \in DOMAIN scopes', NEW k \in DOMAIN scopes'[c].instructions
       PROVE  ChildInv(c, k)'
  <2> DEFINE a == scopes'[c].instructions[k]
  <2> SUFFICES ASSUME a.op \in Opening
               PROVE  /\ a.arg \in DOMAIN scopes' \ {main} /\ scopes'[a.arg].parent_scope = c
                      /\ scopes'[a.arg].opener = k
    BY DEF ChildInv, instructions
  <2>1. CASE c \in DOMAIN scopes /\ k \in DOMAIN instructions(c)
    <3>1. a = instructions(c)[k]
      BY <1>7, <2>1
    <3>2. a.arg \in DOMAIN scopes \ {main} /\ scopes[a.arg].parent_scope = c /\ scopes[a.arg].opener = k
      BY <2>1, <3>1 DEF TreeInv, ChildInv
    <3> HIDE DEF a
    <3> QED
      BY <1>4, <3>2
  <2>2. CASE c \in DOMAIN scopes /\ k \notin DOMAIN instructions(c)
    <3>1. c = s /\ k = last /\ a = ins
      BY <1>4, <1>6, <2>2
    <3>2. main < new
      BY <1>5 DEF TreeInv, main
    <3> HIDE DEF a, new, last
    <3> QED
      BY <1>4, <1>8, <3>1, <3>2
  <2>3. CASE c \notin DOMAIN scopes
    <3>1. scopes'[c].instructions = <<>>
      BY <1>4, <2>3
    <3> QED
      BY <3>1
  <2> QED
    BY <2>1, <2>2, <2>3
<1> QED
  BY <1>3, <1>9, <1>10, <1>11 DEF TreeInv, instructions

LEMMA InitTree == BuilderInit => BuilderType /\ TreeInv
<1> SUFFICES ASSUME BuilderInit PROVE BuilderType /\ TreeInv
  OBVIOUS
<1> DEFINE first == [parent_scope |-> 0, opener |-> 0, instructions |-> <<>>]
<1>1. first \in Scope
  <2>1. <<>> \in Seq(Instruction)
    OBVIOUS
  <2> QED
    BY <2>1 DEF Scope
<1>2. scopes = <<first>> /\ building = 1 /\ calls = 0 /\ MaxCalls \in Nat
  BY BuilderAssumption DEF BuilderInit, main
<1>3. scopes \in Seq(Scope) /\ DOMAIN scopes = {1} /\ Len(scopes) = 1 /\ scopes[1] = first
  <2> HIDE DEF first, Scope
  <2> QED
    BY <1>1, <1>2
<1>4. scopes[1].parent_scope = 0 /\ instructions(1) = <<>>
  BY <1>3 DEF instructions
<1>5. \A s \in DOMAIN scopes : DOMAIN instructions(s) = {}
  BY <1>3, <1>4
<1> QED
  BY <1>2, <1>3, <1>4, <1>5 DEF BuilderType, TreeInv, main

-----------------------------------------------------------------------------
(* The stack of scopes.                                                    *)

Frame == [scope : DOMAIN scopes, iterating : Nat]

\* Each scope was opened by the instruction the next one is at, the last is the function's.
OpenedAt(c, f) == c # main /\ scopes[c].parent_scope = f.scope /\ scopes[c].opener = f.iterating
StackInv(st) ==
  /\ st \in Seq(Frame)
  /\ \A k \in DOMAIN st : st[k].iterating <= Len(instructions(st[k].scope))
  /\ \A k \in DOMAIN st : k + 1 \in DOMAIN st => OpenedAt(st[k].scope, st[k + 1])
  /\ \A j, k \in DOMAIN st : j < k => st[k].scope < st[j].scope
  /\ st # <<>> => st[Len(st)].scope = main

\* The three things that happen to the stack: its top moves on, opens a scope, or ends.
Moved(f) == [scope |-> f.scope, iterating |-> f.iterating + 1]
Moves(st, st2) == st # <<>> /\ st2 = <<Moved(Head(st))>> \o Tail(st)
Enters(st, c, st2) ==
  st # <<>> /\ st2 = <<[scope |-> c, iterating |-> 0], Moved(Head(st))>> \o Tail(st)
Ended(st, st2) == st # <<>> /\ st2 = Tail(st)

LEMMA Stacked ==
  ASSUME NEW S, NEW st \in Seq(S), st # <<>>, NEW x \in S, NEW y \in S
  PROVE  /\ Len(st) \in Nat \ {0} /\ DOMAIN st = 1 .. Len(st) /\ Head(st) = st[1] /\ st[1] \in S
         /\ Tail(st) \in Seq(S) /\ Len(Tail(st)) = Len(st) - 1
         /\ DOMAIN Tail(st) = 1 .. Len(st) - 1
         /\ \A k \in 1 .. Len(st) - 1 : Tail(st)[k] = st[k + 1]
         /\ <<x>> \o Tail(st) \in Seq(S) /\ DOMAIN (<<x>> \o Tail(st)) = 1 .. Len(st)
         /\ Len(<<x>> \o Tail(st)) = Len(st)
         /\ (<<x>> \o Tail(st))[1] = x
         /\ \A k \in 2 .. Len(st) : (<<x>> \o Tail(st))[k] = st[k]
         /\ <<y, x>> \o Tail(st) \in Seq(S) /\ DOMAIN (<<y, x>> \o Tail(st)) = 1 .. Len(st) + 1
         /\ Len(<<y, x>> \o Tail(st)) = Len(st) + 1
         /\ (<<y, x>> \o Tail(st))[1] = y /\ (<<y, x>> \o Tail(st))[2] = x
         /\ \A k \in 2 .. Len(st) : (<<y, x>> \o Tail(st))[k + 1] = st[k]
<1>1. /\ Len(st) \in Nat \ {0} /\ DOMAIN st = 1 .. Len(st) /\ Head(st) = st[1] /\ st[1] \in S
      /\ Tail(st) \in Seq(S) /\ Len(Tail(st)) = Len(st) - 1
      /\ DOMAIN Tail(st) = 1 .. Len(st) - 1
      /\ \A k \in 1 .. Len(st) - 1 : Tail(st)[k] = st[k + 1]
  OBVIOUS
<1>2. /\ <<x>> \in Seq(S) /\ Len(<<x>>) = 1 /\ <<x>>[1] = x
      /\ <<y, x>> \in Seq(S) /\ Len(<<y, x>>) = 2 /\ <<y, x>>[1] = y /\ <<y, x>>[2] = x
  OBVIOUS
<1> DEFINE a == <<x>>
           b == <<y, x>>
           t == Tail(st)
<1>3. /\ a \in Seq(S) /\ Len(a) = 1 /\ a[1] = x /\ b \in Seq(S) /\ Len(b) = 2
      /\ b[1] = y /\ b[2] = x /\ t \in Seq(S) /\ Len(t) = Len(st) - 1 /\ Len(st) - 1 \in Nat
      /\ \A k \in 1 .. Len(st) - 1 : t[k] = st[k + 1]
  BY <1>1, <1>2
<1> HIDE DEF a, b, t
<1>4. /\ a \o t \in Seq(S) /\ DOMAIN (a \o t) = 1 .. Len(a) + Len(t)
      /\ Len(a \o t) = Len(a) + Len(t)
      /\ \A k \in 1 .. Len(a) : (a \o t)[k] = a[k]
      /\ \A k \in 1 .. Len(t) : (a \o t)[Len(a) + k] = t[k]
  <2>1. a \in Seq(S) /\ t \in Seq(S)
    BY <1>3
  <2> QED
    BY <2>1, Concatenated
<1>5. /\ b \o t \in Seq(S) /\ DOMAIN (b \o t) = 1 .. Len(b) + Len(t)
      /\ Len(b \o t) = Len(b) + Len(t)
      /\ \A k \in 1 .. Len(b) : (b \o t)[k] = b[k]
      /\ \A k \in 1 .. Len(t) : (b \o t)[Len(b) + k] = t[k]
  <2>1. b \in Seq(S) /\ t \in Seq(S)
    BY <1>3
  <2> QED
    BY <2>1, Concatenated
<1>6. ASSUME NEW k \in 2 .. Len(st) PROVE (a \o t)[k] = st[k] /\ (b \o t)[k + 1] = st[k]
  <2>1. k - 1 \in 1 .. Len(st) - 1 /\ k = 1 + (k - 1) /\ k + 1 = 2 + (k - 1) /\ (k - 1) + 1 = k
    BY <1>1
  <2>2. t[k - 1] = st[k] /\ (a \o t)[1 + (k - 1)] = t[k - 1] /\ (b \o t)[2 + (k - 1)] = t[k - 1]
    BY <1>3, <1>4, <1>5, <2>1
  <2> QED
    BY <2>1, <2>2
<1>7. 1 + (Len(st) - 1) = Len(st) /\ 2 + (Len(st) - 1) = Len(st) + 1
  BY <1>1
<1>8. /\ a \o t \in Seq(S) /\ DOMAIN (a \o t) = 1 .. Len(st) /\ Len(a \o t) = Len(st)
      /\ (a \o t)[1] = x
      /\ b \o t \in Seq(S) /\ DOMAIN (b \o t) = 1 .. Len(st) + 1 /\ Len(b \o t) = Len(st) + 1
      /\ (b \o t)[1] = y /\ (b \o t)[2] = x
  BY <1>3, <1>4, <1>5, <1>7
<1>9. /\ <<x>> \o Tail(st) \in Seq(S) /\ DOMAIN (<<x>> \o Tail(st)) = 1 .. Len(st)
      /\ Len(<<x>> \o Tail(st)) = Len(st) /\ (<<x>> \o Tail(st))[1] = x
      /\ \A k \in 2 .. Len(st) : (<<x>> \o Tail(st))[k] = st[k]
  BY <1>6, <1>8, Zenon DEF a, t
<1>10. /\ <<y, x>> \o Tail(st) \in Seq(S) /\ DOMAIN (<<y, x>> \o Tail(st)) = 1 .. Len(st) + 1
       /\ Len(<<y, x>> \o Tail(st)) = Len(st) + 1
       /\ (<<y, x>> \o Tail(st))[1] = y /\ (<<y, x>> \o Tail(st))[2] = x
       /\ \A k \in 2 .. Len(st) : (<<y, x>> \o Tail(st))[k + 1] = st[k]
  BY <1>6, <1>8, Zenon DEF b, t
<1> HIDE DEF a, b, t
<1> QED
  BY <1>1, <1>9, <1>10, Zenon

\* The top of the stack, at its next instruction.
LEMMA TopIs ==
  ASSUME BuilderType, NEW st, StackInv(st), st # <<>>
  PROVE  /\ Head(st) = st[1] /\ Len(st) \in Nat \ {0} /\ DOMAIN st = 1 .. Len(st)
         /\ st[1].scope \in DOMAIN scopes /\ st[1].iterating \in Nat
         /\ st[1].iterating <= Len(instructions(st[1].scope))
         /\ st[1] = [scope |-> st[1].scope, iterating |-> st[1].iterating]
         /\ Moved(st[1]) \in Frame
         /\ \A k \in DOMAIN st : st[k] \in Frame /\ st[k].scope \in DOMAIN scopes
                                 /\ st[k].iterating \in Nat
<1>1. st \in Seq(Frame)
  BY DEF StackInv
<1> HIDE DEF Frame
<1>2. /\ Head(st) = st[1] /\ Len(st) \in Nat \ {0} /\ DOMAIN st = 1 .. Len(st)
      /\ \A k \in DOMAIN st : st[k] \in Frame
  BY <1>1
<1>3. \A f \in Frame : /\ f.scope \in DOMAIN scopes /\ f.iterating \in Nat /\ Moved(f) \in Frame
                       /\ f = [scope |-> f.scope, iterating |-> f.iterating]
  BY DEF Frame, Moved
<1> QED
  BY <1>2, <1>3 DEF StackInv

LEMMA MovesStack ==
  ASSUME BuilderType, NEW st, StackInv(st), NEW st2, Moves(st, st2),
         st[1].iterating < Len(instructions(st[1].scope))
  PROVE  StackInv(st2)
<1>1. st # <<>> /\ st \in Seq(Frame)
  BY DEF Moves, StackInv
<1> DEFINE m == Moved(st[1])
           s == st[1].scope
<1>2. /\ st2 = <<m>> \o Tail(st) /\ m \in Frame /\ m.scope = s /\ m.iterating = st[1].iterating + 1
      /\ Len(instructions(s)) \in Nat /\ st[1].iterating \in Nat
      /\ Len(st) \in Nat \ {0} /\ DOMAIN st = 1 .. Len(st)
  BY <1>1, TopIs, ScopeTyped DEF Moves, Moved, BuilderType
<1> HIDE DEF m
<1>3. /\ st2 \in Seq(Frame) /\ DOMAIN st2 = DOMAIN st /\ Len(st2) = Len(st)
      /\ st2[1] = m /\ \A k \in 2 .. Len(st) : st2[k] = st[k]
  BY <1>1, <1>2, Stacked
<1>4. \A k \in DOMAIN st : k # 1 => k \in 2 .. Len(st) /\ st2[k] = st[k]
  BY <1>2, <1>3
<1>5. \A k \in DOMAIN st : st2[k].scope = st[k].scope
  BY <1>2, <1>3, <1>4
<1>6. \A k \in DOMAIN st : st2[k].iterating <= Len(instructions(st2[k].scope))
  BY <1>2, <1>3, <1>4 DEF StackInv
<1>7. ASSUME NEW k \in DOMAIN st, k + 1 \in DOMAIN st PROVE OpenedAt(st2[k].scope, st2[k + 1])
  <2>1. st2[k + 1] = st[k + 1] /\ st2[k].scope = st[k].scope
    BY <1>2, <1>4, <1>5, <1>7
  <2> QED
    BY <1>7, <2>1 DEF StackInv
<1>8. /\ \A j, k \in DOMAIN st : j < k => st2[k].scope < st2[j].scope
      /\ st2[Len(st)].scope = main
  BY <1>1, <1>2, <1>5 DEF StackInv
<1> QED
  BY <1>3, <1>6, <1>7, <1>8 DEF StackInv

LEMMA EntersStack ==
  ASSUME BuilderType, TreeInv, NEW st, StackInv(st), NEW c, NEW st2, Enters(st, c, st2),
         NEW n, n = st[1].iterating + 1, n \in DOMAIN instructions(st[1].scope),
         instructions(st[1].scope)[n].op \in Opening, instructions(st[1].scope)[n].arg = c
  PROVE  /\ StackInv(st2)
         /\ c \in DOMAIN scopes \ {main} /\ scopes[c].parent_scope = st[1].scope
         /\ scopes[c].opener = n /\ opener(c) = instructions(st[1].scope)[n]
         /\ \A k \in DOMAIN st : st[k].scope < c
<1>1. st # <<>> /\ st \in Seq(Frame)
  BY DEF Enters, StackInv
<1> DEFINE m == Moved(st[1])
           s == st[1].scope
           f == [scope |-> c, iterating |-> 0]
<1>2. /\ st2 = <<f, m>> \o Tail(st) /\ m \in Frame /\ m.scope = s /\ m.iterating = n
      /\ s \in DOMAIN scopes /\ Len(instructions(s)) \in Nat /\ n <= Len(instructions(s))
      /\ Len(st) \in Nat \ {0} /\ DOMAIN st = 1 .. Len(st)
  <2>1. /\ Head(st) = st[1] /\ Len(st) \in Nat \ {0} /\ DOMAIN st = 1 .. Len(st)
        /\ s \in DOMAIN scopes /\ m \in Frame
    BY <1>1, TopIs
  <2>2. DOMAIN instructions(s) = 1 .. Len(instructions(s)) /\ Len(instructions(s)) \in Nat
    BY <2>1, ScopeTyped DEF BuilderType
  <2>3. m.scope = s /\ m.iterating = n
    BY DEF Moved
  <2>4. st2 = <<f, m>> \o Tail(st)
    BY <2>1 DEF Enters
  <2> QED
    BY <2>1, <2>2, <2>3, <2>4
<1>3. c \in DOMAIN scopes \ {main} /\ scopes[c].parent_scope = s /\ scopes[c].opener = n
  BY <1>2 DEF TreeInv, ChildInv
<1>4. s < c /\ opener(c) = instructions(s)[n]
  BY <1>3 DEF TreeInv, ParentInv, opener
<1>5. f \in Frame /\ f.scope = c /\ f.iterating = 0
  BY <1>3 DEF Frame
<1>6. ASSUME NEW k \in DOMAIN st, k # 1 PROVE k \in 2 .. Len(st) /\ st[k].scope < s
  <2>1. 1 \in DOMAIN st /\ 1 < k /\ k \in 2 .. Len(st)
    BY <1>2, <1>6
  <2> QED
    BY <2>1 DEF StackInv
<1> HIDE DEF m, f
<1>7. \A k \in DOMAIN scopes : k \in Nat
  BY ScopeTyped DEF BuilderType
<1>8. \A k \in DOMAIN st : st[k].scope < c
  <2>1. \A k \in DOMAIN st : st[k].scope \in Nat
    BY <1>1, <1>7, TopIs
  <2> QED
    BY <1>2, <1>3, <1>4, <1>6, <1>7, <2>1
<1>9. /\ st2 \in Seq(Frame) /\ DOMAIN st2 = 1 .. Len(st) + 1 /\ Len(st2) = Len(st) + 1
      /\ st2[1] = f /\ st2[2] = m /\ \A k \in 2 .. Len(st) : st2[k + 1] = st[k]
  BY <1>1, <1>2, <1>5, Stacked
<1>10. ASSUME NEW k \in DOMAIN st PROVE st2[k + 1].scope = st[k].scope
  <2>1. CASE k = 1
    <3>1. st2[1 + 1] = m
      BY <1>9
    <3> QED
      BY <1>2, <2>1, <3>1
  <2>2. CASE k # 1
    BY <1>6, <1>9, <2>2
  <2> QED
    BY <2>1, <2>2
<1>11. ASSUME NEW k \in DOMAIN st2, k # 1 PROVE k - 1 \in DOMAIN st /\ k = (k - 1) + 1
  BY <1>2, <1>9, <1>11
<1>12. ASSUME NEW k \in DOMAIN st2 PROVE st2[k].iterating <= Len(instructions(st2[k].scope))
  <2>1. CASE k = 1
    BY <1>3, <1>5, <1>9, <2>1, ScopeTyped DEF BuilderType
  <2>2. CASE k = 2
    BY <1>2, <1>9, <2>2
  <2>3. CASE k \notin {1, 2}
    <3>1. k - 1 \in 2 .. Len(st) /\ st2[k] = st[k - 1] /\ k - 1 \in DOMAIN st
      BY <1>2, <1>9, <2>3
    <3> QED
      BY <3>1 DEF StackInv
  <2> QED
    BY <2>1, <2>2, <2>3
<1>13. ASSUME NEW k \in DOMAIN st2, k + 1 \in DOMAIN st2 PROVE OpenedAt(st2[k].scope, st2[k + 1])
  <2>1. CASE k = 1
    BY <1>2, <1>3, <1>5, <1>9, <2>1 DEF OpenedAt
  <2>2. CASE k # 1
    <3>1. k - 1 \in DOMAIN st /\ st2[k].scope = st[k - 1].scope
      BY <1>10, <1>11, <2>2
    <3>2. k \in 2 .. Len(st) /\ st2[k + 1] = st[k] /\ k \in DOMAIN st /\ (k - 1) + 1 = k
      BY <1>2, <1>9, <1>13, <2>2
    <3>3. OpenedAt(st[k - 1].scope, st[(k - 1) + 1])
      BY <3>1, <3>2 DEF StackInv
    <3> QED
      BY <3>1, <3>2, <3>3
  <2> QED
    BY <2>1, <2>2
<1>14. ASSUME NEW j \in DOMAIN st2, NEW k \in DOMAIN st2, j < k PROVE st2[k].scope < st2[j].scope
  <2>1. k - 1 \in DOMAIN st /\ st2[k].scope = st[k - 1].scope
    BY <1>9, <1>10, <1>11, <1>14
  <2>2. CASE j = 1
    BY <1>5, <1>8, <1>9, <2>1, <2>2
  <2>3. CASE j # 1
    <3>1. j - 1 \in DOMAIN st /\ st2[j].scope = st[j - 1].scope /\ j - 1 < k - 1
      BY <1>9, <1>10, <1>11, <1>14, <2>3
    <3> QED
      BY <2>1, <3>1 DEF StackInv
  <2> QED
    BY <2>2, <2>3
<1>15. st2[Len(st) + 1].scope = main
  BY <1>1, <1>2, <1>10 DEF StackInv
<1> QED
  BY <1>3, <1>4, <1>8, <1>9, <1>12, <1>13, <1>14, <1>15 DEF StackInv

LEMMA EndsStack ==
  ASSUME BuilderType, NEW st, StackInv(st), NEW st2, Ended(st, st2)
  PROVE  /\ StackInv(st2)
         /\ DOMAIN st2 = 1 .. Len(st) - 1 /\ \A k \in DOMAIN st2 : st2[k] = st[k + 1]
         /\ st[1].scope # main => /\ st2 # <<>> /\ st2[1] \in Frame /\ 1 \in DOMAIN st2
                                  /\ OpenedAt(st[1].scope, st2[1])
<1>1. st # <<>> /\ st \in Seq(Frame)
  BY DEF Ended, StackInv
<1>2. /\ st2 = Tail(st) /\ st2 \in Seq(Frame) /\ Len(st2) = Len(st) - 1
      /\ DOMAIN st2 = 1 .. Len(st) - 1 /\ \A k \in DOMAIN st2 : st2[k] = st[k + 1]
      /\ DOMAIN st = 1 .. Len(st) /\ Len(st) \in Nat \ {0}
  <2> HIDE DEF Frame
  <2> QED
    BY <1>1 DEF Ended
<1>3. \A k \in DOMAIN st2 : k + 1 \in DOMAIN st
  BY <1>2
<1>4. \A k \in DOMAIN st2 : st2[k].iterating <= Len(instructions(st2[k].scope))
  BY <1>2, <1>3 DEF StackInv
<1>5. \A k \in DOMAIN st2 : k + 1 \in DOMAIN st2 => OpenedAt(st2[k].scope, st2[k + 1])
  BY <1>2, <1>3 DEF StackInv
<1>6. \A j, k \in DOMAIN st2 : j < k => st2[k].scope < st2[j].scope
  BY <1>2, <1>3 DEF StackInv
<1>7. st2 # <<>> => st2[Len(st2)].scope = main
  <2> SUFFICES ASSUME st2 # <<>> PROVE st2[Len(st2)].scope = main
    OBVIOUS
  <2>1. Len(st2) \in DOMAIN st2 /\ Len(st2) + 1 = Len(st)
    BY <1>2
  <2>2. st[Len(st)].scope = main
    BY <1>1 DEF StackInv
  <2> QED
    BY <1>2, <2>1, <2>2
<1>8. ASSUME st[1].scope # main
      PROVE  /\ st2 # <<>> /\ st2[1] \in Frame /\ 1 \in DOMAIN st2 /\ OpenedAt(st[1].scope, st2[1])
  <2>1. Len(st) # 1
    BY <1>1, <1>8 DEF StackInv
  <2>2. 1 \in DOMAIN st2 /\ 1 \in DOMAIN st /\ 1 + 1 \in DOMAIN st
    BY <1>2, <2>1
  <2>3. st2[1] = st[1 + 1] /\ OpenedAt(st[1].scope, st[1 + 1])
    BY <1>2, <2>2 DEF StackInv
  <2>4. st2[1] \in Frame /\ st2 # <<>>
    <3>1. st2[1] \in Frame
      <4> HIDE DEF Frame
      <4> QED
        BY <1>2, <2>2
    <3>2. st2 # <<>>
      <4>1. Len(st2) # 0
        BY <1>2, <2>1
      <4>2. Len(<<>>) = 0
        OBVIOUS
      <4> QED
        BY <4>1, <4>2, Zenon
    <3> QED
      BY <3>1, <3>2
  <2> QED
    BY <2>2, <2>3, <2>4
<1> QED
  BY <1>2, <1>4, <1>5, <1>6, <1>7, <1>8 DEF StackInv

LEMMA MovesIs ==
  ASSUME BuilderType, NEW st, StackInv(st), NEW st2, Moves(st, st2)
  PROVE  /\ DOMAIN st2 = DOMAIN st /\ Len(st2) = Len(st) /\ 1 \in DOMAIN st
         /\ st2[1].scope = st[1].scope /\ st2[1].iterating = st[1].iterating + 1
         /\ \A k \in DOMAIN st : k # 1 => st2[k] = st[k]
         /\ \A k \in DOMAIN st : st2[k].scope = st[k].scope
<1>1. st # <<>> /\ st \in Seq(Frame)
  BY DEF Moves, StackInv
<1>2. /\ Head(st) = st[1] /\ Moved(st[1]) \in Frame /\ Len(st) \in Nat \ {0}
      /\ DOMAIN st = 1 .. Len(st)
  BY <1>1, TopIs
<1>3. /\ st2 = <<Moved(st[1])>> \o Tail(st) /\ DOMAIN st2 = DOMAIN st /\ Len(st2) = Len(st)
      /\ st2[1] = Moved(st[1]) /\ \A k \in 2 .. Len(st) : st2[k] = st[k]
  BY <1>1, <1>2, Stacked DEF Moves
<1>4. st2[1].scope = st[1].scope /\ st2[1].iterating = st[1].iterating + 1
  BY <1>3 DEF Moved
<1>5. \A k \in DOMAIN st : k # 1 => k \in 2 .. Len(st)
  BY <1>2
<1> QED
  BY <1>2, <1>3, <1>4, <1>5

LEMMA EntersIs ==
  ASSUME BuilderType, NEW st, StackInv(st), NEW c \in DOMAIN scopes, NEW st2, Enters(st, c, st2)
  PROVE  /\ DOMAIN st2 = 1 .. Len(st) + 1 /\ DOMAIN st = 1 .. Len(st) /\ Len(st) \in Nat \ {0}
         /\ st2[1].scope = c /\ st2[1].iterating = 0
         /\ st2[2].scope = st[1].scope /\ st2[2].iterating = st[1].iterating + 1
         /\ \A k \in 2 .. Len(st) : st2[k + 1] = st[k]
         /\ \A k \in DOMAIN st : st2[k + 1].scope = st[k].scope
<1>1. st # <<>> /\ st \in Seq(Frame)
  BY DEF Enters, StackInv
<1> DEFINE f == [scope |-> c, iterating |-> 0]
           m == Moved(st[1])
<1>2. /\ Head(st) = st[1] /\ m \in Frame /\ Len(st) \in Nat \ {0}
      /\ DOMAIN st = 1 .. Len(st)
  BY <1>1, TopIs
<1>3. f \in Frame
  BY DEF Frame
<1>4. f.scope = c /\ f.iterating = 0 /\ m.scope = st[1].scope /\ m.iterating = st[1].iterating + 1
  BY DEF Moved
<1>5. st2 = <<f, m>> \o Tail(st)
  BY <1>2 DEF Enters
<1> HIDE DEF f, m
<1>6. /\ DOMAIN st2 = 1 .. Len(st) + 1
      /\ st2[1] = f /\ st2[2] = m /\ \A k \in 2 .. Len(st) : st2[k + 1] = st[k]
  BY <1>1, <1>2, <1>3, <1>5, Stacked
<1>7. ASSUME NEW k \in DOMAIN st PROVE st2[k + 1].scope = st[k].scope
  <2>1. CASE k = 1
    <3>1. st2[1 + 1] = m
      BY <1>6
    <3> QED
      BY <1>4, <2>1, <3>1
  <2>2. CASE k # 1
    <3>1. k \in 2 .. Len(st)
      BY <1>2, <2>2
    <3> QED
      BY <1>6, <3>1
  <2> QED
    BY <2>1, <2>2
<1> QED
  BY <1>2, <1>4, <1>6, <1>7

-----------------------------------------------------------------------------
(* The stack of loops.                                                     *)

LoopsOf(st) == { k \in DOMAIN st : IsLoop(st[k].scope) }
Nesting(st, lp, place) ==
  /\ place \in [DOMAIN lp -> LoopsOf(st)]
  /\ \A m, n \in DOMAIN lp : m < n => place[m] < place[n]
  /\ \A k \in LoopsOf(st) : \E n \in DOMAIN lp : place[n] = k
  /\ \A n \in DOMAIN lp : lp[n] = st[place[n]].scope
LoopInv(st, lp) == lp \in Seq(DOMAIN scopes) /\ \E place : Nesting(st, lp, place)

LEMMA MovesLoops ==
  ASSUME BuilderType, NEW st, StackInv(st), NEW st2, Moves(st, st2), NEW lp, LoopInv(st, lp)
  PROVE  LoopInv(st2, lp)
<1>1. DOMAIN st2 = DOMAIN st /\ \A k \in DOMAIN st : st2[k].scope = st[k].scope
  BY MovesIs
<1>2. LoopsOf(st2) = LoopsOf(st)
  BY <1>1 DEF LoopsOf
<1>3. PICK place : Nesting(st, lp, place)
  BY DEF LoopInv
<1>4. \A n \in DOMAIN lp : place[n] \in DOMAIN st
  BY <1>3 DEF Nesting, LoopsOf
<1>5. Nesting(st2, lp, place)
  BY <1>1, <1>2, <1>3, <1>4 DEF Nesting
<1> QED
  BY <1>5 DEF LoopInv

LEMMA EntersLoops ==
  ASSUME BuilderType, NEW st, StackInv(st), NEW c \in DOMAIN scopes, NEW st2, Enters(st, c, st2),
         NEW lp, LoopInv(st, lp), NEW lp2, lp2 = IF IsLoop(c) THEN <<c>> \o lp ELSE lp
  PROVE  LoopInv(st2, lp2)
<1>1. /\ DOMAIN st2 = 1 .. Len(st) + 1 /\ DOMAIN st = 1 .. Len(st) /\ Len(st) \in Nat
      /\ st2[1].scope = c /\ \A k \in DOMAIN st : st2[k + 1].scope = st[k].scope
  BY EntersIs
<1>2. ASSUME NEW k \in DOMAIN st2, k # 1
      PROVE  k - 1 \in DOMAIN st /\ st2[k].scope = st[k - 1].scope /\ (k - 1) + 1 = k
  BY <1>1, <1>2
<1>3. PICK place : Nesting(st, lp, place)
  BY DEF LoopInv
<1>4. /\ lp \in Seq(DOMAIN scopes) /\ DOMAIN lp = 1 .. Len(lp) /\ Len(lp) \in Nat
  BY DEF LoopInv
<1>5. ASSUME NEW n \in DOMAIN lp
      PROVE  /\ place[n] \in DOMAIN st /\ place[n] \in Nat \ {0} /\ place[n] \in LoopsOf(st)
             /\ place[n] + 1 \in LoopsOf(st2) /\ lp[n] = st2[place[n] + 1].scope
             /\ (place[n] + 1) - 1 = place[n]
  <2>1. place[n] \in LoopsOf(st) /\ lp[n] = st[place[n]].scope
    BY <1>3, <1>5 DEF Nesting
  <2>2. place[n] \in DOMAIN st /\ IsLoop(st[place[n]].scope)
    BY <2>1 DEF LoopsOf
  <2>3. place[n] + 1 \in DOMAIN st2 /\ st2[place[n] + 1].scope = st[place[n]].scope
    BY <1>1, <2>2
  <2> QED
    BY <1>1, <2>1, <2>2, <2>3 DEF LoopsOf
<1>6. ASSUME NEW k \in LoopsOf(st2), k # 1 PROVE \E n \in DOMAIN lp : place[n] + 1 = k
  <2>1. k \in DOMAIN st2 /\ IsLoop(st2[k].scope)
    BY DEF LoopsOf
  <2>2. k - 1 \in LoopsOf(st) /\ (k - 1) + 1 = k
    BY <1>2, <1>6, <2>1 DEF LoopsOf
  <2>3. PICK n \in DOMAIN lp : place[n] = k - 1
    BY <1>3, <2>2 DEF Nesting
  <2> QED
    BY <2>2, <2>3
<1>7. CASE ~ IsLoop(c)
  <2> DEFINE p == [n \in DOMAIN lp |-> place[n] + 1]
  <2>1. p \in [DOMAIN lp -> LoopsOf(st2)]
    BY <1>5
  <2>2. \A m, n \in DOMAIN lp : m < n => p[m] < p[n]
    BY <1>3, <1>5 DEF Nesting
  <2>3. \A k \in LoopsOf(st2) : \E n \in DOMAIN lp : p[n] = k
    <3> SUFFICES ASSUME NEW k \in LoopsOf(st2) PROVE \E n \in DOMAIN lp : p[n] = k
      OBVIOUS
    <3>1. k # 1
      BY <1>1, <1>7 DEF LoopsOf
    <3> QED
      BY <1>6, <3>1
  <2>4. \A n \in DOMAIN lp : lp[n] = st2[p[n]].scope
    BY <1>5
  <2> HIDE DEF p
  <2>5. Nesting(st2, lp, p)
    BY <2>1, <2>2, <2>3, <2>4 DEF Nesting
  <2> QED
    BY <1>4, <1>7, <2>5 DEF LoopInv
<1>8. CASE IsLoop(c)
  <2>1. /\ lp2 \in Seq(DOMAIN scopes) /\ DOMAIN lp2 = 1 .. Len(lp) + 1 /\ lp2[1] = c
        /\ \A n \in DOMAIN lp : lp2[n + 1] = lp[n]
    <3>1. <<c>> \in Seq(DOMAIN scopes) /\ Len(<<c>>) = 1 /\ <<c>>[1] = c
      OBVIOUS
    <3>2. lp2 = <<c>> \o lp
      BY <1>8
    <3> DEFINE a == <<c>>
    <3>3. a \in Seq(DOMAIN scopes) /\ Len(a) = 1 /\ a[1] = c /\ lp2 = a \o lp
      BY <3>1, <3>2
    <3> HIDE DEF a
    <3>4. /\ a \o lp \in Seq(DOMAIN scopes) /\ DOMAIN (a \o lp) = 1 .. Len(a) + Len(lp)
          /\ \A k \in 1 .. Len(a) : (a \o lp)[k] = a[k]
          /\ \A k \in 1 .. Len(lp) : (a \o lp)[Len(a) + k] = lp[k]
      BY <1>4, <3>3, Concatenated
    <3>5. ASSUME NEW n \in DOMAIN lp PROVE lp2[n + 1] = lp[n]
      <4>1. n \in 1 .. Len(lp) /\ Len(a) + n = n + 1
        BY <1>4, <3>3
      <4> QED
        BY <3>3, <3>4, <4>1
    <3>6. 1 + Len(lp) = Len(lp) + 1 /\ 1 \in 1 .. 1
      BY <1>4
    <3>7. Len(a) + Len(lp) = Len(lp) + 1
      BY <3>3, <3>6
    <3>8. lp2 \in Seq(DOMAIN scopes) /\ DOMAIN lp2 = 1 .. Len(lp) + 1
      <4>1. lp2 = a \o lp
        BY <3>3
      <4>2. a \o lp \in Seq(DOMAIN scopes) /\ DOMAIN (a \o lp) = 1 .. Len(lp) + 1
        BY <3>4, <3>7
      <4> QED
        BY <4>1, <4>2, Zenon
    <3>9. lp2[1] = c
      BY <3>3, <3>4, <3>6
    <3> QED
      BY <3>5, <3>8, <3>9, Zenon
  <2> DEFINE p == [n \in DOMAIN lp2 |-> IF n = 1 THEN 1 ELSE place[n - 1] + 1]
  <2>2. ASSUME NEW n \in DOMAIN lp2, n # 1
        PROVE  n - 1 \in DOMAIN lp /\ p[n] = place[n - 1] + 1 /\ lp2[n] = lp[n - 1]
    <3>1. n - 1 \in DOMAIN lp /\ (n - 1) + 1 = n
      BY <1>4, <2>1, <2>2
    <3>2. lp2[(n - 1) + 1] = lp[n - 1]
      BY <2>1, <3>1
    <3> QED
      BY <2>2, <3>1, <3>2
  <2>3. 1 \in LoopsOf(st2) /\ 1 \in DOMAIN lp2 /\ p[1] = 1
    BY <1>1, <1>4, <1>8, <2>1 DEF LoopsOf
  <2>4. p \in [DOMAIN lp2 -> LoopsOf(st2)]
    <3>1. \A n \in DOMAIN lp2 : p[n] \in LoopsOf(st2)
      <4> SUFFICES ASSUME NEW n \in DOMAIN lp2 PROVE p[n] \in LoopsOf(st2)
        OBVIOUS
      <4> HIDE DEF p
      <4> QED
        BY <1>5, <2>2, <2>3
    <3>2. p = [n \in DOMAIN lp2 |-> p[n]]
      OBVIOUS
    <3> HIDE DEF p
    <3> QED
      BY <3>1, <3>2
  <2> HIDE DEF p
  <2>5. ASSUME NEW m \in DOMAIN lp2, NEW n \in DOMAIN lp2, m < n PROVE p[m] < p[n]
    <3>1. n # 1 /\ n - 1 \in DOMAIN lp /\ p[n] = place[n - 1] + 1
      BY <2>1, <2>2, <2>5
    <3>2. CASE m = 1
      BY <1>5, <2>3, <3>1, <3>2
    <3>3. CASE m # 1
      <4>1. m - 1 \in DOMAIN lp /\ p[m] = place[m - 1] + 1 /\ m - 1 < n - 1
        BY <2>1, <2>2, <2>5, <3>3
      <4>2. place[m - 1] < place[n - 1]
        BY <1>3, <3>1, <4>1 DEF Nesting
      <4> QED
        BY <1>5, <3>1, <4>1, <4>2
    <3> QED
      BY <3>2, <3>3
  <2>6. ASSUME NEW k \in LoopsOf(st2) PROVE \E n \in DOMAIN lp2 : p[n] = k
    <3>1. CASE k = 1
      BY <2>3, <3>1
    <3>2. CASE k # 1
      <4>1. PICK n \in DOMAIN lp : place[n] + 1 = k
        BY <1>6, <3>2
      <4>2. n + 1 \in DOMAIN lp2 /\ n + 1 # 1 /\ (n + 1) - 1 = n
        BY <1>4, <2>1
      <4>3. p[n + 1] = place[(n + 1) - 1] + 1
        BY <2>2, <4>2
      <4> QED
        BY <4>1, <4>2, <4>3
    <3> QED
      BY <3>1, <3>2
  <2>7. ASSUME NEW n \in DOMAIN lp2 PROVE lp2[n] = st2[p[n]].scope
    <3>1. CASE n = 1
      BY <1>1, <2>1, <2>3, <3>1
    <3>2. CASE n # 1
      BY <1>5, <2>2, <3>2
    <3> QED
      BY <3>1, <3>2
  <2>8. Nesting(st2, lp2, p)
    BY <2>4, <2>5, <2>6, <2>7 DEF Nesting
  <2> QED
    BY <2>1, <2>8 DEF LoopInv
<1> QED
  BY <1>7, <1>8

\* The innermost loop, if there is one, is the first of the stack of loops.
LEMMA InnermostLoop ==
  ASSUME BuilderType, NEW st, StackInv(st), st # <<>>, NEW lp, LoopInv(st, lp)
  PROVE  /\ IsLoop(st[1].scope) => lp # <<>> /\ Head(lp) = st[1].scope
         /\ lp # <<>> => \E k \in DOMAIN st : IsLoop(st[k].scope) /\ Head(lp) = st[k].scope
<1>1. /\ lp \in Seq(DOMAIN scopes) /\ DOMAIN lp = 1 .. Len(lp) /\ Len(lp) \in Nat
      /\ lp # <<>> => Head(lp) = lp[1] /\ 1 \in DOMAIN lp
  BY DEF LoopInv
<1>2. PICK place : Nesting(st, lp, place)
  BY DEF LoopInv
<1>3. DOMAIN st = 1 .. Len(st) /\ Len(st) \in Nat \ {0}
  BY TopIs
<1>4. ASSUME IsLoop(st[1].scope) PROVE lp # <<>> /\ Head(lp) = st[1].scope
  <2>1. 1 \in LoopsOf(st)
    BY <1>3, <1>4 DEF LoopsOf
  <2>2. PICK n \in DOMAIN lp : place[n] = 1
    BY <1>2, <2>1 DEF Nesting
  <2>3. 1 \in DOMAIN lp /\ n \in Nat /\ n >= 1
    BY <1>1, <2>2
  <2>4. place[1] \in DOMAIN st /\ place[1] >= 1
    <3>1. place[1] \in LoopsOf(st)
      BY <1>2, <2>3 DEF Nesting
    <3> QED
      BY <1>3, <3>1 DEF LoopsOf
  <2>5. n = 1
    <3>1. 1 < n => place[1] < place[n]
      BY <1>2, <2>3 DEF Nesting
    <3> QED
      BY <1>3, <2>2, <2>3, <2>4, <3>1
  <2>6. lp # <<>>
    BY <2>3
  <2>7. lp[1] = st[1].scope
    BY <1>2, <2>2, <2>5 DEF Nesting
  <2> QED
    BY <1>1, <2>6, <2>7
<1>5. ASSUME lp # <<>> PROVE \E k \in DOMAIN st : IsLoop(st[k].scope) /\ Head(lp) = st[k].scope
  <2>1. place[1] \in LoopsOf(st) /\ lp[1] = st[place[1]].scope /\ Head(lp) = lp[1]
    BY <1>1, <1>2, <1>5 DEF Nesting
  <2> QED
    BY <2>1 DEF LoopsOf
<1> QED
  BY <1>4, <1>5

LEMMA EndsLoops ==
  ASSUME BuilderType, NEW st, StackInv(st), NEW st2, Ended(st, st2),
         NEW lp, LoopInv(st, lp), NEW lp2, lp2 = IF IsLoop(st[1].scope) THEN Tail(lp) ELSE lp
  PROVE  LoopInv(st2, lp2)
<1>1. /\ DOMAIN st2 = 1 .. Len(st) - 1 /\ \A k \in DOMAIN st2 : st2[k] = st[k + 1]
      /\ st # <<>> /\ DOMAIN st = 1 .. Len(st) /\ Len(st) \in Nat \ {0}
  BY EndsStack, TopIs DEF Ended
<1>2. ASSUME NEW k \in DOMAIN st, k # 1
      PROVE  k - 1 \in DOMAIN st2 /\ st2[k - 1] = st[k] /\ (k - 1) + 1 = k
  <2>1. k - 1 \in DOMAIN st2 /\ (k - 1) + 1 = k
    BY <1>1, <1>2
  <2> QED
    BY <1>1, <2>1
<1>3. PICK place : Nesting(st, lp, place)
  BY DEF LoopInv
<1>4. /\ lp \in Seq(DOMAIN scopes) /\ DOMAIN lp = 1 .. Len(lp) /\ Len(lp) \in Nat
  BY DEF LoopInv
<1>5. ASSUME NEW n \in DOMAIN lp, place[n] # 1
      PROVE  /\ place[n] - 1 \in LoopsOf(st2) /\ lp[n] = st2[place[n] - 1].scope
             /\ place[n] \in Nat
  <2>1. place[n] \in LoopsOf(st) /\ lp[n] = st[place[n]].scope
    BY <1>3, <1>5 DEF Nesting
  <2>2. place[n] \in DOMAIN st /\ IsLoop(st[place[n]].scope)
    BY <2>1 DEF LoopsOf
  <2>3. place[n] - 1 \in DOMAIN st2 /\ st2[place[n] - 1] = st[place[n]]
    BY <1>2, <1>5, <2>2
  <2> QED
    BY <1>1, <2>1, <2>2, <2>3 DEF LoopsOf
<1>6. ASSUME NEW k \in LoopsOf(st2)
      PROVE  \E n \in DOMAIN lp : place[n] = k + 1 /\ place[n] # 1 /\ place[n] - 1 = k
  <2>1. k \in DOMAIN st2 /\ IsLoop(st2[k].scope) /\ st2[k] = st[k + 1] /\ k + 1 \in DOMAIN st
    BY <1>1 DEF LoopsOf
  <2>2. k + 1 \in LoopsOf(st)
    BY <2>1 DEF LoopsOf
  <2>3. PICK n \in DOMAIN lp : place[n] = k + 1
    BY <1>3, <2>2 DEF Nesting
  <2> QED
    BY <1>1, <2>1, <2>3
<1>7. CASE ~ IsLoop(st[1].scope)
  <2>1. \A n \in DOMAIN lp : place[n] # 1
    BY <1>3, <1>7 DEF Nesting, LoopsOf
  <2> DEFINE p == [n \in DOMAIN lp |-> place[n] - 1]
  <2>2. p \in [DOMAIN lp -> LoopsOf(st2)]
    BY <1>5, <2>1
  <2>3. \A m, n \in DOMAIN lp : m < n => p[m] < p[n]
    BY <1>3, <1>5, <2>1 DEF Nesting
  <2>4. \A k \in LoopsOf(st2) : \E n \in DOMAIN lp : p[n] = k
    BY <1>6
  <2>5. \A n \in DOMAIN lp : lp[n] = st2[p[n]].scope
    BY <1>5, <2>1
  <2> HIDE DEF p
  <2>6. Nesting(st2, lp, p)
    BY <2>2, <2>3, <2>4, <2>5 DEF Nesting
  <2> QED
    BY <1>4, <1>7, <2>6 DEF LoopInv
<1>8. CASE IsLoop(st[1].scope)
  <2>1. lp # <<>> /\ Head(lp) = st[1].scope
    BY <1>1, <1>8, InnermostLoop
  <2>2. /\ lp2 \in Seq(DOMAIN scopes) /\ DOMAIN lp2 = 1 .. Len(lp) - 1
        /\ \A n \in DOMAIN lp2 : lp2[n] = lp[n + 1] /\ n + 1 \in DOMAIN lp /\ n \in Nat \ {0}
    BY <1>4, <1>8, <2>1
  <2>3. \A n \in DOMAIN lp2 : place[n + 1] # 1 /\ place[n + 1] \in Nat
    <3> SUFFICES ASSUME NEW n \in DOMAIN lp2 PROVE place[n + 1] # 1 /\ place[n + 1] \in Nat
      OBVIOUS
    <3>1. 1 \in DOMAIN lp /\ n + 1 \in DOMAIN lp /\ 1 < n + 1
      BY <1>4, <2>2
    <3>2. place[1] < place[n + 1] /\ place[1] \in LoopsOf(st) /\ place[n + 1] \in LoopsOf(st)
      BY <1>3, <3>1 DEF Nesting
    <3> QED
      BY <1>1, <3>2 DEF LoopsOf
  <2> DEFINE p == [n \in DOMAIN lp2 |-> place[n + 1] - 1]
  <2>4. p \in [DOMAIN lp2 -> LoopsOf(st2)]
    BY <1>5, <2>2, <2>3
  <2>5. ASSUME NEW m \in DOMAIN lp2, NEW n \in DOMAIN lp2, m < n PROVE p[m] < p[n]
    <3>1. m + 1 \in DOMAIN lp /\ n + 1 \in DOMAIN lp /\ m + 1 < n + 1
      BY <2>2, <2>5
    <3>2. place[m + 1] < place[n + 1]
      BY <1>3, <3>1 DEF Nesting
    <3> QED
      BY <2>3, <3>2
  <2>6. ASSUME NEW k \in LoopsOf(st2) PROVE \E n \in DOMAIN lp2 : p[n] = k
    <3>1. PICK n \in DOMAIN lp : place[n] = k + 1 /\ place[n] # 1 /\ place[n] - 1 = k
      BY <1>6
    <3>2. place[1] = 1
      <4>1. 1 \in LoopsOf(st)
        BY <1>1, <1>8 DEF LoopsOf
      <4>2. PICK j \in DOMAIN lp : place[j] = 1
        BY <1>3, <4>1 DEF Nesting
      <4>3. 1 \in DOMAIN lp /\ place[1] \in LoopsOf(st)
        BY <1>3, <1>4, <4>2 DEF Nesting
      <4>4. 1 < j => place[1] < place[j]
        BY <1>3, <4>2, <4>3 DEF Nesting
      <4>5. place[1] >= 1 /\ place[1] \in Nat
        BY <1>1, <4>3 DEF LoopsOf
      <4> QED
        BY <1>4, <4>2, <4>4, <4>5
    <3>3. n # 1 /\ n - 1 \in DOMAIN lp2 /\ (n - 1) + 1 = n
      BY <1>4, <2>2, <3>1, <3>2
    <3>4. p[n - 1] = place[n] - 1
      BY <3>3
    <3> QED
      BY <3>1, <3>3, <3>4
  <2>7. ASSUME NEW n \in DOMAIN lp2 PROVE lp2[n] = st2[p[n]].scope
    <3>1. lp2[n] = lp[n + 1] /\ n + 1 \in DOMAIN lp
      BY <2>2
    <3>2. lp[n + 1] = st2[place[n + 1] - 1].scope
      BY <1>5, <2>3, <3>1
    <3> QED
      BY <3>1, <3>2
  <2> HIDE DEF p
  <2>8. Nesting(st2, lp2, p)
    BY <2>4, <2>5, <2>6, <2>7 DEF Nesting
  <2> QED
    BY <2>2, <2>8 DEF LoopInv
<1> QED
  BY <1>7, <1>8

-----------------------------------------------------------------------------
(* The code.                                                               *)

\* The variables scope s declares up to its nth instruction.
Declared(s, n) == { <<s, k>> : k \in { k \in DOMAIN instructions(s) :
                                         instructions(s)[k].op = "declare" /\ k <= n } }

LEMMA VariablesAre ==
  ASSUME BuilderType, NEW s \in DOMAIN scopes, NEW n \in Nat
  PROVE  /\ Variables(s, n) \in Seq(Nat \X Nat)
         /\ ToSet(Variables(s, n)) = Declared(s, n)
<1> DEFINE list == [k \in DOMAIN instructions(s) |->
                      IF instructions(s)[k].op = "declare" /\ k <= n THEN << <<s, k>> >> ELSE <<>>]
           S == Nat \X Nat
<1>1. /\ s \in Nat /\ DOMAIN instructions(s) = 1 .. Len(instructions(s))
      /\ Len(instructions(s)) \in Nat /\ \A k \in DOMAIN instructions(s) : k \in Nat
  BY ScopeTyped DEF BuilderType
<1>2. ASSUME NEW k \in DOMAIN instructions(s) PROVE list[k] \in Seq(S)
  <2>1. <<s, k>> \in S
    BY <1>1
  <2> HIDE DEF S
  <2>2. << <<s, k>> >> \in Seq(S) /\ <<>> \in Seq(S)
    BY <2>1
  <2> QED
    BY <2>2
<1>3. list \in Seq(Seq(S))
  <2>1. list \in [1 .. Len(instructions(s)) -> Seq(S)]
    BY <1>1, <1>2
  <2> HIDE DEF list, S
  <2> QED
    BY <1>1, <2>1
<1>4. Variables(s, n) = FlattenSeq(list)
  BY DEF Variables
<1>5. DOMAIN list = DOMAIN instructions(s)
  OBVIOUS
<1>6. ASSUME NEW k \in DOMAIN instructions(s)
      PROVE  ToSet(list[k]) = IF instructions(s)[k].op = "declare" /\ k <= n THEN {<<s, k>>} ELSE {}
  <2>1. CASE instructions(s)[k].op = "declare" /\ k <= n
    <3>1. list[k] = << <<s, k>> >>
      BY <2>1
    <3> QED
      BY <2>1, <3>1 DEF ToSet
  <2>2. CASE ~ (instructions(s)[k].op = "declare" /\ k <= n)
    <3>1. list[k] = <<>>
      BY <2>2
    <3> QED
      BY <2>2, <3>1 DEF ToSet
  <2> QED
    BY <2>1, <2>2
<1> HIDE DEF list, S
<1>7. /\ FlattenSeq(list) \in Seq(S)
      /\ ToSet(FlattenSeq(list)) = UNION { ToSet(list[k]) : k \in DOMAIN list }
  BY <1>3, Flattened
<1>8. UNION { ToSet(list[k]) : k \in DOMAIN list } = Declared(s, n)
  BY <1>5, <1>6 DEF Declared
<1> QED
  BY <1>4, <1>7, <1>8 DEF S

Destructions(V) == { <<"destruct", v>> : v \in V }

LEMMA DestructorsAre ==
  ASSUME BuilderType, NEW s \in DOMAIN scopes, NEW n \in Nat
  PROVE  /\ Destructors(s, n) \in Seq({"destruct"} \X (Nat \X Nat))
         /\ ToSet(Destructors(s, n)) = Destructions(Declared(s, n))
         /\ Len(Destructors(s, n)) = Len(Variables(s, n))
<1> DEFINE list == Variables(s, n)
           S == Nat \X Nat
<1>1. list \in Seq(S) /\ ToSet(list) = Declared(s, n)
  BY VariablesAre
<1>2. Destructors(s, n) = [k \in DOMAIN list |-> <<"destruct", list[k]>>]
  BY DEF Destructors
<1> HIDE DEF list, S
<1>3. /\ DOMAIN list = 1 .. Len(list) /\ Len(list) \in Nat
      /\ \A k \in DOMAIN list : <<"destruct", list[k]>> \in {"destruct"} \X S
  BY <1>1
<1>4. Destructors(s, n) \in Seq({"destruct"} \X S) /\ DOMAIN Destructors(s, n) = DOMAIN list
  BY <1>2, <1>3
<1>5. Len(Destructors(s, n)) = Len(list)
  BY <1>3, <1>4
<1>6. ToSet(Destructors(s, n)) = Destructions(ToSet(list))
  BY <1>2, <1>4 DEF ToSet, Destructions
<1> QED
  BY <1>1, <1>4, <1>5, <1>6 DEF list, S

\* What is destroyed by a return: the variables of every scope on the stack.
LEMMA AllDestructorsAre ==
  ASSUME BuilderType, StackInv(scope_stack), NEW st2, Moves(scope_stack, st2),
         scope_stack[1].iterating < Len(instructions(scope_stack[1].scope))
  PROVE  /\ AllDestructors \in Seq({"destruct"} \X (Nat \X Nat))
         /\ ToSet(AllDestructors) =
              UNION { Destructions(Declared(st2[k].scope, st2[k].iterating)) : k \in DOMAIN st2 }
         /\ AllDestructors = FlattenSeq([k \in DOMAIN st2 |-> Destructors(st2[k].scope, st2[k].iterating)])
<1> DEFINE S == {"destruct"} \X (Nat \X Nat)
           list == [k \in DOMAIN st2 |-> Destructors(st2[k].scope, st2[k].iterating)]
<1>1. scope_stack # <<>> /\ Head(scope_stack) = scope_stack[1]
      /\ scope_stack[1] = [scope |-> scope_stack[1].scope, iterating |-> scope_stack[1].iterating]
  <2>1. scope_stack # <<>>
    BY DEF Moves
  <2> QED
    BY <2>1, TopIs
<1>2. Visited = Moved(Head(scope_stack))
  BY <1>1 DEF Visited, Moved, current, i
<1>3. st2 = <<Visited>> \o Tail(scope_stack)
  BY <1>2 DEF Moves
<1>4. AllDestructors = FlattenSeq(list)
  BY <1>3 DEF AllDestructors
<1>5. StackInv(st2) /\ st2 \in Seq(Frame)
  BY MovesStack DEF StackInv
<1>6. /\ DOMAIN st2 = 1 .. Len(st2) /\ Len(st2) \in Nat
      /\ \A k \in DOMAIN st2 : st2[k].scope \in DOMAIN scopes /\ st2[k].iterating \in Nat
  <2>1. \A f \in Frame : f.scope \in DOMAIN scopes /\ f.iterating \in Nat
    BY DEF Frame
  <2> HIDE DEF Frame
  <2> QED
    BY <1>5, <2>1
<1>7. \A k \in DOMAIN st2 :
        /\ list[k] \in Seq(S)
        /\ ToSet(list[k]) = Destructions(Declared(st2[k].scope, st2[k].iterating))
  BY <1>6, DestructorsAre
<1>8. list \in Seq(Seq(S)) /\ DOMAIN list = DOMAIN st2
  <2>1. list \in [1 .. Len(st2) -> Seq(S)]
    BY <1>6, <1>7
  <2> HIDE DEF list, S
  <2> QED
    BY <1>6, <2>1
<1> HIDE DEF list, S
<1>9. /\ FlattenSeq(list) \in Seq(S)
      /\ ToSet(FlattenSeq(list)) = UNION { ToSet(list[k]) : k \in DOMAIN list }
  BY <1>8, Flattened
<1>10. UNION { ToSet(list[k]) : k \in DOMAIN list }
       = UNION { Destructions(Declared(st2[k].scope, st2[k].iterating)) : k \in DOMAIN st2 }
  BY <1>7, <1>8
<1> QED
  BY <1>4, <1>9, <1>10 DEF S, list

LabelName == {"begin_of_scope", "end_of_scope", "loop_end_of_scope"}
Mark == (LabelName \X DOMAIN scopes) \cup {exit_label}
Jumping == {"jmp", "je", "jne"}
Emitted ==
  (({"bind"} \cup Jumping) \X Mark) \cup ({"eval"} \X DOMAIN scopes) \cup
    ({"construct", "destruct"} \X (Nat \X Nat))

\* No label is bound twice.
OnceIn(q) == \A m, n \in DOMAIN q : q[m] = q[n] /\ q[m][1] = "bind" => m = n

\* The code grows by the instructions of E, in some order.
Emits(E) ==
  \E new \in Seq(Emitted) : ToSet(new) = E /\ OnceIn(new) /\ code' = code \o new

LEMMA OnceJoined ==
  ASSUME NEW S, NEW a \in Seq(S), NEW b \in Seq(S), OnceIn(a), OnceIn(b),
         \A e \in ToSet(a) : e \in ToSet(b) => e[1] # "bind"
  PROVE  OnceIn(a \o b)
<1>1. /\ DOMAIN (a \o b) = 1 .. Len(a) + Len(b)
      /\ \A k \in 1 .. Len(a) : (a \o b)[k] = a[k]
      /\ \A k \in 1 .. Len(b) : (a \o b)[Len(a) + k] = b[k]
      /\ DOMAIN a = 1 .. Len(a) /\ DOMAIN b = 1 .. Len(b) /\ Len(a) \in Nat /\ Len(b) \in Nat
  BY Concatenated
<1>2. ASSUME NEW k \in DOMAIN (a \o b)
      PROVE  \/ k \in DOMAIN a /\ (a \o b)[k] = a[k]
             \/ k - Len(a) \in DOMAIN b /\ (a \o b)[k] = b[k - Len(a)] /\ k \notin DOMAIN a
  <2>1. CASE k \in 1 .. Len(a)
    BY <1>1, <2>1
  <2>2. CASE k \notin 1 .. Len(a)
    <3>1. k - Len(a) \in 1 .. Len(b) /\ Len(a) + (k - Len(a)) = k
      BY <1>1, <2>2
    <3>2. (a \o b)[Len(a) + (k - Len(a))] = b[k - Len(a)]
      BY <1>1, <3>1
    <3> QED
      BY <1>1, <2>2, <3>1, <3>2
  <2> QED
    BY <2>1, <2>2
<1>3. \A k \in DOMAIN a : a[k] \in ToSet(a)
  BY DEF ToSet
<1>4. \A k \in DOMAIN b : b[k] \in ToSet(b)
  BY DEF ToSet
<1> DEFINE q == a \o b
<1> SUFFICES ASSUME NEW m \in DOMAIN q, NEW n \in DOMAIN q, q[m] = q[n], q[m][1] = "bind"
             PROVE  m = n
  BY DEF OnceIn
<1>5. CASE m \in DOMAIN a /\ q[m] = a[m] /\ n \in DOMAIN a /\ q[n] = a[n]
  BY <1>5 DEF OnceIn
<1>6. CASE /\ m - Len(a) \in DOMAIN b /\ q[m] = b[m - Len(a)]
           /\ n - Len(a) \in DOMAIN b /\ q[n] = b[n - Len(a)]
  <2>1. m - Len(a) = n - Len(a)
    BY <1>6 DEF OnceIn
  <2> QED
    BY <1>1, <2>1
<1>7. CASE m \in DOMAIN a /\ q[m] = a[m] /\ n - Len(a) \in DOMAIN b /\ q[n] = b[n - Len(a)]
  BY <1>3, <1>4, <1>7
<1>8. CASE n \in DOMAIN a /\ q[n] = a[n] /\ m - Len(a) \in DOMAIN b /\ q[m] = b[m - Len(a)]
  BY <1>3, <1>4, <1>8
<1> QED
  BY <1>2, <1>5, <1>6, <1>7, <1>8

\* Where nothing is bound, no label is bound twice.
LEMMA OnceQuiet ==
  ASSUME NEW q, \A e \in ToSet(q) : e[1] # "bind"
  PROVE  OnceIn(q)
  BY DEF OnceIn, ToSet

LEMMA EmittedIs ==
  /\ \A l \in Mark : /\ <<"bind", l>> \in Emitted
                     /\ \A j \in Jumping : <<j, l>> \in Emitted
  /\ \A s \in DOMAIN scopes :
       /\ <<"eval", s>> \in Emitted
       /\ begin_of_scope(s) \in Mark /\ end_of_scope(s) \in Mark /\ loop_end_of_scope(s) \in Mark
  /\ exit_label \in Mark
  /\ ({"construct", "destruct"} \X (Nat \X Nat)) \subseteq Emitted
<1>1. \A l \in Mark : <<"bind", l>> \in Emitted /\ \A j \in Jumping : <<j, l>> \in Emitted
  <2> HIDE DEF Mark
  <2> QED
    BY DEF Emitted, Jumping
<1>2. \A s \in DOMAIN scopes : <<"eval", s>> \in Emitted
  BY DEF Emitted
<1>3. \A s \in DOMAIN scopes :
        begin_of_scope(s) \in Mark /\ end_of_scope(s) \in Mark /\ loop_end_of_scope(s) \in Mark
  BY DEF Mark, LabelName, begin_of_scope, end_of_scope, loop_end_of_scope
<1>4. exit_label \in Mark
  BY DEF Mark
<1>5. ({"construct", "destruct"} \X (Nat \X Nat)) \subseteq Emitted
  BY DEF Emitted
<1> QED
  BY <1>1, <1>2, <1>3, <1>4, <1>5

\* The lists the emission of an instruction is put together from.
LEMMA OneEmitted ==
  ASSUME NEW S, NEW x \in S
  PROVE  <<x>> \in Seq(S) /\ ToSet(<<x>>) = {x} /\ OnceIn(<<x>>) /\ Len(<<x>>) = 1
<1>1. <<x>> \in Seq(S) /\ DOMAIN <<x>> = {1} /\ <<x>>[1] = x /\ Len(<<x>>) = 1
  OBVIOUS
<1> QED
  BY <1>1 DEF ToSet, OnceIn

LEMMA NoneEmitted ==
  ASSUME NEW S
  PROVE  <<>> \in Seq(S) /\ ToSet(<<>>) = {} /\ OnceIn(<<>>)
<1>1. <<>> \in Seq(S) /\ DOMAIN <<>> = {}
  OBVIOUS
<1> QED
  BY <1>1 DEF ToSet, OnceIn

\* Lists that bind no label in common are put together.
LEMMA EmittedJoined ==
  ASSUME NEW a \in Seq(Emitted), NEW b \in Seq(Emitted), OnceIn(a), OnceIn(b),
         \A e \in ToSet(a) : e \in ToSet(b) => e[1] # "bind"
  PROVE  /\ a \o b \in Seq(Emitted) /\ OnceIn(a \o b)
         /\ ToSet(a \o b) = ToSet(a) \cup ToSet(b)
<1>1. a \o b \in Seq(Emitted) /\ ToSet(a \o b) = ToSet(a) \cup ToSet(b)
  BY Concatenated
<1>2. OnceIn(a \o b)
  BY OnceJoined
<1> QED
  BY <1>1, <1>2

LEMMA EmitsTwo ==
  ASSUME code \in Seq(Emitted), NEW a \in Seq(Emitted), NEW b \in Seq(Emitted),
         OnceIn(a), OnceIn(b), \A e \in ToSet(a) : e \in ToSet(b) => e[1] # "bind",
         code' = code \o a \o b
  PROVE  Emits(ToSet(a) \cup ToSet(b))
<1>1. /\ a \o b \in Seq(Emitted) /\ OnceIn(a \o b)
      /\ ToSet(a \o b) = ToSet(a) \cup ToSet(b)
  BY EmittedJoined
<1>2. (code \o a) \o b = code \o (a \o b)
  <2> HIDE DEF Emitted
  <2> QED
    OBVIOUS
<1> QED
  BY <1>1, <1>2 DEF Emits

TopScope == scope_stack[1].scope
TopNext == scope_stack[1].iterating + 1
TopIns == instructions(TopScope)[TopNext]

\* The first instruction of a branch binds its label.
BeginSet ==
  IF IsBranch(TopScope) /\ TopNext = 1 THEN { <<"bind", begin_of_scope(TopScope)>> } ELSE {}

LEMMA EmitIs ==
  ASSUME BuilderType, StackInv(scope_stack), scope_stack # <<>>, code \in Seq(Emitted),
         NEW list \in Seq(Emitted), OnceIn(list),
         <<"bind", begin_of_scope(TopScope)>> \notin ToSet(list), Emit(list)
  PROVE  Emits(BeginSet \cup ToSet(list))
<1>1. /\ Head(scope_stack) = scope_stack[1] /\ TopScope \in DOMAIN scopes
      /\ current.scope = TopScope /\ i = TopNext
  BY TopIs DEF TopScope, TopNext, current, i
<1>2. /\ Begin \in Seq(Emitted) /\ ToSet(Begin) = BeginSet /\ OnceIn(Begin)
  <2> DEFINE x == <<"bind", begin_of_scope(TopScope)>>
  <2>1. x \in Emitted
    BY <1>1, EmittedIs
  <2>2. Begin = IF IsBranch(TopScope) /\ TopNext = 1 THEN <<x>> ELSE <<>>
    BY <1>1 DEF Begin
  <2>3. BeginSet = IF IsBranch(TopScope) /\ TopNext = 1 THEN {x} ELSE {}
    BY DEF BeginSet
  <2> HIDE DEF x
  <2> QED
    BY <2>1, <2>2, <2>3, OneEmitted, NoneEmitted
<1>3. \A e \in ToSet(Begin) : e \in ToSet(list) => e[1] # "bind"
  BY <1>2 DEF BeginSet
<1>4. code' = code \o Begin \o list
  BY DEF Emit
<1> QED
  BY <1>2, <1>3, <1>4, EmitsTwo

\* What the steps of the compiler do: the top of the stack moves on past an instruction that
\* opens no scope, opens one, or ends by a return or at its last instruction.
LoopsAfterEnd == IF IsLoop(TopScope) THEN Tail(loop_stack) ELSE loop_stack

ContinueStep ==
  /\ TopNext \in DOMAIN instructions(TopScope) /\ TopIns.op \notin Opening
  /\ Moves(scope_stack, scope_stack') /\ loop_stack' = loop_stack
  /\ \E E : /\ Emits(BeginSet \cup E)
            /\ \A e \in E : \/ e[1] \in {"construct", "destruct"}
                            \/ /\ loop_stack # <<>>
                               /\ e = <<"jmp", loop_end_of_scope(Head(loop_stack))>>

EnterStep ==
  LET c == TopIns.arg
  IN  /\ TopNext \in DOMAIN instructions(TopScope) /\ TopIns.op \in Opening
      /\ Enters(scope_stack, c, scope_stack')
      /\ loop_stack' = IF IsLoop(c) THEN <<c>> \o loop_stack ELSE loop_stack
      /\ \E E : /\ Emits(BeginSet \cup E)
                /\ \A e \in E : \/ e[1] = "eval"
                                \/ TopIns.op = "if" /\ e = <<"je", Unmet(c)>>
                                \/ TopIns.op = "while" /\ e = <<"jmp", end_of_scope(c)>>

ReturnStep ==
  LET ends == <<"bind", end_of_scope(TopScope)>>
  IN  /\ TopNext \in DOMAIN instructions(TopScope) /\ TopIns.op = "return"
      /\ Ended(scope_stack, scope_stack') /\ loop_stack' = LoopsAfterEnd
      /\ \E E : /\ Emits(BeginSet \cup E)
                /\ IsBranch(TopScope) => ends \in E
                /\ \A e \in E : \/ e[1] = "destruct"
                                \/ e = <<"jmp", exit_label>>
                                \/ IsBranch(TopScope) /\ e = ends

EndStep ==
  LET ends == <<"bind", end_of_scope(TopScope)>>
      loopEnds == <<"bind", loop_end_of_scope(TopScope)>>
  IN  /\ TopNext \notin DOMAIN instructions(TopScope)
      /\ Ended(scope_stack, scope_stack') /\ loop_stack' = LoopsAfterEnd
      /\ \E E : /\ Emits(E)
                /\ IsBranch(TopScope) => ends \in E
                /\ IsLoop(TopScope) => loopEnds \in E
                /\ \A e \in E :
                     \/ e[1] \in {"destruct", "eval"}
                     \/ IsBranch(TopScope) /\ e = ends
                     \/ /\ IsLoop(TopScope)
                        /\ e \in {loopEnds, <<"jne", begin_of_scope(TopScope)>>}
                     \/ /\ TopScope # main /\ opener(TopScope).op = "if"
                        /\ \E x \in else_branch(TopScope) : e = <<"jmp", end_of_scope(x)>>

\* While it compiles.
CompilingInv ==
  /\ phase = "compiling" /\ BuilderType /\ TreeInv
  /\ StackInv(scope_stack) /\ LoopInv(scope_stack, loop_stack)
  /\ code \in Seq(Emitted)

LEMMA TopSteps ==
  ASSUME CompilingInv, scope_stack # <<>>
  PROVE  /\ current.scope = TopScope /\ i = TopNext /\ instruction = TopIns
         /\ TopScope \in DOMAIN scopes /\ TopNext \in Nat \ {0}
         /\ scope_stack[1].iterating \in Nat /\ TopNext = scope_stack[1].iterating + 1
         /\ DOMAIN instructions(TopScope) = 1 .. Len(instructions(TopScope))
         /\ Len(instructions(TopScope)) \in Nat
         /\ Ends <=> TopNext \notin DOMAIN instructions(TopScope)
         /\ Continue => Moves(scope_stack, scope_stack')
         /\ \A c : Enter(c) => Enters(scope_stack, c, scope_stack')
         /\ Unlooped = LoopsAfterEnd
         /\ Begin \in Seq(Emitted)
<1>1. BuilderType /\ StackInv(scope_stack) /\ LoopInv(scope_stack, loop_stack)
  BY DEF CompilingInv
<1>2. /\ Head(scope_stack) = scope_stack[1] /\ TopScope \in DOMAIN scopes
      /\ scope_stack[1].iterating \in Nat
      /\ scope_stack[1].iterating <= Len(instructions(TopScope))
      /\ scope_stack[1] = [scope |-> scope_stack[1].scope, iterating |-> scope_stack[1].iterating]
  BY <1>1, TopIs DEF TopScope
<1>3. current.scope = TopScope /\ i = TopNext /\ instruction = TopIns
  BY <1>2 DEF TopScope, TopNext, TopIns, current, i, instruction
<1>4. /\ TopNext \in Nat \ {0} /\ TopNext = scope_stack[1].iterating + 1
      /\ DOMAIN instructions(TopScope) = 1 .. Len(instructions(TopScope))
      /\ Len(instructions(TopScope)) \in Nat
  BY <1>1, <1>2, ScopeTyped DEF TopNext, BuilderType
<1>5. Ends <=> TopNext \notin DOMAIN instructions(TopScope)
  BY <1>3, <1>4 DEF Ends
<1>6. Visited = Moved(Head(scope_stack))
  BY <1>2 DEF Visited, Moved, current, i
<1>7. /\ Continue => Moves(scope_stack, scope_stack')
      /\ \A c : Enter(c) => Enters(scope_stack, c, scope_stack')
  BY <1>6 DEF Continue, Enter, Moves, Enters
<1>8. Unlooped = LoopsAfterEnd
  <2>1. CASE IsLoop(TopScope)
    <3>1. loop_stack # <<>> /\ Head(loop_stack) = TopScope
      BY <1>1, <2>1, InnermostLoop DEF TopScope
    <3> QED
      BY <1>3, <2>1, <3>1 DEF Unlooped, LoopsAfterEnd
  <2>2. CASE ~ IsLoop(TopScope)
    <3>1. loop_stack # <<>> => Head(loop_stack) # TopScope
      BY <1>1, <2>2, InnermostLoop
    <3> QED
      BY <1>3, <2>2, <3>1 DEF Unlooped, LoopsAfterEnd
  <2> QED
    BY <2>1, <2>2
<1>9. Begin \in Seq(Emitted)
  <2>1. <<"bind", begin_of_scope(TopScope)>> \in Emitted
    BY <1>2, EmittedIs
  <2> DEFINE x == <<"bind", begin_of_scope(TopScope)>>
  <2>2. Begin = IF IsBranch(TopScope) /\ TopNext = 1 THEN <<x>> ELSE <<>>
    BY <1>3 DEF Begin
  <2>3. x \in Emitted
    BY <2>1
  <2> HIDE DEF x, Emitted
  <2>4. <<x>> \in Seq(Emitted) /\ <<>> \in Seq(Emitted)
    BY <2>3
  <2> QED
    BY <2>2, <2>4
<1> QED
  BY <1>2, <1>3, <1>4, <1>5, <1>7, <1>8, <1>9

\* The else of a scope, if there is one, is the next scope of its parent.
LEMMA ElseIs ==
  ASSUME BuilderType, TreeInv, NEW c \in DOMAIN scopes \ {main}
  PROVE  /\ \A e \in else_branch(c) :
              /\ e \in DOMAIN scopes \ {main} /\ opener(e).op = "else"
              /\ scopes[e].parent_scope = scopes[c].parent_scope
              /\ scopes[e].opener = scopes[c].opener + 1
         /\ \A d, e \in else_branch(c) : d = e
<1> DEFINE p == scopes[c].parent_scope
           n == scopes[c].opener + 1
<1>1. p \in DOMAIN scopes /\ scopes[c].opener \in DOMAIN instructions(p)
  BY DEF TreeInv, ParentInv
<1>2. /\ DOMAIN instructions(p) = 1 .. Len(instructions(p)) /\ Len(instructions(p)) \in Nat
      /\ scopes[c].opener \in Nat
  BY <1>1, ScopeTyped DEF BuilderType
<1>3. else_branch(c) = IF n <= Len(instructions(p)) /\ instructions(p)[n].op = "else"
                       THEN {instructions(p)[n].arg} ELSE {}
  BY DEF else_branch
<1>4. ASSUME NEW e \in else_branch(c)
      PROVE  /\ e \in DOMAIN scopes \ {main} /\ opener(e).op = "else"
             /\ scopes[e].parent_scope = p /\ scopes[e].opener = n
  <2>1. n \in DOMAIN instructions(p) /\ instructions(p)[n].op = "else" /\ e = instructions(p)[n].arg
    BY <1>2, <1>3, <1>4
  <2>2. instructions(p)[n].op \in Opening
    BY <2>1 DEF Opening, Branch
  <2>3. ChildInv(p, n)
    BY <1>1, <2>1 DEF TreeInv
  <2>4. e \in DOMAIN scopes \ {main} /\ scopes[e].parent_scope = p /\ scopes[e].opener = n
    BY <2>1, <2>2, <2>3 DEF ChildInv
  <2> QED
    BY <2>1, <2>4 DEF opener
<1>5. \A d, e \in else_branch(c) : d = e
  BY <1>3
<1> QED
  BY <1>4, <1>5

\* Of a set of one element or none, SetToSeq is the sequence of its elements.
LEMMA EnumeratedIs ==
  ASSUME NEW x
  PROVE  SetToSeq({}) = <<>> /\ SetToSeq({x}) = <<x>>
<1>1. SetToSeq({}) = <<>>
  <2> DEFINE S == {}
             f == SetToSeq(S)
  <2>1. Cardinality(S) = 0
    BY FS_EmptySet
  <2>2. <<>> \in [1 .. Cardinality(S) -> S] /\ IsInjective(<<>>)
    BY <2>1 DEF IsInjective
  <2>3. f \in [1 .. Cardinality(S) -> S]
    BY <2>2 DEF SetToSeq
  <2> HIDE DEF f
  <2>4. DOMAIN f = {} /\ f \in [1 .. 0 -> S]
    BY <2>1, <2>3
  <2>5. f = <<>>
    BY <2>4
  <2> QED
    BY <2>5 DEF f
<1>2. SetToSeq({x}) = <<x>>
  <2> DEFINE S == {x}
             f == SetToSeq(S)
  <2>1. Cardinality(S) = 1
    BY FS_Singleton
  <2>2. <<x>> \in [1 .. Cardinality(S) -> S] /\ IsInjective(<<x>>)
    BY <2>1 DEF IsInjective
  <2>3. f \in [1 .. Cardinality(S) -> S]
    BY <2>2 DEF SetToSeq
  <2> HIDE DEF f
  <2>4. f \in [1 .. 1 -> S]
    BY <2>1, <2>3
  <2>5. DOMAIN f = 1 .. 1 /\ f[1] = x /\ f = [k \in 1 .. 1 |-> f[k]]
    BY <2>4
  <2>6. f = <<x>>
    BY <2>5
  <2> QED
    BY <2>6 DEF f
<1> QED
  BY <1>1, <1>2

LEMMA Enumerated ==
  ASSUME NEW S, NEW T, S = {} \/ \E x \in T : S = {x}
  PROVE  SetToSeq(S) \in Seq(T) /\ ToSet(SetToSeq(S)) = S
<1>1. CASE S = {}
  BY <1>1, EnumeratedIs, NoneEmitted
<1>2. CASE \E x \in T : S = {x}
  BY <1>2, EnumeratedIs, OneEmitted
<1> QED
  BY <1>1, <1>2

\* Calls of destructors, as a part of the code.
LEMMA CallsEmitted ==
  ASSUME NEW q \in Seq({"destruct"} \X (Nat \X Nat))
  PROVE  /\ q \in Seq(Emitted) /\ OnceIn(q)
         /\ \A e \in ToSet(q) : e[1] = "destruct"
<1> DEFINE S == {"destruct"} \X (Nat \X Nat)
<1>1. S \subseteq Emitted /\ \A e \in S : e[1] = "destruct"
  BY DEF Emitted
<1>2. q \in Seq(S)
  OBVIOUS
<1> HIDE DEF S
<1>3. \A e \in ToSet(q) : e \in S
  BY <1>2 DEF ToSet
<1>4. q \in Seq(Emitted)
  BY <1>1, <1>2, SeqMonotonic
<1>5. \A e \in ToSet(q) : e[1] = "destruct"
  BY <1>1, <1>3
<1>6. OnceIn(q)
  BY <1>5, OnceQuiet
<1> QED
  BY <1>4, <1>5, <1>6

LEMMA Continues ==
  ASSUME CompilingInv, Declare \/ Construct \/ Break
  PROVE  scope_stack # <<>> /\ phase' = phase /\ ContinueStep
<1> DEFINE op == IF Declare THEN "declare" ELSE IF Construct THEN "construct" ELSE "break"
<1>1. scope_stack # <<>> /\ phase' = phase /\ loop_stack' = loop_stack /\ Continue /\ ~ Ends
      /\ instruction.op \in {"declare", "construct", "break"}
  BY DEF Declare, Construct, Break, Visits
<1>2. BuilderType /\ StackInv(scope_stack) /\ code \in Seq(Emitted)
  BY DEF CompilingInv
<1>3. /\ current.scope = TopScope /\ i = TopNext /\ instruction = TopIns
      /\ TopScope \in DOMAIN scopes /\ TopNext \in Nat
      /\ TopNext \in DOMAIN instructions(TopScope) /\ Moves(scope_stack, scope_stack')
  BY <1>1, TopSteps
<1>4. TopIns.op \notin Opening
  BY <1>1, <1>3 DEF Opening, Branch
<1>5. ASSUME NEW list \in Seq(Emitted), OnceIn(list), Emit(list),
             \A e \in ToSet(list) : e[1] # "bind"
      PROVE  Emits(BeginSet \cup ToSet(list))
  <2>1. <<"bind", begin_of_scope(TopScope)>> \notin ToSet(list)
    BY <1>5
  <2> QED
    BY <1>1, <1>2, <1>5, <2>1, EmitIs
<1>6. ASSUME NEW E, Emits(BeginSet \cup E),
             \A e \in E : \/ e[1] \in {"construct", "destruct"}
                          \/ /\ loop_stack # <<>>
                             /\ e = <<"jmp", loop_end_of_scope(Head(loop_stack))>>
      PROVE  ContinueStep
  BY <1>1, <1>3, <1>4, <1>6 DEF ContinueStep
<1>7. ASSUME Emit(<<>>) PROVE ContinueStep
  <2> DEFINE none == ToSet(<<>>)
  <2>1. <<>> \in Seq(Emitted) /\ none = {} /\ OnceIn(<<>>)
    BY NoneEmitted
  <2>2. Emits(BeginSet \cup none)
    BY <1>5, <1>7, <2>1
  <2>3. \A e \in none : e[1] \in {"construct", "destruct"}
    BY <2>1
  <2> HIDE DEF none
  <2> QED
    BY <1>6, <2>2, <2>3
<1>8. CASE Declare
  BY <1>1, <1>7, <1>8 DEF Declare
<1>9. CASE Construct
  <2> DEFINE x == <<"construct", <<TopScope, TopIns.arg>> >>
  <2>1. TopIns.arg \in Nat /\ TopScope \in Nat
    BY <1>2, <1>3, ScopeTyped DEF BuilderType, TopIns
  <2>2. x \in Emitted /\ x[1] = "construct"
    BY <2>1 DEF Emitted
  <2>3. Emit(<<x>>)
    BY <1>3, <1>9 DEF Construct
  <2> HIDE DEF x
  <2>4. <<x>> \in Seq(Emitted) /\ ToSet(<<x>>) = {x} /\ OnceIn(<<x>>)
    BY <2>2, OneEmitted
  <2> DEFINE E == ToSet(<<x>>)
  <2>5. Emits(BeginSet \cup E)
    BY <1>5, <2>2, <2>3, <2>4
  <2>6. \A e \in E : e[1] \in {"construct", "destruct"}
    BY <2>2, <2>4
  <2> HIDE DEF E
  <2> QED
    BY <1>1, <1>6, <2>5, <2>6
<1>10. CASE Break
  <2>1. CASE loop_stack = <<>>
    BY <1>1, <1>7, <1>10, <2>1 DEF Break
  <2>2. CASE loop_stack # <<>>
    <3> DEFINE d == Destructors(TopScope, TopNext)
               l == loop_end_of_scope(Head(loop_stack))
               x == <<"jmp", l>>
    <3>1. d \in Seq({"destruct"} \X (Nat \X Nat))
      BY <1>2, <1>3, DestructorsAre
    <3>2. x \in Emitted /\ x[1] = "jmp"
      <4>1. Head(loop_stack) \in DOMAIN scopes
        BY <2>2 DEF CompilingInv, LoopInv
      <4>2. l \in Mark
        BY <4>1, EmittedIs
      <4> HIDE DEF l
      <4> QED
        BY <4>2, EmittedIs DEF Jumping
    <3>3. Emit(d \o <<x>>)
      BY <1>3, <1>10, <2>2 DEF Break
    <3> HIDE DEF x, d
    <3>4. d \in Seq(Emitted) /\ OnceIn(d) /\ \A e \in ToSet(d) : e[1] = "destruct"
      BY <3>1, CallsEmitted
    <3>5. <<x>> \in Seq(Emitted) /\ ToSet(<<x>>) = {x} /\ OnceIn(<<x>>)
      BY <3>2, OneEmitted
    <3>6. /\ d \o <<x>> \in Seq(Emitted) /\ OnceIn(d \o <<x>>)
          /\ ToSet(d \o <<x>>) = ToSet(d) \cup {x}
      BY <3>2, <3>4, <3>5, EmittedJoined
    <3> DEFINE E == ToSet(d) \cup {x}
    <3>7. Emits(BeginSet \cup E)
      <4>1. \A e \in ToSet(d \o <<x>>) : e[1] # "bind"
        BY <3>2, <3>4, <3>6
      <4> DEFINE list == d \o <<x>>
      <4>2. /\ list \in Seq(Emitted) /\ OnceIn(list) /\ Emit(list)
            /\ ToSet(list) = ToSet(d) \cup {x}
            /\ \A e \in ToSet(list) : e[1] # "bind"
        BY <3>3, <3>6, <4>1
      <4> HIDE DEF list
      <4>3. Emits(BeginSet \cup ToSet(list))
        BY <1>5, <4>2
      <4> QED
        BY <4>2, <4>3
    <3>8. \A e \in E : \/ e[1] \in {"construct", "destruct"}
                        \/ /\ loop_stack # <<>>
                           /\ e = <<"jmp", loop_end_of_scope(Head(loop_stack))>>
      BY <2>2, <3>4 DEF x
    <3> HIDE DEF E
    <3> QED
      BY <1>1, <1>6, <3>7, <3>8
  <2> QED
    BY <2>1, <2>2
<1> QED
  BY <1>1, <1>8, <1>9, <1>10
\* The scope an instruction opens.
LEMMA Opens ==
  ASSUME BuilderType, TreeInv, NEW s \in DOMAIN scopes, NEW k \in DOMAIN instructions(s),
         instructions(s)[k].op \in Opening, NEW c, c = instructions(s)[k].arg
  PROVE  /\ c \in DOMAIN scopes \ {main} /\ scopes[c].parent_scope = s /\ scopes[c].opener = k
         /\ opener(c) = instructions(s)[k]
         /\ IsLoop(c) <=> instructions(s)[k].op = "while"
         /\ IsBranch(c) <=> instructions(s)[k].op \in Branch
<1>1. c \in DOMAIN scopes \ {main} /\ scopes[c].parent_scope = s /\ scopes[c].opener = k
  BY DEF TreeInv, ChildInv
<1>2. opener(c) = instructions(s)[k]
  BY <1>1 DEF opener
<1> QED
  BY <1>1, <1>2 DEF IsLoop, IsBranch

LEMMA UnmetIs ==
  ASSUME BuilderType, TreeInv, NEW c \in DOMAIN scopes \ {main}
  PROVE  /\ \/ else_branch(c) = {} /\ Unmet(c) = end_of_scope(c)
            \/ \E e \in else_branch(c) : Unmet(c) = begin_of_scope(e)
         /\ <<"je", Unmet(c)>> \in Emitted
<1>1. \/ else_branch(c) = {} /\ Unmet(c) = end_of_scope(c)
      \/ \E e \in else_branch(c) : Unmet(c) = begin_of_scope(e)
  BY DEF Unmet
<1>2. \A e \in else_branch(c) : e \in DOMAIN scopes
  BY ElseIs
<1>3. Unmet(c) \in Mark
  BY <1>1, <1>2, EmittedIs
<1> QED
  BY <1>1, <1>3, EmittedIs DEF Jumping

LEMMA OpensAScope ==
  ASSUME CompilingInv, ScopeCreate \/ If \/ Else \/ While
  PROVE  scope_stack # <<>> /\ phase' = phase /\ EnterStep
<1> DEFINE c == TopIns.arg
           op == TopIns.op
<1>1. /\ scope_stack # <<>> /\ phase' = phase /\ ~ Ends
      /\ instruction.op \in Opening /\ Enter(instruction.arg)
  BY DEF ScopeCreate, If, Else, While, Visits, VisitsBranch, Opening, Branch
<1>2. BuilderType /\ TreeInv /\ StackInv(scope_stack) /\ code \in Seq(Emitted)
  BY DEF CompilingInv
<1>3. /\ instruction = TopIns /\ TopScope \in DOMAIN scopes
      /\ TopNext \in DOMAIN instructions(TopScope) /\ op \in Opening
      /\ Enters(scope_stack, c, scope_stack')
  BY <1>1, TopSteps
<1>4. /\ c \in DOMAIN scopes \ {main}
      /\ IsLoop(c) <=> op = "while"
      /\ <<"je", Unmet(c)>> \in Emitted
  BY <1>2, <1>3, Opens, UnmetIs DEF TopIns
<1>5. loop_stack' = IF IsLoop(c) THEN <<c>> \o loop_stack ELSE loop_stack
  <2>1. IF op = "while" THEN loop_stack' = <<c>> \o loop_stack ELSE loop_stack' = loop_stack
    BY <1>3 DEF ScopeCreate, If, Else, While, Visits, VisitsBranch
  <2> QED
    BY <1>4, <2>1
<1>6. ASSUME NEW list \in Seq(Emitted), OnceIn(list), Emit(list),
             \A e \in ToSet(list) : \/ e[1] = "eval"
                                    \/ op = "if" /\ e = <<"je", Unmet(c)>>
                                    \/ op = "while" /\ e = <<"jmp", end_of_scope(c)>>
      PROVE  EnterStep
  <2>1. <<"bind", begin_of_scope(TopScope)>> \notin ToSet(list)
    BY <1>6
  <2> DEFINE E == ToSet(list)
  <2>2. Emits(BeginSet \cup E)
    BY <1>1, <1>2, <1>6, <2>1, EmitIs
  <2> HIDE DEF E
  <2>3. \A e \in E : \/ e[1] = "eval"
                     \/ op = "if" /\ e = <<"je", Unmet(c)>>
                     \/ op = "while" /\ e = <<"jmp", end_of_scope(c)>>
    BY <1>6 DEF E
  <2> QED
    BY <1>3, <1>5, <2>2, <2>3 DEF EnterStep
<1>7. CASE ScopeCreate \/ Else
  <2>1. Emit(<<>>)
    BY <1>7 DEF ScopeCreate, Else
  <2>2. <<>> \in Seq(Emitted) /\ ToSet(<<>>) = {} /\ OnceIn(<<>>)
    BY NoneEmitted
  <2>3. EnterStep
    BY <1>6, <2>1, <2>2
  <2> QED
    BY <1>1, <2>3
<1>8. CASE If
  <2> DEFINE x == <<"eval", c>>
             y == <<"je", Unmet(c)>>
  <2>1. x \in Emitted /\ y \in Emitted /\ x[1] = "eval" /\ y[1] = "je"
    BY <1>4, EmittedIs
  <2>2. Emit(<<x, y>>) /\ op = "if"
    BY <1>3, <1>8 DEF If, VisitsBranch, Visits
  <2> HIDE DEF x, y
  <2>3. <<x, y>> \in Seq(Emitted) /\ ToSet(<<x, y>>) = {x, y}
    <3>1. <<x, y>> \in Seq(Emitted) /\ DOMAIN <<x, y>> = {1, 2}
          /\ <<x, y>>[1] = x /\ <<x, y>>[2] = y
      <4> HIDE DEF Emitted
      <4> QED
        BY <2>1
    <3> QED
      BY <3>1 DEF ToSet
  <2>4. \A e \in ToSet(<<x, y>>) : e[1] # "bind"
    BY <2>1, <2>3
  <2>5. OnceIn(<<x, y>>)
    BY <2>4, OnceQuiet
  <2>6. \A e \in ToSet(<<x, y>>) : e[1] = "eval" \/ (op = "if" /\ e = <<"je", Unmet(c)>>)
    BY <2>1, <2>2, <2>3 DEF y
  <2>7. EnterStep
    BY <1>6, <2>2, <2>3, <2>5, <2>6
  <2> QED
    BY <1>1, <2>7
<1>9. CASE While
  <2> DEFINE x == <<"jmp", end_of_scope(c)>>
  <2>1. x \in Emitted /\ x[1] = "jmp"
    BY <1>4, EmittedIs DEF Jumping
  <2>2. Emit(<<x>>) /\ op = "while"
    BY <1>3, <1>9 DEF While, VisitsBranch, Visits
  <2> HIDE DEF x
  <2>3. <<x>> \in Seq(Emitted) /\ ToSet(<<x>>) = {x} /\ OnceIn(<<x>>)
    BY <2>1, OneEmitted
  <2>4. \A e \in ToSet(<<x>>) : op = "while" /\ e = <<"jmp", end_of_scope(c)>>
    BY <2>2, <2>3 DEF x
  <2>5. EnterStep
    BY <1>6, <2>2, <2>3, <2>4
  <2> QED
    BY <1>1, <2>5
<1> QED
  BY <1>7, <1>8, <1>9
LEMMA LeavesByReturn ==
  ASSUME CompilingInv, Return
  PROVE  scope_stack # <<>> /\ phase' = phase /\ ReturnStep
<1> DEFINE x == <<"jmp", exit_label>>
           ends == <<"bind", end_of_scope(TopScope)>>
           d == AllDestructors
           st2 == <<Moved(Head(scope_stack))>> \o Tail(scope_stack)
<1>1. /\ scope_stack # <<>> /\ phase' = phase /\ ~ Ends /\ instruction.op = "return"
      /\ scope_stack' = Tail(scope_stack) /\ loop_stack' = Unlooped
      /\ Emit(d \o <<x>> \o Skipped(current.scope))
  BY DEF Return, Visits
<1>2. BuilderType /\ StackInv(scope_stack) /\ code \in Seq(Emitted)
  BY DEF CompilingInv
<1>3. /\ current.scope = TopScope /\ instruction = TopIns
      /\ TopScope \in DOMAIN scopes /\ TopNext \in DOMAIN instructions(TopScope)
      /\ scope_stack[1].iterating < Len(instructions(TopScope))
      /\ Unlooped = LoopsAfterEnd
  BY <1>1, TopSteps
<1>4. d \in Seq({"destruct"} \X (Nat \X Nat))
  <2>1. Moves(scope_stack, st2)
    BY <1>1 DEF Moves
  <2> QED
    BY <1>2, <1>3, <2>1, AllDestructorsAre DEF TopScope
<1>5. x \in Emitted /\ x[1] = "jmp" /\ ends \in Emitted /\ ends[1] = "bind"
  BY <1>3, EmittedIs DEF Jumping
<1>6. Skipped(TopScope) = IF IsBranch(TopScope) THEN <<ends>> ELSE <<>>
  BY DEF Skipped
<1>7. ends # <<"bind", begin_of_scope(TopScope)>>
  BY DEF begin_of_scope, end_of_scope
<1> HIDE DEF x, ends, d
<1>8. d \in Seq(Emitted) /\ OnceIn(d) /\ \A e \in ToSet(d) : e[1] = "destruct"
  BY <1>4, CallsEmitted
<1>9. <<x>> \in Seq(Emitted) /\ ToSet(<<x>>) = {x} /\ OnceIn(<<x>>)
  BY <1>5, OneEmitted
<1> DEFINE a == d \o <<x>>
           b == Skipped(TopScope)
<1>10. /\ a \in Seq(Emitted) /\ OnceIn(a) /\ ToSet(a) = ToSet(d) \cup {x}
  BY <1>5, <1>8, <1>9, EmittedJoined
<1>11. /\ b \in Seq(Emitted) /\ OnceIn(b)
       /\ ToSet(b) = IF IsBranch(TopScope) THEN {ends} ELSE {}
  <2>1. CASE IsBranch(TopScope)
    BY <1>5, <1>6, <2>1, OneEmitted
  <2>2. CASE ~ IsBranch(TopScope)
    BY <1>6, <2>2, NoneEmitted
  <2> QED
    BY <2>1, <2>2
<1>12. Emit(a \o b)
  BY <1>1, <1>3
<1> HIDE DEF a, b
<1>13. \A e \in ToSet(a) : e[1] # "bind"
  BY <1>5, <1>8, <1>10
<1> DEFINE list == a \o b
<1>14. list \in Seq(Emitted) /\ OnceIn(list) /\ ToSet(list) = ToSet(a) \cup ToSet(b) /\ Emit(list)
  BY <1>10, <1>11, <1>12, <1>13, EmittedJoined
<1> HIDE DEF list
<1>15. <<"bind", begin_of_scope(TopScope)>> \notin ToSet(list)
  <2>1. <<"bind", begin_of_scope(TopScope)>> \notin ToSet(a)
    BY <1>13
  <2> QED
    BY <1>7, <1>11, <1>14, <2>1
<1> DEFINE E == ToSet(list)
<1>16. Emits(BeginSet \cup E)
  BY <1>1, <1>2, <1>14, <1>15, EmitIs
<1>17. /\ IsBranch(TopScope) => ends \in E
       /\ \A e \in E : \/ e[1] = "destruct" \/ e = x
                       \/ IsBranch(TopScope) /\ e = ends
  BY <1>8, <1>10, <1>11, <1>14
<1>18. Ended(scope_stack, scope_stack') /\ loop_stack' = LoopsAfterEnd
  BY <1>1, <1>3 DEF Ended
<1> HIDE DEF E
<1> QED
  BY <1>1, <1>3, <1>16, <1>17, <1>18 DEF ReturnStep, x, ends

LEMMA AfterEndIs ==
  ASSUME BuilderType, TreeInv, NEW s \in DOMAIN scopes
  PROVE  /\ AfterEnd(s) \in Seq(Emitted) /\ OnceIn(AfterEnd(s))
         /\ IsLoop(s) => <<"bind", loop_end_of_scope(s)>> \in ToSet(AfterEnd(s))
         /\ \A e \in ToSet(AfterEnd(s)) :
              \/ e[1] = "eval"
              \/ /\ IsLoop(s)
                 /\ e \in {<<"bind", loop_end_of_scope(s)>>, <<"jne", begin_of_scope(s)>>}
              \/ /\ s # main /\ opener(s).op = "if"
                 /\ \E x \in else_branch(s) : e = <<"jmp", end_of_scope(x)>>
<1>1. CASE IsLoop(s)
  <2> DEFINE x == <<"eval", s>>
             y == <<"jne", begin_of_scope(s)>>
             z == <<"bind", loop_end_of_scope(s)>>
  <2>1. /\ x \in Emitted /\ y \in Emitted /\ z \in Emitted
        /\ x[1] = "eval" /\ y[1] = "jne" /\ z[1] = "bind"
    BY EmittedIs DEF Jumping
  <2>2. AfterEnd(s) = <<x, y, z>>
    BY <1>1 DEF AfterEnd, LoopTest
  <2> HIDE DEF x, y, z
  <2>3. /\ <<x, y, z>> \in Seq(Emitted) /\ DOMAIN <<x, y, z>> = {1, 2, 3}
        /\ <<x, y, z>>[1] = x /\ <<x, y, z>>[2] = y /\ <<x, y, z>>[3] = z
    <3> HIDE DEF Emitted
    <3> QED
      BY <2>1
  <2>4. ToSet(<<x, y, z>>) = {x, y, z}
    BY <2>3 DEF ToSet
  <2>5. OnceIn(<<x, y, z>>)
    BY <2>1, <2>3 DEF OnceIn
  <2>6. \A e \in ToSet(AfterEnd(s)) : e[1] = "eval" \/ e \in {z, y}
    BY <2>1, <2>2, <2>4
  <2> QED
    BY <1>1, <2>2, <2>3, <2>4, <2>5, <2>6 DEF y, z
<1>2. CASE ~ IsLoop(s) /\ s # main /\ opener(s).op = "if"
  <2> DEFINE jumps == { <<"jmp", end_of_scope(x)>> : x \in else_branch(s) }
  <2>1. AfterEnd(s) = SetToSeq(jumps)
    BY <1>2 DEF AfterEnd
  <2>2. \A x \in else_branch(s) : <<"jmp", end_of_scope(x)>> \in Emitted
    BY <1>2, ElseIs, EmittedIs DEF Jumping
  <2>3. jumps = {} \/ \E y \in Emitted : jumps = {y}
    <3>1. \A d, e \in else_branch(s) : d = e
      BY <1>2, ElseIs
    <3>2. CASE else_branch(s) = {}
      BY <3>2
    <3>3. CASE else_branch(s) # {}
      <4>1. PICK x \in else_branch(s) : TRUE
        BY <3>3
      <4>2. else_branch(s) = {x}
        BY <3>1, <4>1
      <4>3. jumps = {<<"jmp", end_of_scope(x)>>}
        BY <4>2
      <4> QED
        BY <2>2, <4>1, <4>3
    <3> QED
      BY <3>2, <3>3
  <2>4. SetToSeq(jumps) \in Seq(Emitted) /\ ToSet(SetToSeq(jumps)) = jumps
    <3> HIDE DEF jumps, Emitted
    <3> QED
      BY <2>3, Enumerated
  <2>5. \A e \in jumps : e[1] # "bind"
    OBVIOUS
  <2>6. OnceIn(AfterEnd(s))
    BY <2>1, <2>4, <2>5, OnceQuiet
  <2> QED
    BY <1>2, <2>1, <2>4, <2>6
<1>3. CASE ~ IsLoop(s) /\ ~ (s # main /\ opener(s).op = "if")
  <2>1. AfterEnd(s) = <<>>
    BY <1>3 DEF AfterEnd
  <2> QED
    BY <1>3, <2>1, NoneEmitted
<1> QED
  BY <1>1, <1>2, <1>3

LEMMA LeavesAtItsEnd ==
  ASSUME CompilingInv, EndScope
  PROVE  scope_stack # <<>> /\ phase' = phase /\ EndStep
<1> DEFINE s == TopScope
           ends == <<"bind", end_of_scope(s)>>
           d == Destructors(s, Len(instructions(s)))
           b == IF IsBranch(s) THEN <<ends>> ELSE <<>>
           after == AfterEnd(s)
<1>1. /\ scope_stack # <<>> /\ phase' = phase /\ Ends
      /\ scope_stack' = Tail(scope_stack)
      /\ loop_stack' = IF IsLoop(current.scope) THEN Tail(loop_stack) ELSE loop_stack
      /\ code' = code \o ScopeEnd(current.scope) \o AfterEnd(current.scope)
  BY DEF EndScope
<1>2. BuilderType /\ TreeInv /\ StackInv(scope_stack) /\ code \in Seq(Emitted)
  BY DEF CompilingInv
<1>3. /\ current.scope = s /\ s \in DOMAIN scopes /\ TopNext \notin DOMAIN instructions(s)
      /\ Len(instructions(s)) \in Nat
  BY <1>1, TopSteps
<1>4. code' = code \o (d \o b) \o after
  BY <1>1, <1>3 DEF ScopeEnd
<1>5. d \in Seq({"destruct"} \X (Nat \X Nat))
  BY <1>2, <1>3, DestructorsAre
<1>6. ends \in Emitted /\ ends[1] = "bind"
  BY <1>3, EmittedIs
<1>7. ends # <<"bind", loop_end_of_scope(s)>>
  BY DEF loop_end_of_scope, end_of_scope
<1> HIDE DEF d, ends
<1>8. d \in Seq(Emitted) /\ OnceIn(d) /\ \A e \in ToSet(d) : e[1] = "destruct"
  BY <1>5, CallsEmitted
<1>9. /\ b \in Seq(Emitted) /\ OnceIn(b)
      /\ ToSet(b) = IF IsBranch(s) THEN {ends} ELSE {}
  <2>1. CASE IsBranch(s)
    BY <1>6, <2>1, OneEmitted
  <2>2. CASE ~ IsBranch(s)
    BY <2>2, NoneEmitted
  <2> QED
    BY <2>1, <2>2
<1> HIDE DEF b
<1> DEFINE a == d \o b
<1>10. a \in Seq(Emitted) /\ OnceIn(a) /\ ToSet(a) = ToSet(d) \cup ToSet(b)
  BY <1>8, <1>9, EmittedJoined
<1>11. /\ after \in Seq(Emitted) /\ OnceIn(after)
       /\ IsLoop(s) => <<"bind", loop_end_of_scope(s)>> \in ToSet(after)
       /\ \A e \in ToSet(after) :
            \/ e[1] = "eval"
            \/ /\ IsLoop(s)
               /\ e \in {<<"bind", loop_end_of_scope(s)>>, <<"jne", begin_of_scope(s)>>}
            \/ /\ s # main /\ opener(s).op = "if"
               /\ \E x \in else_branch(s) : e = <<"jmp", end_of_scope(x)>>
  BY <1>2, <1>3, AfterEndIs
<1> HIDE DEF after
<1>12. \A e \in ToSet(a) : e \in ToSet(after) => e[1] # "bind"
  <2> SUFFICES ASSUME NEW e \in ToSet(a), e \in ToSet(after), e[1] = "bind" PROVE FALSE
    OBVIOUS
  <2>1. e = ends
    BY <1>8, <1>9, <1>10
  <2>2. e = <<"bind", loop_end_of_scope(s)>>
    BY <1>11
  <2> QED
    BY <1>7, <2>1, <2>2
<1>13. code' = code \o a \o after
  BY <1>4
<1> HIDE DEF a
<1> DEFINE E == ToSet(a) \cup ToSet(after)
<1>14. Emits(E)
  BY <1>2, <1>10, <1>11, <1>12, <1>13, EmitsTwo
<1>15. /\ IsBranch(s) => ends \in E
       /\ IsLoop(s) => <<"bind", loop_end_of_scope(s)>> \in E
       /\ \A e \in E :
            \/ e[1] \in {"destruct", "eval"}
            \/ IsBranch(s) /\ e = ends
            \/ /\ IsLoop(s)
               /\ e \in {<<"bind", loop_end_of_scope(s)>>, <<"jne", begin_of_scope(s)>>}
            \/ /\ s # main /\ opener(s).op = "if"
               /\ \E x \in else_branch(s) : e = <<"jmp", end_of_scope(x)>>
  <2>1. \A e \in ToSet(a) : e[1] = "destruct" \/ (IsBranch(s) /\ e = ends)
    BY <1>8, <1>9, <1>10
  <2> QED
    BY <1>9, <1>10, <1>11, <2>1
<1>16. Ended(scope_stack, scope_stack') /\ loop_stack' = LoopsAfterEnd
  BY <1>1, <1>3 DEF Ended, LoopsAfterEnd
<1> HIDE DEF E
<1> QED
  BY <1>1, <1>3, <1>14, <1>15, <1>16 DEF EndStep, ends

\* The steps that compile a scope, and what ends the compilation.
LEMMA StepShapes ==
  ASSUME CompilingInv, Compile
  PROVE  \/ scope_stack # <<>> /\ phase' = phase /\ UNCHANGED builderVars
            /\ (ContinueStep \/ EnterStep \/ ReturnStep \/ EndStep)
         \/ NotReported
         \/ Epilogue
<1>1. ~ compile
  BY DEF CompilingInv, compile
<1>2. CASE Declare \/ Construct \/ Break
  <2>1. UNCHANGED builderVars
    BY <1>2 DEF Declare, Construct, Break
  <2> QED
    BY <1>2, <2>1, Continues
<1>3. CASE ScopeCreate \/ If \/ Else \/ While
  <2>1. UNCHANGED builderVars
    BY <1>3 DEF ScopeCreate, If, Else, While
  <2> QED
    BY <1>3, <2>1, OpensAScope
<1>4. CASE Return
  BY <1>4, LeavesByReturn DEF Return
<1>5. CASE EndScope
  BY <1>5, LeavesAtItsEnd DEF EndScope
<1> QED
  BY <1>1, <1>2, <1>3, <1>4, <1>5 DEF Compile
-----------------------------------------------------------------------------
(* The types and the stack of loops.                                       *)

\* A step of the compiler leaves the stacks as they should be.
LEMMA StepKeeps ==
  ASSUME CompilingInv, scope_stack # <<>>,
         ContinueStep \/ EnterStep \/ ReturnStep \/ EndStep,
         NEW st2, st2 = scope_stack', NEW lp2, lp2 = loop_stack'
  PROVE  /\ StackInv(st2) /\ LoopInv(st2, lp2)
         /\ code' \in Seq(Emitted) /\ Len(code') >= Len(code)
<1>1. /\ BuilderType /\ TreeInv /\ StackInv(scope_stack) /\ LoopInv(scope_stack, loop_stack)
      /\ code \in Seq(Emitted)
  BY DEF CompilingInv
<1>2. /\ TopScope \in DOMAIN scopes /\ TopNext = scope_stack[1].iterating + 1
      /\ DOMAIN instructions(TopScope) = 1 .. Len(instructions(TopScope))
      /\ Len(instructions(TopScope)) \in Nat /\ scope_stack[1].iterating \in Nat
  BY TopSteps
<1>3. code' \in Seq(Emitted) /\ Len(code') >= Len(code)
  <2>1. \E E : Emits(E)
    BY DEF ContinueStep, EnterStep, ReturnStep, EndStep
  <2>2. PICK new \in Seq(Emitted) : code' = code \o new
    BY <2>1 DEF Emits
  <2> HIDE DEF Emitted
  <2> QED
    BY <1>1, <2>2
<1>4. ASSUME ContinueStep PROVE StackInv(st2) /\ LoopInv(st2, lp2)
  <2>1. Moves(scope_stack, st2) /\ lp2 = loop_stack /\ TopNext \in DOMAIN instructions(TopScope)
    BY <1>4 DEF ContinueStep
  <2>2. scope_stack[1].iterating < Len(instructions(scope_stack[1].scope))
    BY <1>2, <2>1 DEF TopScope
  <2> QED
    BY <1>1, <2>1, <2>2, MovesStack, MovesLoops
<1>5. ASSUME EnterStep PROVE StackInv(st2) /\ LoopInv(st2, lp2)
  <2> DEFINE c == TopIns.arg
  <2>1. /\ Enters(scope_stack, c, st2) /\ TopNext \in DOMAIN instructions(TopScope)
        /\ instructions(scope_stack[1].scope)[TopNext].op \in Opening
        /\ instructions(scope_stack[1].scope)[TopNext].arg = c
        /\ lp2 = IF IsLoop(c) THEN <<c>> \o loop_stack ELSE loop_stack
    BY <1>5 DEF EnterStep, TopIns, TopScope
  <2>2. TopNext \in DOMAIN instructions(scope_stack[1].scope)
    BY <2>1 DEF TopScope
  <2>3. TopNext = scope_stack[1].iterating + 1
    BY <1>2
  <2> HIDE DEF c
  <2>4. StackInv(st2) /\ c \in DOMAIN scopes \ {main}
    <3>1. PICK n : n = TopNext
      OBVIOUS
    <3>2. PICK d : d = c
      OBVIOUS
    <3>3. /\ Enters(scope_stack, d, st2) /\ n = scope_stack[1].iterating + 1
          /\ n \in DOMAIN instructions(scope_stack[1].scope)
          /\ instructions(scope_stack[1].scope)[n].op \in Opening
          /\ instructions(scope_stack[1].scope)[n].arg = d
      BY <2>1, <2>2, <2>3, <3>1, <3>2
    <3>4. StackInv(st2) /\ d \in DOMAIN scopes \ {main}
      BY <1>1, <3>3, EntersStack
    <3> QED
      BY <3>2, <3>4
  <2> QED
    BY <1>1, <2>1, <2>4, EntersLoops
<1>6. ASSUME ReturnStep \/ EndStep PROVE StackInv(st2) /\ LoopInv(st2, lp2)
  <2>1. /\ Ended(scope_stack, st2)
        /\ lp2 = IF IsLoop(scope_stack[1].scope) THEN Tail(loop_stack) ELSE loop_stack
    BY <1>6 DEF ReturnStep, EndStep, LoopsAfterEnd, TopScope
  <2> QED
    BY <1>1, <2>1, EndsStack, EndsLoops
<1> QED
  BY <1>3, <1>4, <1>5, <1>6

Phase == {"building", "compiling", "raised", "running", "lost", "returned"}
TypeInv ==
  /\ phase \in Phase /\ BuilderType /\ TreeInv
  /\ StackInv(scope_stack) /\ LoopInv(scope_stack, loop_stack) /\ code \in Seq(Emitted)
  /\ phase = "building" => scope_stack = <<>> /\ loop_stack = <<>> /\ code = <<>>
  /\ phase \in {"building", "compiling", "raised"} => pc = 1
  /\ pc \in 1 .. Len(code) + 1 /\ al \in BOOLEAN /\ decisions \in Seq(BOOLEAN)

LEMMA EmptyStacks == StackInv(<<>>) /\ LoopInv(<<>>, <<>>)
<1>1. DOMAIN <<>> = {} /\ <<>> \in Seq(Frame) /\ <<>> \in Seq(DOMAIN scopes)
  OBVIOUS
<1>2. StackInv(<<>>)
  BY <1>1 DEF StackInv
<1>3. LoopsOf(<<>>) = {}
  BY <1>1 DEF LoopsOf
<1>4. <<>> \in [DOMAIN <<>> -> LoopsOf(<<>>)]
  BY <1>1, <1>3
<1>5. Nesting(<<>>, <<>>, <<>>)
  BY <1>1, <1>3, <1>4 DEF Nesting
<1> QED
  BY <1>1, <1>2, <1>5 DEF LoopInv

LEMMA InitTypes == Init => TypeInv
<1> SUFFICES ASSUME Init PROVE TypeInv
  OBVIOUS
<1>1. BuilderType /\ TreeInv
  BY InitTree DEF Init
<1>2. /\ phase = "building" /\ scope_stack = <<>> /\ loop_stack = <<>> /\ code = <<>>
      /\ pc = 1 /\ al = FALSE /\ decisions = <<>>
  BY DEF Init, CompilerInit
<1>3. /\ StackInv(scope_stack) /\ LoopInv(scope_stack, loop_stack)
  BY <1>2, EmptyStacks
<1>4. code \in Seq(Emitted) /\ Len(code) = 0
  <2> HIDE DEF Emitted
  <2> QED
    BY <1>2
<1>5. pc \in 1 .. Len(code) + 1
  BY <1>2, <1>4
<1>6. al \in BOOLEAN /\ decisions \in Seq(BOOLEAN)
  <2>1. <<>> \in Seq(BOOLEAN)
    OBVIOUS
  <2>2. al \in BOOLEAN
    BY <1>2
  <2> QED
    BY <1>2, <2>1, <2>2, Zenon
<1> QED
  BY <1>1, <1>2, <1>3, <1>4, <1>5, <1>6 DEF TypeInv, Phase

\* What depends on the scopes alone stays as they do.
LEMMA SameScopes ==
  ASSUME UNCHANGED builderVars
  PROVE  /\ BuilderType => BuilderType'
         /\ TreeInv => TreeInv'
         /\ Emitted' = Emitted
         /\ \A st2 : st2 = scope_stack' /\ StackInv(st2) => StackInv(scope_stack)'
         /\ \A st2, lp2 : st2 = scope_stack' /\ lp2 = loop_stack' /\ LoopInv(st2, lp2)
                            => LoopInv(scope_stack, loop_stack)'
<1>1. scopes' = scopes /\ building' = building /\ calls' = calls
  BY DEF builderVars
<1>2. BuilderType => BuilderType'
  BY <1>1 DEF BuilderType
<1>3. TreeInv => TreeInv'
  BY <1>1 DEF TreeInv, ParentInv, ChildInv, instructions, opener
<1>4. Emitted' = Emitted
  BY <1>1 DEF Emitted, Mark
<1>5. ASSUME NEW st2, st2 = scope_stack', StackInv(st2) PROVE StackInv(scope_stack)'
  BY <1>1, <1>5 DEF StackInv, Frame, OpenedAt, instructions
<1>6. ASSUME NEW st2, NEW lp2, st2 = scope_stack', lp2 = loop_stack', LoopInv(st2, lp2)
      PROVE  LoopInv(scope_stack, loop_stack)'
  <2>1. \A s : IsLoop(s)' <=> IsLoop(s)
    BY <1>1 DEF IsLoop, opener, instructions
  <2>2. LoopsOf(scope_stack)' = LoopsOf(st2)
    BY <1>6, <2>1 DEF LoopsOf
  <2>3. PICK place : Nesting(st2, lp2, place)
    BY <1>6 DEF LoopInv
  <2>4. Nesting(scope_stack, loop_stack, place)'
    BY <1>6, <2>2, <2>3 DEF Nesting
  <2>5. loop_stack' \in Seq(DOMAIN scopes')
    BY <1>1, <1>6 DEF LoopInv
  <2> QED
    BY <2>4, <2>5 DEF LoopInv
<1> QED
  BY <1>2, <1>3, <1>4, <1>5, <1>6
\* The steps that leave the function, the stacks and the code alone.
LEMMA RunKeeps ==
  ASSUME TypeInv, UNCHANGED <<builderVars, scope_stack, loop_stack, code>>,
         phase' \in Phase, phase' = "building" => phase = "building",
         phase' \in {"building", "compiling", "raised"} => pc' = 1,
         pc' \in 1 .. Len(code) + 1, al' \in BOOLEAN, decisions' \in Seq(BOOLEAN)
  PROVE  TypeInv'
<1>1. /\ UNCHANGED builderVars /\ scope_stack' = scope_stack /\ loop_stack' = loop_stack
      /\ code' = code
  OBVIOUS
<1>2. BuilderType' /\ TreeInv' /\ Emitted' = Emitted
  BY <1>1, SameScopes DEF TypeInv
<1>3. StackInv(scope_stack)' /\ LoopInv(scope_stack, loop_stack)'
  <2>1. StackInv(scope_stack) /\ LoopInv(scope_stack, loop_stack)
    BY DEF TypeInv
  <2>2. PICK st2, lp2 : st2 = scope_stack' /\ lp2 = loop_stack'
    OBVIOUS
  <2>3. StackInv(st2) /\ LoopInv(st2, lp2)
    BY <1>1, <2>1, <2>2
  <2> QED
    BY <1>1, <2>2, <2>3, SameScopes
<1>4. code' \in Seq(Emitted')
  BY <1>1, <1>2 DEF TypeInv
<1>5. phase' = "building" => scope_stack' = <<>> /\ loop_stack' = <<>> /\ code' = <<>>
  BY <1>1 DEF TypeInv
<1>6. pc' \in 1 .. Len(code') + 1
  BY <1>1
<1> QED
  BY <1>2, <1>3, <1>4, <1>5, <1>6 DEF TypeInv, Phase

LEMMA TypeBuild ==
  ASSUME TypeInv, phase = "building", Build, UNCHANGED <<compilerVars, runVars>>
  PROVE  TypeInv'
<1>1. /\ scope_stack = <<>> /\ loop_stack = <<>> /\ code = <<>>
      /\ scope_stack' = scope_stack /\ loop_stack' = loop_stack /\ code' = code
      /\ phase' = phase /\ pc' = pc /\ al' = al /\ decisions' = decisions
  BY DEF TypeInv, compilerVars, runVars
<1>2. BuilderType' /\ TreeInv'
  BY BuildTree DEF TypeInv
<1>3. scope_stack' = <<>> /\ loop_stack' = <<>> /\ code' = <<>>
  BY <1>1
<1>4. StackInv(scope_stack)' /\ LoopInv(scope_stack, loop_stack)'
  <2>2. DOMAIN <<>> = {} /\ <<>> \in Seq(Frame') /\ <<>> \in Seq(DOMAIN scopes')
    OBVIOUS
  <2>3. StackInv(scope_stack)'
    BY <1>3, <2>2 DEF StackInv
  <2>4. LoopsOf(scope_stack)' = {}
    BY <1>3, <2>2 DEF LoopsOf
  <2>5. <<>> \in [DOMAIN <<>> -> {}]
    BY <2>2
  <2>6. Nesting(scope_stack, loop_stack, <<>>)'
    BY <1>3, <2>2, <2>4, <2>5 DEF Nesting
  <2>7. LoopInv(scope_stack, loop_stack)'
    BY <1>3, <2>2, <2>6 DEF LoopInv
  <2> QED
    BY <2>3, <2>7
<1>5. code' \in Seq(Emitted') /\ Len(code') = Len(code)
  <2>1. <<>> \in Seq(Emitted')
    <3> HIDE DEF Emitted
    <3> QED
      OBVIOUS
  <2> QED
    BY <1>1, <1>3, <2>1
<1> QED
  BY <1>1, <1>2, <1>3, <1>4, <1>5 DEF TypeInv, Phase

LEMMA TypeCompile ==
  ASSUME TypeInv, Compile, UNCHANGED runVars
  PROVE  TypeInv'
<1>1. /\ UNCHANGED builderVars /\ pc' = pc /\ al' = al /\ decisions' = decisions
  BY DEF Compile, compile, Declare, Construct, Return, ScopeCreate, NotReported, If, Else,
         While, Break, EndScope, Epilogue, runVars
<1>2. BuilderType' /\ TreeInv' /\ Emitted' = Emitted
  BY <1>1, SameScopes DEF TypeInv
<1>3. pc = 1
  BY DEF TypeInv, Compile, compile, Declare, Construct, Return, ScopeCreate, NotReported, If, Else,
         While, Break, EndScope, Epilogue, Visits, VisitsBranch
<1>4. al' \in BOOLEAN /\ decisions' \in Seq(BOOLEAN)
  BY <1>1 DEF TypeInv
<1>5. ASSUME NEW st2, NEW lp2, st2 = scope_stack', lp2 = loop_stack',
             StackInv(st2), LoopInv(st2, lp2), code' \in Seq(Emitted), Len(code') >= Len(code),
             phase' \in Phase \ {"building"}
      PROVE  TypeInv'
  <2>1. StackInv(scope_stack)' /\ LoopInv(scope_stack, loop_stack)'
    BY <1>1, <1>5, SameScopes
  <2>2. code' \in Seq(Emitted')
    BY <1>2, <1>5
  <2>3. pc' = 1 /\ pc' \in 1 .. Len(code') + 1
    <3>1. Len(code') \in Nat
      <4> HIDE DEF Emitted
      <4> QED
        BY <1>5
    <3> QED
      BY <1>1, <1>3, <3>1
  <2> QED
    BY <1>2, <1>4, <1>5, <2>1, <2>2, <2>3 DEF TypeInv, Phase
<1>6. /\ code \in Seq(Emitted) /\ Len(code) \in Nat
      /\ StackInv(scope_stack) /\ LoopInv(scope_stack, loop_stack)
  <2>1. /\ code \in Seq(Emitted)
        /\ StackInv(scope_stack) /\ LoopInv(scope_stack, loop_stack)
    BY DEF TypeInv
  <2> HIDE DEF Emitted
  <2> QED
    BY <2>1
<1>7. PICK st2, lp2 : st2 = scope_stack' /\ lp2 = loop_stack'
  OBVIOUS
<1>8. CASE compile
  <2> DEFINE f == [scope |-> main, iterating |-> 0]
  <2>1. /\ scope_stack' = <<f>> /\ loop_stack' = loop_stack /\ code' = code
        /\ phase' = "compiling" /\ loop_stack = <<>>
    BY <1>8 DEF compile, TypeInv
  <2>2. main \in DOMAIN scopes /\ Len(instructions(main)) \in Nat
    BY ScopeTyped DEF TypeInv, TreeInv, BuilderType
  <2>3. f \in Frame /\ f.scope = main /\ f.iterating = 0
    BY <2>2 DEF Frame
  <2>4. st2 = <<f>>
    BY <1>7, <2>1
  <2> HIDE DEF f
  <2>5. st2 \in Seq(Frame) /\ DOMAIN st2 = {1} /\ Len(st2) = 1 /\ st2[1] = f
    <3> HIDE DEF Frame
    <3> QED
      BY <2>3, <2>4
  <2>6. StackInv(st2)
    BY <2>2, <2>3, <2>5 DEF StackInv
  <2>7. lp2 = <<>>
    BY <1>7, <2>1
  <2>8. LoopsOf(st2) = {}
    BY <2>3, <2>5 DEF LoopsOf, IsLoop
  <2>9. DOMAIN <<>> = {} /\ <<>> \in [{} -> {}] /\ <<>> \in Seq(DOMAIN scopes)
    OBVIOUS
  <2>10. Nesting(st2, lp2, <<>>)
    BY <2>7, <2>8, <2>9 DEF Nesting
  <2>11. LoopInv(st2, lp2)
    BY <2>7, <2>9, <2>10 DEF LoopInv
  <2> QED
    BY <1>5, <1>6, <1>7, <2>1, <2>6, <2>11 DEF Phase
<1>9. CASE ~ compile
  <2>1. CompilingInv
    BY <1>9 DEF TypeInv, CompilingInv, Compile, Declare, Construct, Return, ScopeCreate,
       NotReported, If, Else, While, Break, EndScope, Epilogue, Visits, VisitsBranch
  <2>2. CASE scope_stack # <<>> /\ phase' = phase
             /\ (ContinueStep \/ EnterStep \/ ReturnStep \/ EndStep)
    <3>1. StackInv(st2) /\ LoopInv(st2, lp2) /\ code' \in Seq(Emitted) /\ Len(code') >= Len(code)
      BY <1>7, <2>1, <2>2, StepKeeps
    <3>2. phase' \in Phase \ {"building"}
      BY <2>1, <2>2 DEF CompilingInv, Phase
    <3> QED
      BY <1>5, <1>7, <3>1, <3>2
  <2>3. CASE NotReported
    <3>1. /\ scope_stack' = scope_stack /\ loop_stack' = loop_stack /\ code' = code
          /\ phase' = "raised"
      BY <2>3 DEF NotReported
    <3> QED
      BY <1>5, <1>6, <1>7, <3>1 DEF Phase
  <2>4. CASE Epilogue
    <3> DEFINE x == <<"bind", exit_label>>
    <3>1. /\ scope_stack' = scope_stack /\ loop_stack' = loop_stack /\ code' = code \o <<x>>
          /\ phase' = "running"
      BY <2>4 DEF Epilogue
    <3>2. x \in Emitted
      BY EmittedIs
    <3>3. code' \in Seq(Emitted) /\ Len(code') >= Len(code)
      <4> HIDE DEF Emitted, x
      <4> QED
        BY <1>6, <3>1, <3>2
    <3> QED
      BY <1>5, <1>6, <1>7, <3>1, <3>3 DEF Phase
  <2> QED
    BY <2>1, <2>2, <2>3, <2>4, StepShapes
<1> QED
  BY <1>8, <1>9

LEMMA TypeExecute ==
  ASSUME TypeInv, Execute, UNCHANGED <<builderVars, scope_stack, loop_stack, code>>
  PROVE  TypeInv'
<1>1. /\ phase = "running" /\ pc \in Nat /\ pc >= 1 /\ pc <= Len(code)
      /\ Len(code) \in Nat /\ DOMAIN code = 1 .. Len(code)
      /\ al \in BOOLEAN /\ decisions \in Seq(BOOLEAN) /\ phase \in Phase
  <2>1. phase = "running" /\ pc <= Len(code)
    BY DEF Execute, Call, Label, Eval, JumpIf, JumpAlways, At
  <2>2. code \in Seq(Emitted) /\ pc \in 1 .. Len(code) + 1
        /\ al \in BOOLEAN /\ decisions \in Seq(BOOLEAN) /\ phase \in Phase
    BY DEF TypeInv
  <2>3. Len(code) \in Nat /\ DOMAIN code = 1 .. Len(code)
    <3> HIDE DEF Emitted
    <3> QED
      BY <2>2
  <2> QED
    BY <2>1, <2>2, <2>3
<1>2. ASSUME Advance PROVE pc' \in 1 .. Len(code) + 1 /\ phase' = phase
  BY <1>1, <1>2 DEF Advance
<1>3. ASSUME NEW l, Jump(l) PROVE pc' \in 1 .. Len(code) + 1 /\ phase' \in {"running", "lost"}
  <2>1. CASE phase' = "lost" /\ UNCHANGED pc
    BY <1>1, <2>1
  <2>2. CASE pc' \in { k \in DOMAIN code : code[k] = <<"bind", l>> } /\ UNCHANGED phase
    BY <1>1, <2>2
  <2> QED
    BY <1>3, <2>1, <2>2 DEF Jump
<1>4. pc' \in 1 .. Len(code) + 1 /\ phase' \in {"running", "lost"}
  <2>1. CASE Call
    BY <1>1, <1>2, <2>1 DEF Call
  <2>2. CASE Label
    BY <1>1, <1>2, <2>2 DEF Label
  <2>3. CASE Eval
    BY <1>1, <1>2, <2>3 DEF Eval
  <2>4. CASE JumpIf
    BY <1>1, <1>2, <1>3, <2>4 DEF JumpIf
  <2>5. CASE JumpAlways
    BY <1>1, <1>3, <2>5 DEF JumpAlways
  <2> QED
    BY <2>1, <2>2, <2>3, <2>4, <2>5 DEF Execute
<1>5. al' \in BOOLEAN /\ decisions' \in Seq(BOOLEAN)
  <2>1. CASE Eval
    <3>1. al' \in BOOLEAN /\ decisions' = Append(decisions, al')
      BY <2>1 DEF Eval
    <3>2. Append(decisions, al') \in Seq(BOOLEAN)
      BY <1>1, <3>1, Appended
    <3> QED
      BY <3>1, <3>2
  <2>2. CASE ~ Eval
    <3>1. al' = al /\ decisions' = decisions
      BY <2>2 DEF Execute, Call, Label, JumpIf, JumpAlways
    <3> QED
      BY <1>1, <3>1, Zenon
  <2> QED
    BY <2>1, <2>2
<1> QED
  BY <1>1, <1>4, <1>5, RunKeeps DEF Phase

LEMMA TypeNext == TypeInv /\ [Next]_vars => TypeInv'
<1> SUFFICES ASSUME TypeInv, [Next]_vars PROVE TypeInv'
  OBVIOUS
<1>1. CASE phase = "building" /\ Build /\ UNCHANGED <<compilerVars, runVars>>
  BY <1>1, TypeBuild
<1>2. CASE Compile /\ UNCHANGED runVars
  BY <1>2, TypeCompile
<1>3. CASE Execute /\ UNCHANGED <<builderVars, scope_stack, loop_stack, code>>
  BY <1>3, TypeExecute
<1>4. CASE Leave /\ UNCHANGED <<builderVars, scope_stack, loop_stack, code>>
  <2>1. phase' = "returned" /\ pc' = pc /\ al' = al /\ decisions' = decisions
    BY <1>4 DEF Leave, runVars
  <2> QED
    BY <1>4, <2>1, RunKeeps DEF TypeInv, Phase
<1>5. CASE UNCHANGED vars
  <2>1. /\ UNCHANGED <<builderVars, scope_stack, loop_stack, code>>
        /\ phase' = phase /\ pc' = pc /\ al' = al /\ decisions' = decisions
    BY <1>5 DEF vars, compilerVars, runVars
  <2> QED
    BY <2>1, RunKeeps DEF TypeInv, Phase
<1> QED
  BY <1>1, <1>2, <1>3, <1>4, <1>5 DEF Next

\* The compiler's stacks, its code and the tree of scopes they are about keep their shape
\* through building, compiling and running: each scope on the stack was opened by the
\* instruction the scope below it has reached, and the stack of loops is the loops of it.
THEOREM TypesHold == Spec => []TypeInv
<1>1. Init => TypeInv
  BY InitTypes
<1>2. TypeInv /\ [Next]_vars => TypeInv'
  BY TypeNext
<1> QED
  BY <1>1, <1>2, PTL DEF Spec

\* The compiler's stacks hold scopes of the function, no further on than their last
\* instruction, and a run stays within the code: TypeOK of CompiledCode.tla, whatever the
\* program.
THEOREM TypeCorrect == Spec => []TypeOK
<1>1. TypeInv => TypeOK
  <2> SUFFICES ASSUME TypeInv PROVE TypeOK
    OBVIOUS
  <2>1. /\ phase \in Phase /\ scopes \in Seq(Scope) /\ building \in DOMAIN scopes
        /\ calls \in 0 .. MaxCalls /\ loop_stack \in Seq(DOMAIN scopes)
        /\ pc \in 1 .. Len(code) + 1 /\ al \in BOOLEAN /\ decisions \in Seq(BOOLEAN)
        /\ scope_stack \in Seq([scope : DOMAIN scopes, iterating : Nat])
        /\ \A k \in DOMAIN scope_stack :
             scope_stack[k].iterating <= Len(instructions(scope_stack[k].scope))
    BY DEF TypeInv, BuilderType, LoopInv, StackInv, Frame
  <2> QED
    BY <2>1 DEF TypeOK, Phase
<1> QED
  BY <1>1, TypesHold, PTL

\* The loop a break leaves is the innermost one: whatever the program, the stack of loops is
\* the loops of the stack of scopes, in their order.
THEOREM LoopsAreNested == Spec => []LoopsNested
<1>1. TypeInv => LoopsNested
  <2> SUFFICES ASSUME TypeInv PROVE LoopsNested
    OBVIOUS
  <2>1. PICK place : Nesting(scope_stack, loop_stack, place)
    BY DEF TypeInv, LoopInv
  <2> QED
    BY <2>1 DEF Nesting, LoopsOf, LoopsNested
<1> QED
  BY <1>1, TypesHold, PTL
-----------------------------------------------------------------------------
(* The labels.  The stack as the set of its frames: a scope is in one of   *)
(* them at most, and the scopes that have been left are in a set of their  *)
(* own, so that no scope is compiled twice.                                *)

LEMMA FramesAre ==
  ASSUME BuilderType, NEW st, StackInv(st)
  PROVE  /\ \A f \in ToSet(st) : f.scope \in DOMAIN scopes /\ f.iterating \in Nat
         /\ \A f, g \in ToSet(st) : f.scope = g.scope => f = g
         /\ st # <<>> => st[1] \in ToSet(st)
<1>1. st \in Seq(Frame)
  BY DEF StackInv
<1>2. /\ DOMAIN st = 1 .. Len(st) /\ Len(st) \in Nat /\ \A k \in DOMAIN st : st[k] \in Frame
      /\ st # <<>> => 1 \in DOMAIN st
  <2> HIDE DEF Frame
  <2> QED
    BY <1>1
<1>3. \A k \in DOMAIN st : st[k].scope \in DOMAIN scopes /\ st[k].iterating \in Nat
  BY <1>2 DEF Frame
<1>4. \A k \in DOMAIN scopes : k \in Nat
  BY ScopeTyped DEF BuilderType
<1>5. ASSUME NEW j \in DOMAIN st, NEW k \in DOMAIN st, st[j].scope = st[k].scope PROVE j = k
  <2>1. ~ (j < k) /\ ~ (k < j)
    BY <1>3, <1>4, <1>5 DEF StackInv
  <2> QED
    BY <1>2, <2>1
<1> QED
  BY <1>2, <1>3, <1>5 DEF ToSet

LEMMA MovesFrames ==
  ASSUME BuilderType, NEW st, StackInv(st), NEW st2, Moves(st, st2)
  PROVE  ToSet(st2) = (ToSet(st) \ {st[1]}) \cup {Moved(st[1])}
<1> DEFINE m == Moved(st[1])
<1>1. st # <<>> /\ st \in Seq(Frame)
  BY DEF Moves, StackInv
<1>2. Head(st) = st[1] /\ m \in Frame /\ Len(st) \in Nat \ {0} /\ DOMAIN st = 1 .. Len(st)
  BY <1>1, TopIs
<1>3. st2 = <<m>> \o Tail(st)
  BY <1>2 DEF Moves
<1> HIDE DEF m
<1>4. /\ DOMAIN st2 = 1 .. Len(st) /\ st2[1] = m /\ \A k \in 2 .. Len(st) : st2[k] = st[k]
  BY <1>1, <1>2, <1>3, Stacked
<1>5. ASSUME NEW k \in DOMAIN st, k # 1 PROVE st[k] # st[1] /\ k \in 2 .. Len(st)
  <2>1. 1 \in DOMAIN st /\ 1 < k /\ k \in 2 .. Len(st)
    BY <1>2, <1>5
  <2>2. st[k].scope < st[1].scope /\ st[1].scope \in Nat
    BY <1>1, <2>1, TopIs, ScopeTyped DEF StackInv, BuilderType
  <2> QED
    BY <2>1, <2>2
<1>6. 1 \in DOMAIN st
  BY <1>2
<1> QED
  BY <1>2, <1>4, <1>5, <1>6 DEF ToSet, m

LEMMA EndsFrames ==
  ASSUME BuilderType, NEW st, StackInv(st), NEW st2, Ended(st, st2)
  PROVE  ToSet(st2) = ToSet(st) \ {st[1]}
<1>1. st # <<>> /\ st \in Seq(Frame)
  BY DEF Ended, StackInv
<1>2. /\ Len(st) \in Nat \ {0} /\ DOMAIN st = 1 .. Len(st)
      /\ DOMAIN st2 = 1 .. Len(st) - 1 /\ \A k \in DOMAIN st2 : st2[k] = st[k + 1]
  BY <1>1, TopIs, EndsStack
<1>3. ASSUME NEW k \in DOMAIN st, k # 1
      PROVE  st[k] # st[1] /\ k - 1 \in DOMAIN st2 /\ st2[k - 1] = st[k]
  <2>1. 1 \in DOMAIN st /\ 1 < k /\ k - 1 \in DOMAIN st2 /\ (k - 1) + 1 = k
    BY <1>2, <1>3
  <2>2. st[k].scope < st[1].scope /\ st[1].scope \in Nat
    BY <1>1, <2>1, TopIs, ScopeTyped DEF StackInv, BuilderType
  <2>3. st2[k - 1] = st[(k - 1) + 1]
    BY <1>2, <2>1
  <2> QED
    BY <2>1, <2>2, <2>3
<1>4. ASSUME NEW k \in DOMAIN st2 PROVE k + 1 \in DOMAIN st /\ k + 1 # 1 /\ st2[k] = st[k + 1]
  BY <1>2
<1>5. ASSUME NEW f \in ToSet(st2) PROVE f \in ToSet(st) \ {st[1]}
  BY <1>3, <1>4 DEF ToSet
<1>6. ASSUME NEW f \in ToSet(st) \ {st[1]} PROVE f \in ToSet(st2)
  <2>1. PICK k \in DOMAIN st : f = st[k]
    BY DEF ToSet
  <2>2. k - 1 \in DOMAIN st2 /\ st2[k - 1] = f
    BY <1>3, <2>1
  <2> QED
    BY <2>2 DEF ToSet
<1> QED
  BY <1>5, <1>6

LEMMA EntersFrames ==
  ASSUME BuilderType, NEW st, StackInv(st), NEW c \in DOMAIN scopes, NEW st2, Enters(st, c, st2)
  PROVE  ToSet(st2) = (ToSet(st) \ {st[1]}) \cup {Moved(st[1]), [scope |-> c, iterating |-> 0]}
<1> DEFINE m == Moved(st[1])
           f == [scope |-> c, iterating |-> 0]
<1>1. st # <<>> /\ st \in Seq(Frame)
  BY DEF Enters, StackInv
<1>2. /\ Head(st) = st[1] /\ m \in Frame /\ Len(st) \in Nat \ {0} /\ DOMAIN st = 1 .. Len(st)
      /\ f \in Frame
  BY <1>1, TopIs DEF Frame
<1>3. st2 = <<f, m>> \o Tail(st)
  BY <1>2 DEF Enters
<1> HIDE DEF m, f
<1>4. /\ DOMAIN st2 = 1 .. Len(st) + 1 /\ st2[1] = f /\ st2[2] = m
      /\ \A k \in 2 .. Len(st) : st2[k + 1] = st[k]
  BY <1>1, <1>2, <1>3, Stacked
<1>5. ASSUME NEW k \in DOMAIN st, k # 1
      PROVE  st[k] # st[1] /\ k + 1 \in DOMAIN st2 /\ st2[k + 1] = st[k]
  <2>1. 1 \in DOMAIN st /\ 1 < k /\ k \in 2 .. Len(st) /\ k + 1 \in DOMAIN st2
    BY <1>2, <1>4, <1>5
  <2>2. st[k].scope < st[1].scope /\ st[1].scope \in Nat
    BY <1>1, <2>1, TopIs, ScopeTyped DEF StackInv, BuilderType
  <2> QED
    BY <1>4, <2>1, <2>2
<1>6. 1 \in DOMAIN st2 /\ 2 \in DOMAIN st2
  BY <1>2, <1>4
<1>7. ASSUME NEW k \in DOMAIN st2, k \notin {1, 2}
      PROVE  k - 1 \in DOMAIN st /\ k - 1 # 1 /\ st2[k] = st[k - 1]
  <2>1. k - 1 \in 2 .. Len(st) /\ (k - 1) + 1 = k
    BY <1>2, <1>4, <1>7
  <2>2. st2[(k - 1) + 1] = st[k - 1]
    BY <1>4, <2>1
  <2> QED
    BY <1>2, <2>1, <2>2
<1>8. ASSUME NEW x \in ToSet(st2) PROVE x \in (ToSet(st) \ {st[1]}) \cup {m, f}
  <2>1. PICK k \in DOMAIN st2 : x = st2[k]
    BY DEF ToSet
  <2>2. CASE k \in {1, 2}
    BY <1>4, <2>1, <2>2
  <2>3. CASE k \notin {1, 2}
    BY <1>5, <1>7, <2>1, <2>3 DEF ToSet
  <2> QED
    BY <2>2, <2>3
<1>9. ASSUME NEW x \in (ToSet(st) \ {st[1]}) \cup {m, f} PROVE x \in ToSet(st2)
  <2>1. CASE x \in ToSet(st) \ {st[1]}
    <3>1. PICK k \in DOMAIN st : x = st[k] /\ k # 1
      BY <2>1 DEF ToSet
    <3> QED
      BY <1>5, <3>1 DEF ToSet
  <2>2. CASE x \in {m, f}
    BY <1>4, <1>6, <2>2 DEF ToSet
  <2> QED
    BY <1>9, <2>1, <2>2
<1> QED
  BY <1>8, <1>9 DEF m, f
\* What is left of the functions the compiler gets right: no loop returns in its body, and a
\* loop or an else has instructions.
Sound == \A s \in DOMAIN scopes : LoopsDoNotReturn(s) /\ LoopsAndElsesHaveInstructions(s)

binds(l) == <<"bind", l>>
OnIt(F, s) == \E f \in F : f.scope = s
Fresh(F, s) == \E f \in F : f.scope = s /\ f.iterating = 0
Coming(F, s) == \E f \in F : f.scope = scopes[s].parent_scope /\ f.iterating + 1 = scopes[s].opener

\* A scope that has been left, or is on the stack, was opened by an instruction that is passed.
Passed(F, D) ==
  /\ D \subseteq DOMAIN scopes
  /\ \A f \in F : f.scope \notin D
  /\ \A x \in DOMAIN scopes \ {main} :
       x \in D \/ OnIt(F, x) =>
         \/ scopes[x].parent_scope \in D
         \/ \E f \in F : f.scope = scopes[x].parent_scope /\ scopes[x].opener <= f.iterating

\* The labels at the end of a scope are bound as it is left, the one at the beginning before.
BoundInTime(F, D, C) ==
  /\ \A x \in DOMAIN scopes :
       /\ binds(end_of_scope(x)) \in C \/ binds(loop_end_of_scope(x)) \in C => x \in D
       /\ binds(begin_of_scope(x)) \in C =>
            x \in D \/ \E f \in F : f.scope = x /\ f.iterating >= 1
  /\ binds(exit_label) \notin C
  /\ \A f \in F : IsBranch(f.scope) /\ f.iterating >= 1 => binds(begin_of_scope(f.scope)) \in C

\* A label a jump leads to that is not bound yet belongs to a scope that is being compiled or
\* is the next one to be.
Owed(F, l) ==
  \/ l = exit_label
  \/ \E s \in DOMAIN scopes :
       /\ IsBranch(s)
       /\ \/ l = end_of_scope(s) /\ (OnIt(F, s) \/ Coming(F, s))
          \/ l = begin_of_scope(s) /\ instructions(s) # <<>> /\ (Fresh(F, s) \/ Coming(F, s))
          \/ l = loop_end_of_scope(s) /\ IsLoop(s) /\ OnIt(F, s)
Owing(F, C) == \A e \in C : e[1] \in Jumping => binds(e[2]) \in C \/ Owed(F, e[2])

LabelsInv(F, C) == \E D \in SUBSET DOMAIN scopes : Passed(F, D) /\ BoundInTime(F, D, C) /\ Owing(F, C)
JumpsInv ==
  Sound =>
    /\ phase \in {"compiling", "running", "lost", "returned"} => OnceIn(code)
    /\ phase = "compiling" => LabelsInv(ToSet(scope_stack), ToSet(code))
    /\ phase \in {"running", "lost", "returned"} =>
         \A e \in ToSet(code) : e[1] \in Jumping => binds(e[2]) \in ToSet(code)

\* The instructions added keep a label bound once.
LEMMA Grows ==
  ASSUME code \in Seq(Emitted), OnceIn(code), NEW E, Emits(E),
         \A e \in E : e \in ToSet(code) => e[1] # "bind"
  PROVE  OnceIn(code') /\ ToSet(code') = ToSet(code) \cup E
<1>1. PICK new \in Seq(Emitted) : ToSet(new) = E /\ OnceIn(new) /\ code' = code \o new
  BY DEF Emits
<1>2. \A e \in ToSet(code) : e \in ToSet(new) => e[1] # "bind"
  BY <1>1
<1>3. OnceIn(code \o new) /\ ToSet(code \o new) = ToSet(code) \cup ToSet(new)
  BY <1>1, <1>2, EmittedJoined
<1> QED
  BY <1>1, <1>3, Zenon

\* What is owed stays so or is bound.
LEMMA OwingKept ==
  ASSUME NEW F, NEW F2, NEW C, NEW E, Owing(F, C),
         \A s \in DOMAIN scopes : IsBranch(s) =>
           /\ OnIt(F, s) => OnIt(F2, s) \/ /\ binds(end_of_scope(s)) \in E
                                           /\ IsLoop(s) => binds(loop_end_of_scope(s)) \in E
           /\ Coming(F, s) => Coming(F2, s) \/ Fresh(F2, s)
           /\ Fresh(F, s) /\ instructions(s) # <<>> => Fresh(F2, s) \/ binds(begin_of_scope(s)) \in E,
         \A e \in E : e[1] \in Jumping => binds(e[2]) \in C \cup E \/ Owed(F2, e[2])
  PROVE  Owing(F2, C \cup E)
<1>1. \A s : Fresh(F2, s) => OnIt(F2, s)
  BY DEF Fresh, OnIt
<1>2. ASSUME NEW l, Owed(F, l) PROVE binds(l) \in E \/ Owed(F2, l)
  <2>1. CASE l = exit_label
    BY <2>1 DEF Owed
  <2>2. ASSUME NEW s \in DOMAIN scopes, IsBranch(s), l = end_of_scope(s), OnIt(F, s) \/ Coming(F, s)
        PROVE  binds(l) \in E \/ Owed(F2, l)
    BY <1>1, <2>2 DEF Owed
  <2>3. ASSUME NEW s \in DOMAIN scopes, IsBranch(s), l = begin_of_scope(s), instructions(s) # <<>>,
               Fresh(F, s) \/ Coming(F, s)
        PROVE  binds(l) \in E \/ Owed(F2, l)
    BY <2>3 DEF Owed
  <2>4. ASSUME NEW s \in DOMAIN scopes, IsBranch(s), l = loop_end_of_scope(s), IsLoop(s), OnIt(F, s)
        PROVE  binds(l) \in E \/ Owed(F2, l)
    BY <2>4 DEF Owed
  <2> QED
    BY <1>2, <2>1, <2>2, <2>3, <2>4 DEF Owed
<1>3. ASSUME NEW e \in C \cup E, e[1] \in Jumping
      PROVE  binds(e[2]) \in C \cup E \/ Owed(F2, e[2])
  <2>1. CASE e \in C
    <3>1. binds(e[2]) \in C \/ Owed(F, e[2])
      BY <1>3, <2>1 DEF Owing
    <3>2. Owed(F, e[2]) => binds(e[2]) \in E \/ Owed(F2, e[2])
      BY <1>2
    <3> QED
      BY <3>1, <3>2
  <2>2. CASE e \in E
    BY <1>3, <2>2
  <2> QED
    BY <2>1, <2>2
<1> QED
  BY <1>3 DEF Owing

\* The scopes of Passed as the top of the stack moves on, opens a scope and ends.
FramesMoved(F, t) == (F \ {t}) \cup {Moved(t)}

LEMMA PassedMoves ==
  ASSUME NEW F, NEW D, Passed(F, D), NEW t \in F,
         \A f \in F : f.scope \in DOMAIN scopes /\ f.iterating \in Nat,
         \A x \in DOMAIN scopes \ {main} : scopes[x].opener \in Nat
  PROVE  /\ Passed(FramesMoved(F, t), D)
         /\ \A x : OnIt(FramesMoved(F, t), x) <=> OnIt(F, x)
<1> DEFINE F2 == FramesMoved(F, t)
<1>1. Moved(t).scope = t.scope /\ Moved(t).iterating = t.iterating + 1
  BY DEF Moved
<1> DEFINE m == Moved(t)
<1> HIDE DEF m
<1>2. m.scope = t.scope /\ m.iterating = t.iterating + 1 /\ F2 = (F \ {t}) \cup {m}
  BY <1>1 DEF m, FramesMoved
<1> HIDE DEF F2
<1>3. \A x : OnIt(F2, x) <=> OnIt(F, x)
  BY <1>2 DEF OnIt
<1>4. ASSUME NEW x \in DOMAIN scopes \ {main}, x \in D \/ OnIt(F2, x)
      PROVE  \/ scopes[x].parent_scope \in D
             \/ \E f \in F2 : f.scope = scopes[x].parent_scope /\ scopes[x].opener <= f.iterating
  <2>1. CASE scopes[x].parent_scope \in D
    BY <2>1
  <2>2. ASSUME NEW f \in F, f.scope = scopes[x].parent_scope, scopes[x].opener <= f.iterating
        PROVE  \E g \in F2 : g.scope = scopes[x].parent_scope /\ scopes[x].opener <= g.iterating
    <3>1. CASE f = t
      <4>1. scopes[x].opener <= m.iterating
        BY <1>2, <2>2, <3>1
      <4> QED
        BY <1>2, <2>2, <3>1, <4>1
    <3>2. CASE f # t
      BY <1>2, <2>2, <3>2
    <3> QED
      BY <3>1, <3>2
  <2> QED
    BY <1>3, <1>4, <2>1, <2>2 DEF Passed
<1>5. D \subseteq DOMAIN scopes /\ \A f \in F2 : f.scope \notin D
  BY <1>2 DEF Passed
<1>6. Passed(F2, D)
  BY <1>4, <1>5 DEF Passed
<1> QED
  BY <1>3, <1>6 DEF F2

LEMMA PassedEnters ==
  ASSUME NEW F, NEW D, Passed(F, D), NEW c \in DOMAIN scopes \ {main}, NEW F2,
         NEW g, F2 = F \cup {g}, g.scope = c, ~ OnIt(F, c), NEW m \in F,
         \A f \in F : f.scope = m.scope => f = m,
         scopes[c].parent_scope = m.scope, scopes[c].opener <= m.iterating
  PROVE  c \notin D => Passed(F2, D)
<1> SUFFICES ASSUME c \notin D PROVE Passed(F2, D)
  OBVIOUS
<1>1. ASSUME NEW x \in DOMAIN scopes \ {main}, x \in D \/ OnIt(F2, x)
      PROVE  \/ scopes[x].parent_scope \in D
             \/ \E f \in F2 : f.scope = scopes[x].parent_scope /\ scopes[x].opener <= f.iterating
  <2>1. CASE x = c
    BY <2>1
  <2>2. CASE x # c
    <3>1. x \in D \/ OnIt(F, x)
      BY <1>1, <2>2 DEF OnIt
    <3> QED
      BY <3>1 DEF Passed
  <2> QED
    BY <2>1, <2>2
<1> QED
  BY <1>1 DEF Passed

LEMMA PassedEnds ==
  ASSUME NEW F, NEW D, Passed(F, D), NEW t \in F, t.scope \in DOMAIN scopes,
         \A f, g \in F : f.scope = g.scope => f = g,
         NEW F2, F2 = F \ {t}, NEW D2, D2 = D \cup {t.scope}
  PROVE  Passed(F2, D2)
<1>1. ASSUME NEW x \in DOMAIN scopes \ {main}, x \in D2 \/ OnIt(F2, x)
      PROVE  \/ scopes[x].parent_scope \in D2
             \/ \E f \in F2 : f.scope = scopes[x].parent_scope /\ scopes[x].opener <= f.iterating
  <2>1. x \in D \/ OnIt(F, x)
    BY <1>1 DEF OnIt
  <2>2. \/ scopes[x].parent_scope \in D
        \/ \E f \in F : f.scope = scopes[x].parent_scope /\ scopes[x].opener <= f.iterating
    BY <2>1 DEF Passed
  <2> QED
    BY <2>2
<1>2. D2 \subseteq DOMAIN scopes /\ \A f \in F2 : f.scope \notin D2
  BY DEF Passed
<1> QED
  BY <1>1, <1>2 DEF Passed
LEMMA BoundKept ==
  ASSUME NEW F, NEW D, NEW C, BoundInTime(F, D, C), NEW E, NEW F2, NEW D2, D \subseteq D2,
         \A x \in DOMAIN scopes :
           /\ binds(end_of_scope(x)) \in E \/ binds(loop_end_of_scope(x)) \in E => x \in D2
           /\ binds(begin_of_scope(x)) \in E =>
                x \in D2 \/ \E f \in F2 : f.scope = x /\ f.iterating >= 1,
         \A f \in F : f.iterating >= 1 =>
           f.scope \in D2 \/ \E g \in F2 : g.scope = f.scope /\ g.iterating >= 1,
         binds(exit_label) \notin E,
         \A f \in F2 : IsBranch(f.scope) /\ f.iterating >= 1 =>
           binds(begin_of_scope(f.scope)) \in C \cup E
  PROVE  BoundInTime(F2, D2, C \cup E)
<1>1. ASSUME NEW x \in DOMAIN scopes,
             binds(end_of_scope(x)) \in C \cup E \/ binds(loop_end_of_scope(x)) \in C \cup E
      PROVE  x \in D2
  BY <1>1 DEF BoundInTime
<1>2. ASSUME NEW x \in DOMAIN scopes, binds(begin_of_scope(x)) \in C \cup E
      PROVE  x \in D2 \/ \E f \in F2 : f.scope = x /\ f.iterating >= 1
  <2>1. CASE binds(begin_of_scope(x)) \in E
    BY <2>1
  <2>2. CASE binds(begin_of_scope(x)) \in C
    <3>1. x \in D \/ \E f \in F : f.scope = x /\ f.iterating >= 1
      BY <2>2 DEF BoundInTime
    <3> QED
      BY <3>1
  <2> QED
    BY <1>2, <2>1, <2>2
<1>3. binds(exit_label) \notin C \cup E
  BY DEF BoundInTime
<1> QED
  BY <1>1, <1>2, <1>3 DEF BoundInTime

\* The label at the beginning of the scope at the top.
LEMMA BeginsOnce ==
  ASSUME CompilingInv, scope_stack # <<>>, NEW F, F = ToSet(scope_stack), NEW D, Passed(F, D),
         NEW C, BoundInTime(F, D, C), NEW t, t = scope_stack[1]
  PROVE  /\ t \in F /\ t.scope = TopScope /\ t.iterating + 1 = TopNext /\ t.iterating \in Nat
         /\ t.scope \in DOMAIN scopes /\ t.scope \notin D
         /\ \A f \in F : f.scope \in DOMAIN scopes /\ f.iterating \in Nat
         /\ \A f, g \in F : f.scope = g.scope => f = g
         /\ \A e \in BeginSet : /\ e = binds(begin_of_scope(t.scope)) /\ e \notin C
                                /\ IsBranch(t.scope) /\ t.iterating = 0
         /\ IsBranch(t.scope) => binds(begin_of_scope(t.scope)) \in C \cup BeginSet
         /\ IsBranch(t.scope) /\ t.iterating = 0 => binds(begin_of_scope(t.scope)) \in BeginSet
<1>1. BuilderType /\ StackInv(scope_stack)
  BY DEF CompilingInv
<1>2. /\ t \in F /\ \A f \in F : f.scope \in DOMAIN scopes /\ f.iterating \in Nat
      /\ \A f, g \in F : f.scope = g.scope => f = g
  BY <1>1, FramesAre
<1>3. t.scope = TopScope /\ t.iterating + 1 = TopNext /\ t.iterating \in Nat
      /\ t.scope \in DOMAIN scopes /\ t.scope \notin D
  BY <1>2 DEF TopScope, TopNext, Passed
<1>4. TopNext = 1 <=> t.iterating = 0
  BY <1>3
<1>5. BeginSet = IF IsBranch(t.scope) /\ t.iterating = 0 THEN {binds(begin_of_scope(t.scope))} ELSE {}
  BY <1>3, <1>4 DEF BeginSet, binds
<1>6. t.iterating = 0 => binds(begin_of_scope(t.scope)) \notin C
  <2> SUFFICES ASSUME t.iterating = 0, binds(begin_of_scope(t.scope)) \in C PROVE FALSE
    OBVIOUS
  <2>1. PICK f \in F : f.scope = t.scope /\ f.iterating >= 1
    BY <1>3 DEF BoundInTime
  <2>2. f = t
    BY <1>2, <2>1
  <2> QED
    BY <2>1, <2>2
<1>7. IsBranch(t.scope) => binds(begin_of_scope(t.scope)) \in C \cup BeginSet
  <2>1. CASE t.iterating = 0
    BY <1>5, <2>1
  <2>2. CASE t.iterating # 0
    <3>1. t.iterating >= 1
      BY <1>3, <2>2
    <3> QED
      BY <1>2, <3>1 DEF BoundInTime
  <2> QED
    BY <2>1, <2>2
<1> QED
  BY <1>2, <1>3, <1>5, <1>6, <1>7

\* A scope opened by an instruction is the one the instruction names.
LEMMA OpenedBy ==
  ASSUME TreeInv, NEW s \in DOMAIN scopes \ {main}, NEW p, p = scopes[s].parent_scope,
         NEW k, k = scopes[s].opener
  PROVE  /\ p \in DOMAIN scopes /\ k \in DOMAIN instructions(p) /\ opener(s) = instructions(p)[k]
         /\ instructions(p)[k].op \in Opening /\ instructions(p)[k].arg = s
  BY DEF TreeInv, ParentInv, opener

LEMMA OpenersNatural ==
  ASSUME BuilderType, TreeInv
  PROVE  \A x \in DOMAIN scopes \ {main} : scopes[x].opener \in Nat
<1> SUFFICES ASSUME NEW x \in DOMAIN scopes \ {main} PROVE scopes[x].opener \in Nat
  OBVIOUS
<1>1. scopes[x].parent_scope \in DOMAIN scopes
      /\ scopes[x].opener \in DOMAIN instructions(scopes[x].parent_scope)
  BY DEF TreeInv, ParentInv
<1> QED
  BY <1>1, ScopeTyped DEF BuilderType

LEMMA LabelsContinue ==
  ASSUME CompilingInv, scope_stack # <<>>, OnceIn(code), ContinueStep,
         LabelsInv(ToSet(scope_stack), ToSet(code)), NEW st2, st2 = scope_stack'
  PROVE  OnceIn(code') /\ LabelsInv(ToSet(st2), ToSet(code'))
<1>1. /\ BuilderType /\ TreeInv /\ StackInv(scope_stack) /\ LoopInv(scope_stack, loop_stack)
      /\ code \in Seq(Emitted)
  BY DEF CompilingInv
<1>2. PICK t, F, C, F2 : /\ t = scope_stack[1] /\ F = ToSet(scope_stack) /\ C = ToSet(code)
                         /\ F2 = ToSet(st2)
  OBVIOUS
<1>3. PICK D \in SUBSET DOMAIN scopes : Passed(F, D) /\ BoundInTime(F, D, C) /\ Owing(F, C)
  BY <1>2 DEF LabelsInv
<1>4. PICK E : /\ Emits(BeginSet \cup E)
               /\ \A e \in E : \/ e[1] \in {"construct", "destruct"}
                               \/ /\ loop_stack # <<>>
                                  /\ e = <<"jmp", loop_end_of_scope(Head(loop_stack))>>
  BY DEF ContinueStep
<1>5. TopNext \in DOMAIN instructions(TopScope) /\ TopIns.op \notin Opening /\ Moves(scope_stack, st2)
  BY DEF ContinueStep
<1>6. /\ t \in F /\ t.scope = TopScope /\ t.iterating + 1 = TopNext /\ t.iterating \in Nat
      /\ t.scope \in DOMAIN scopes
      /\ \A f \in F : f.scope \in DOMAIN scopes /\ f.iterating \in Nat
      /\ \A f, g \in F : f.scope = g.scope => f = g
      /\ \A e \in BeginSet : /\ e = binds(begin_of_scope(t.scope)) /\ e \notin C
                             /\ IsBranch(t.scope) /\ t.iterating = 0
      /\ IsBranch(t.scope) => binds(begin_of_scope(t.scope)) \in C \cup BeginSet
      /\ IsBranch(t.scope) /\ t.iterating = 0 => binds(begin_of_scope(t.scope)) \in BeginSet
  BY <1>2, <1>3, BeginsOnce
<1>7. F2 = (F \ {t}) \cup {Moved(t)} /\ Moved(t).scope = t.scope
      /\ Moved(t).iterating = t.iterating + 1
  BY <1>1, <1>2, <1>5, MovesFrames DEF Moved
<1> DEFINE E2 == BeginSet \cup E
           m == Moved(t)
<1>8. \A e \in E : e[1] # "bind"
  BY <1>4
<1>9. OnceIn(code') /\ ToSet(code') = C \cup E2
  <2>1. \A e \in E2 : e \in ToSet(code) => e[1] # "bind"
    BY <1>2, <1>6, <1>8
  <2> HIDE DEF E2
  <2> QED
    BY <1>1, <1>2, <1>4, <2>1, Grows DEF E2
<1>10. Passed(F2, D) /\ \A x : OnIt(F2, x) <=> OnIt(F, x)
  <2>1. \A x \in DOMAIN scopes \ {main} : scopes[x].opener \in Nat
    BY <1>1, OpenersNatural
  <2> QED
    <3>1. \A f \in F : f.scope \in DOMAIN scopes /\ f.iterating \in Nat
      BY <1>6
    <3>2. Passed(F, D) /\ t \in F /\ F2 = FramesMoved(F, t)
      BY <1>3, <1>6, <1>7 DEF FramesMoved
    <3> QED
      BY <2>1, <3>1, <3>2, PassedMoves
<1> HIDE DEF m
<1>11. m \in F2 /\ m.scope = t.scope /\ m.iterating = t.iterating + 1 /\ F2 = (F \ {t}) \cup {m}
       /\ m.iterating >= 1
  BY <1>6, <1>7 DEF m
<1>12. \A l : binds(l)[1] = "bind"
  BY DEF binds
<1>13. BoundInTime(F2, D, C \cup E2)
  <2>1. ASSUME NEW e \in E2, e[1] = "bind" PROVE e = binds(begin_of_scope(t.scope))
    BY <1>6, <1>8, <2>1
  <2>2. \A x, y : /\ binds(end_of_scope(x)) # binds(begin_of_scope(y))
                  /\ binds(loop_end_of_scope(x)) # binds(begin_of_scope(y))
                  /\ binds(exit_label) # binds(begin_of_scope(y))
                  /\ binds(begin_of_scope(x)) = binds(begin_of_scope(y)) => x = y
    BY DEF binds, end_of_scope, loop_end_of_scope, begin_of_scope, exit_label
  <2>3. ASSUME NEW x \in DOMAIN scopes
        PROVE  /\ binds(end_of_scope(x)) \notin E2 /\ binds(loop_end_of_scope(x)) \notin E2
               /\ binds(begin_of_scope(x)) \in E2 => x = t.scope
    BY <1>12, <2>1, <2>2
  <2>4. binds(exit_label) \notin E2
    BY <1>12, <2>1, <2>2
  <2>5. ASSUME NEW f \in F, f.iterating >= 1
        PROVE  \E g \in F2 : g.scope = f.scope /\ g.iterating >= 1
    BY <1>11, <2>5
  <2>6. ASSUME NEW f \in F2, IsBranch(f.scope), f.iterating >= 1
        PROVE  binds(begin_of_scope(f.scope)) \in C \cup E2
    <3>1. CASE f = m
      BY <1>6, <1>11, <2>6, <3>1
    <3>2. CASE f # m
      BY <1>3, <1>11, <2>6, <3>2 DEF BoundInTime
    <3> QED
      BY <3>1, <3>2
  <2> HIDE DEF E2
  <2> QED
    BY <1>3, <1>11, <2>3, <2>4, <2>5, <2>6, BoundKept
<1>14. Owing(F2, C \cup E2)
  <2>1. ASSUME NEW s \in DOMAIN scopes, IsBranch(s), Coming(F, s) PROVE Coming(F2, s)
    <3>1. PICK f \in F : f.scope = scopes[s].parent_scope /\ f.iterating + 1 = scopes[s].opener
      BY <2>1 DEF Coming
    <3>2. f # t
      <4> SUFFICES ASSUME f = t PROVE FALSE
        OBVIOUS
      <4>1. s \in DOMAIN scopes \ {main}
        BY <2>1 DEF IsBranch
      <4>2. TopScope = scopes[s].parent_scope /\ TopNext = scopes[s].opener
        BY <1>6, <3>1
      <4>3. instructions(TopScope)[TopNext].op \in Opening
        BY <1>1, <4>1, <4>2, OpenedBy
      <4> QED
        BY <1>5, <4>3 DEF TopIns
    <3> QED
      BY <1>11, <3>1, <3>2 DEF Coming
  <2>2. ASSUME NEW s \in DOMAIN scopes, IsBranch(s), Fresh(F, s)
        PROVE  Fresh(F2, s) \/ binds(begin_of_scope(s)) \in E2
    <3>1. PICK f \in F : f.scope = s /\ f.iterating = 0
      BY <2>2 DEF Fresh
    <3>2. CASE f = t
      BY <1>6, <2>2, <3>1, <3>2
    <3>3. CASE f # t
      BY <1>11, <3>1, <3>3 DEF Fresh
    <3> QED
      BY <3>2, <3>3
  <2>3. ASSUME NEW e \in E2, e[1] \in Jumping PROVE Owed(F2, e[2])
    <3>1. e[1] \notin {"bind", "construct", "destruct"}
      BY <2>3 DEF Jumping
    <3>2. e \in E
      BY <1>6, <1>12, <2>3, <3>1
    <3>3. loop_stack # <<>> /\ e[2] = loop_end_of_scope(Head(loop_stack))
      BY <1>4, <3>1, <3>2
    <3>4. PICK k \in DOMAIN scope_stack : /\ IsLoop(scope_stack[k].scope)
                                          /\ Head(loop_stack) = scope_stack[k].scope
      BY <1>1, <3>3, InnermostLoop
    <3>5. PICK s : s = scope_stack[k].scope
      OBVIOUS
    <3>6. OnIt(F, s)
      BY <1>2, <3>5 DEF OnIt, ToSet
    <3>7. s \in DOMAIN scopes /\ IsLoop(s) /\ IsBranch(s) /\ e[2] = loop_end_of_scope(s)
      <4>1. IsLoop(s) => IsBranch(s)
        BY DEF IsLoop, IsBranch, Branch
      <4>2. s \in DOMAIN scopes
        BY <1>6, <3>6 DEF OnIt
      <4> QED
        BY <3>3, <3>4, <3>5, <4>1, <4>2
    <3>8. OnIt(F2, s)
      BY <1>10, <3>6
    <3> QED
      BY <3>7, <3>8 DEF Owed
  <2> HIDE DEF E2
  <2> QED
    BY <1>3, <1>10, <2>1, <2>2, <2>3, OwingKept
<1> HIDE DEF E2
<1>15. LabelsInv(F2, C \cup E2)
  BY <1>10, <1>13, <1>14 DEF LabelsInv
<1> QED
  BY <1>2, <1>9, <1>15
LEMMA LabelNames ==
  /\ \A l : binds(l)[1] = "bind" /\ binds(l)[2] = l
  /\ \A x, y : /\ binds(end_of_scope(x)) # binds(begin_of_scope(y))
               /\ binds(loop_end_of_scope(x)) # binds(begin_of_scope(y))
               /\ binds(end_of_scope(x)) # binds(loop_end_of_scope(y))
               /\ binds(begin_of_scope(x)) = binds(begin_of_scope(y)) => x = y
               /\ binds(end_of_scope(x)) = binds(end_of_scope(y)) => x = y
               /\ binds(loop_end_of_scope(x)) = binds(loop_end_of_scope(y)) => x = y
  /\ \A x : /\ binds(exit_label) # binds(begin_of_scope(x))
            /\ binds(exit_label) # binds(end_of_scope(x))
            /\ binds(exit_label) # binds(loop_end_of_scope(x))
  BY DEF binds, end_of_scope, loop_end_of_scope, begin_of_scope, exit_label

LEMMA LabelsEnter ==
  ASSUME Sound, CompilingInv, scope_stack # <<>>, OnceIn(code), EnterStep,
         LabelsInv(ToSet(scope_stack), ToSet(code)), NEW st2, st2 = scope_stack'
  PROVE  OnceIn(code') /\ LabelsInv(ToSet(st2), ToSet(code'))
<1>1. /\ BuilderType /\ TreeInv /\ StackInv(scope_stack) /\ code \in Seq(Emitted)
  BY DEF CompilingInv
<1>2. PICK t, F, C, F2, c, m, g :
        /\ t = scope_stack[1] /\ F = ToSet(scope_stack) /\ C = ToSet(code) /\ F2 = ToSet(st2)
        /\ c = TopIns.arg /\ m = Moved(scope_stack[1]) /\ g = [scope |-> c, iterating |-> 0]
  OBVIOUS
<1>3. PICK D \in SUBSET DOMAIN scopes : Passed(F, D) /\ BoundInTime(F, D, C) /\ Owing(F, C)
  BY <1>2 DEF LabelsInv
<1>4. PICK E : /\ Emits(BeginSet \cup E)
               /\ \A e \in E : \/ e[1] = "eval"
                               \/ TopIns.op = "if" /\ e = <<"je", Unmet(c)>>
                               \/ TopIns.op = "while" /\ e = <<"jmp", end_of_scope(c)>>
  BY <1>2 DEF EnterStep
<1>5. TopNext \in DOMAIN instructions(TopScope) /\ TopIns.op \in Opening /\ Enters(scope_stack, c, st2)
  BY <1>2 DEF EnterStep
<1>6. /\ t \in F /\ t.scope = TopScope /\ t.iterating + 1 = TopNext /\ t.iterating \in Nat
      /\ t.scope \in DOMAIN scopes /\ t.scope \notin D
      /\ \A f \in F : f.scope \in DOMAIN scopes /\ f.iterating \in Nat
      /\ \A f, h \in F : f.scope = h.scope => f = h
      /\ \A e \in BeginSet : /\ e = binds(begin_of_scope(t.scope)) /\ e \notin C
                             /\ IsBranch(t.scope) /\ t.iterating = 0
      /\ IsBranch(t.scope) => binds(begin_of_scope(t.scope)) \in C \cup BeginSet
      /\ IsBranch(t.scope) /\ t.iterating = 0 => binds(begin_of_scope(t.scope)) \in BeginSet
  BY <1>2, <1>3, BeginsOnce
<1>7. /\ c \in DOMAIN scopes \ {main} /\ scopes[c].parent_scope = t.scope
      /\ scopes[c].opener = TopNext /\ opener(c) = TopIns
      /\ IsLoop(c) <=> TopIns.op = "while"
      /\ IsBranch(c) <=> TopIns.op \in Branch
  <2>1. TopScope \in DOMAIN scopes /\ instructions(TopScope)[TopNext].op \in Opening
        /\ c = instructions(TopScope)[TopNext].arg
    BY <1>2, <1>5, <1>6 DEF TopIns
  <2> QED
    BY <1>1, <1>5, <1>6, <2>1, Opens DEF TopIns
<1>8. ~ OnIt(F, c)
  <2> SUFFICES ASSUME NEW f \in F, f.scope = c PROVE FALSE
    BY DEF OnIt
  <2>1. PICK k \in DOMAIN scope_stack : f = scope_stack[k]
    BY <1>2 DEF ToSet
  <2>2. scope_stack[k].scope < c
    <3>1. PICK n : n = TopNext
      OBVIOUS
    <3>2. /\ n = scope_stack[1].iterating + 1 /\ n \in DOMAIN instructions(scope_stack[1].scope)
          /\ instructions(scope_stack[1].scope)[n].op \in Opening
          /\ instructions(scope_stack[1].scope)[n].arg = c
      BY <1>2, <1>5, <3>1 DEF TopNext, TopScope, TopIns
    <3> QED
      BY <1>1, <1>5, <3>2, EntersStack
  <2>3. c \in Nat
    BY <1>1, <1>7, ScopeTyped DEF BuilderType
  <2> QED
    BY <2>1, <2>2, <2>3
<1>9. /\ F2 = (F \ {t}) \cup {m, g} /\ m.scope = t.scope /\ m.iterating = t.iterating + 1
      /\ g.scope = c /\ g.iterating = 0 /\ m = Moved(t) /\ m.iterating >= 1
  <2>1. F2 = (F \ {t}) \cup {m, g}
    BY <1>1, <1>2, <1>5, <1>7, EntersFrames
  <2>2. m.scope = t.scope /\ m.iterating = t.iterating + 1 /\ g.scope = c /\ g.iterating = 0
    BY <1>2 DEF Moved
  <2> QED
    BY <1>2, <1>6, <2>1, <2>2
<1> DEFINE E2 == BeginSet \cup E
           F1 == (F \ {t}) \cup {m}
<1>10. \A e \in E : e[1] # "bind"
  BY <1>4
<1>11. OnceIn(code') /\ ToSet(code') = C \cup E2
  <2>1. \A e \in E2 : e \in ToSet(code) => e[1] # "bind"
    BY <1>2, <1>6, <1>10
  <2> HIDE DEF E2
  <2> QED
    BY <1>1, <1>2, <1>4, <2>1, Grows DEF E2
<1>12. Passed(F1, D) /\ \A x : OnIt(F1, x) <=> OnIt(F, x)
  <2>1. \A x \in DOMAIN scopes \ {main} : scopes[x].opener \in Nat
    BY <1>1, OpenersNatural
  <2>2. \A f \in F : f.scope \in DOMAIN scopes /\ f.iterating \in Nat
    BY <1>6
  <2>3. Passed(F, D) /\ t \in F /\ F1 = FramesMoved(F, t)
    BY <1>3, <1>6, <1>9 DEF FramesMoved
  <2> HIDE DEF F1
  <2> QED
    BY <2>1, <2>2, <2>3, PassedMoves
<1>13. c \notin D
  <2> SUFFICES ASSUME c \in D PROVE FALSE
    OBVIOUS
  <2>1. \/ scopes[c].parent_scope \in D
        \/ \E f \in F : f.scope = scopes[c].parent_scope /\ scopes[c].opener <= f.iterating
    BY <1>3, <1>7 DEF Passed
  <2>2. PICK f \in F : f.scope = t.scope /\ TopNext <= f.iterating
    BY <1>6, <1>7, <2>1
  <2>3. f = t
    BY <1>6, <2>2
  <2> QED
    BY <1>6, <2>2, <2>3
<1>14. Passed(F2, D)
  <2>1. F2 = F1 \cup {g} /\ ~ OnIt(F1, c) /\ m \in F1 /\ \A f \in F1 : f.scope = m.scope => f = m
    BY <1>6, <1>8, <1>9, <1>12
  <2>2. scopes[c].parent_scope = m.scope /\ scopes[c].opener <= m.iterating
    <3>1. TopNext \in Nat
      BY <1>6
    <3> QED
      BY <1>6, <1>7, <1>9, <3>1
  <2> HIDE DEF F1
  <2> QED
    BY <1>7, <1>9, <1>12, <1>13, <2>1, <2>2, PassedEnters
<1>15. BoundInTime(F2, D, C \cup E2)
  <2>1. ASSUME NEW e \in E2, e[1] = "bind" PROVE e = binds(begin_of_scope(t.scope))
    BY <1>6, <1>10, <2>1
  <2>2. ASSUME NEW x \in DOMAIN scopes
        PROVE  /\ binds(end_of_scope(x)) \notin E2 /\ binds(loop_end_of_scope(x)) \notin E2
               /\ binds(begin_of_scope(x)) \in E2 => x = t.scope
    BY <2>1, LabelNames
  <2>3. binds(exit_label) \notin E2
    BY <2>1, LabelNames
  <2>4. ASSUME NEW f \in F, f.iterating >= 1
        PROVE  \E h \in F2 : h.scope = f.scope /\ h.iterating >= 1
    BY <1>9, <2>4
  <2>5. ASSUME NEW f \in F2, IsBranch(f.scope), f.iterating >= 1
        PROVE  binds(begin_of_scope(f.scope)) \in C \cup E2
    <3>1. CASE f = m
      BY <1>6, <1>9, <2>5, <3>1
    <3>2. CASE f # m
      <4>1. f # g
        BY <1>9, <2>5
      <4> QED
        BY <1>3, <1>9, <2>5, <3>2, <4>1 DEF BoundInTime
    <3> QED
      BY <3>1, <3>2
  <2>6. \E f \in F2 : f.scope = t.scope /\ f.iterating >= 1
    BY <1>9
  <2> HIDE DEF E2
  <2> QED
    BY <1>3, <2>2, <2>3, <2>4, <2>5, <2>6, BoundKept
<1>16. Fresh(F2, c) /\ OnIt(F2, c)
  BY <1>9 DEF Fresh, OnIt
<1>17. Owing(F2, C \cup E2)
  <2>1. ASSUME NEW s \in DOMAIN scopes, IsBranch(s), Coming(F, s) PROVE Coming(F2, s) \/ Fresh(F2, s)
    <3>1. PICK f \in F : f.scope = scopes[s].parent_scope /\ f.iterating + 1 = scopes[s].opener
      BY <2>1 DEF Coming
    <3>2. CASE f = t
      <4>1. s \in DOMAIN scopes \ {main}
        BY <2>1 DEF IsBranch
      <4>2. TopScope = scopes[s].parent_scope /\ TopNext = scopes[s].opener
        BY <1>6, <3>1, <3>2
      <4>3. instructions(TopScope)[TopNext].arg = s
        BY <1>1, <4>1, <4>2, OpenedBy
      <4>4. s = c
        BY <1>2, <4>3 DEF TopIns
      <4> QED
        BY <1>16, <4>4
    <3>3. CASE f # t
      BY <1>9, <3>1, <3>3 DEF Coming
    <3> QED
      BY <3>2, <3>3
  <2>2. ASSUME NEW s \in DOMAIN scopes, IsBranch(s), Fresh(F, s)
        PROVE  Fresh(F2, s) \/ binds(begin_of_scope(s)) \in E2
    <3>1. PICK f \in F : f.scope = s /\ f.iterating = 0
      BY <2>2 DEF Fresh
    <3>2. CASE f = t
      BY <1>6, <2>2, <3>1, <3>2
    <3>3. CASE f # t
      BY <1>9, <3>1, <3>3 DEF Fresh
    <3> QED
      BY <3>2, <3>3
  <2>3. ASSUME NEW s, OnIt(F, s) PROVE OnIt(F2, s)
    BY <1>9, <2>3 DEF OnIt
  <2>4. ASSUME NEW e \in E2, e[1] \in Jumping PROVE Owed(F2, e[2])
    <3>1. e[1] \notin {"bind", "eval"}
      BY <2>4 DEF Jumping
    <3>2. e \in E
      BY <1>6, <2>4, <3>1, LabelNames
    <3>3. \/ TopIns.op = "if" /\ e[2] = Unmet(c)
          \/ TopIns.op = "while" /\ e[2] = end_of_scope(c)
      BY <1>4, <3>1, <3>2
    <3>4. IsBranch(c) /\ c \in DOMAIN scopes
      BY <1>7, <3>3 DEF Branch
    <3>5. CASE e[2] = end_of_scope(c)
      BY <1>16, <3>4, <3>5 DEF Owed
    <3>6. CASE e[2] = Unmet(c) /\ Unmet(c) # end_of_scope(c)
      <4>1. PICK x \in else_branch(c) : Unmet(c) = begin_of_scope(x)
        BY <1>1, <1>7, <3>6, UnmetIs
      <4>2. /\ x \in DOMAIN scopes \ {main} /\ opener(x).op = "else"
            /\ scopes[x].parent_scope = scopes[c].parent_scope
            /\ scopes[x].opener = scopes[c].opener + 1
        BY <1>1, <1>7, <4>1, ElseIs
      <4>3. IsBranch(x) /\ instructions(x) # <<>>
        BY <4>2 DEF IsBranch, Branch, Sound, LoopsAndElsesHaveInstructions
      <4>4. m \in F2 /\ m.scope = scopes[x].parent_scope /\ m.iterating + 1 = scopes[x].opener
        BY <1>6, <1>7, <1>9, <4>2
      <4>5. Coming(F2, x)
        BY <4>4 DEF Coming
      <4> QED
        BY <3>6, <4>1, <4>2, <4>3, <4>5 DEF Owed
    <3> QED
      BY <3>3, <3>5, <3>6
  <2> HIDE DEF E2
  <2> QED
    BY <1>3, <2>1, <2>2, <2>3, <2>4, OwingKept
<1> HIDE DEF E2
<1>18. LabelsInv(F2, C \cup E2)
  BY <1>14, <1>15, <1>17 DEF LabelsInv
<1> QED
  BY <1>2, <1>11, <1>18
\* What the two ways to leave the scope at the top have in common: the label at its end is
\* bound, and that at the end of the loop if it is one.
LEMMA LabelsEnded ==
  ASSUME CompilingInv, scope_stack # <<>>, OnceIn(code),
         NEW t, t = scope_stack[1], NEW F, F = ToSet(scope_stack), NEW C, C = ToSet(code),
         NEW D \in SUBSET DOMAIN scopes, Passed(F, D), BoundInTime(F, D, C), Owing(F, C),
         NEW st2, st2 = scope_stack', Ended(scope_stack, st2), NEW E, Emits(E),
         NEW F2, F2 = ToSet(st2),
         IsBranch(t.scope) => /\ binds(end_of_scope(t.scope)) \in E
                              /\ binds(begin_of_scope(t.scope)) \in C \cup E
                                   \/ instructions(t.scope) = <<>>,
         IsLoop(t.scope) => binds(loop_end_of_scope(t.scope)) \in E,
         ~ \E s \in DOMAIN scopes : /\ IsBranch(s) /\ scopes[s].parent_scope = t.scope
                                    /\ scopes[s].opener = t.iterating + 1,
         \A e \in E : e[1] = "bind" =>
           \/ e = binds(begin_of_scope(t.scope)) /\ t.iterating = 0
           \/ e = binds(end_of_scope(t.scope))
           \/ e = binds(loop_end_of_scope(t.scope)),
         \A e \in E : e[1] \in Jumping => binds(e[2]) \in C \cup E \/ Owed(F2, e[2])
  PROVE  OnceIn(code') /\ LabelsInv(F2, ToSet(code'))
<1>1. /\ BuilderType /\ TreeInv /\ StackInv(scope_stack) /\ code \in Seq(Emitted)
  BY DEF CompilingInv
<1>2. /\ t \in F /\ t.iterating \in Nat /\ t.scope \in DOMAIN scopes /\ t.scope \notin D
      /\ \A f \in F : f.scope \in DOMAIN scopes /\ f.iterating \in Nat
      /\ \A f, g \in F : f.scope = g.scope => f = g
  BY BeginsOnce
<1>3. F2 = F \ {t}
  BY <1>1, EndsFrames
<1> DEFINE D2 == D \cup {t.scope}
<1>4. Passed(F2, D2)
  BY <1>2, <1>3, PassedEnds
<1>5. \A e \in E : e \in C => e[1] # "bind"
  <2> SUFFICES ASSUME NEW e \in E, e \in C, e[1] = "bind" PROVE FALSE
    OBVIOUS
  <2>1. CASE e = binds(begin_of_scope(t.scope)) /\ t.iterating = 0
    <3>1. PICK f \in F : f.scope = t.scope /\ f.iterating >= 1
      BY <1>2, <2>1 DEF BoundInTime
    <3>2. f = t
      BY <1>2, <3>1
    <3> QED
      BY <2>1, <3>1, <3>2
  <2>2. CASE e = binds(end_of_scope(t.scope)) \/ e = binds(loop_end_of_scope(t.scope))
    BY <1>2, <2>2 DEF BoundInTime
  <2> QED
    BY <2>1, <2>2
<1>6. OnceIn(code') /\ ToSet(code') = C \cup E
  BY <1>1, <1>5, Grows
<1>7. BoundInTime(F2, D2, C \cup E)
  <2>1. ASSUME NEW x \in DOMAIN scopes
        PROVE  /\ binds(end_of_scope(x)) \in E \/ binds(loop_end_of_scope(x)) \in E => x \in D2
               /\ binds(begin_of_scope(x)) \in E => x \in D2
    BY LabelNames
  <2>2. binds(exit_label) \notin E
    BY LabelNames
  <2>3. ASSUME NEW f \in F, f.iterating >= 1
        PROVE  f.scope \in D2 \/ \E g \in F2 : g.scope = f.scope /\ g.iterating >= 1
    BY <1>3, <2>3
  <2>4. ASSUME NEW f \in F2, IsBranch(f.scope), f.iterating >= 1
        PROVE  binds(begin_of_scope(f.scope)) \in C \cup E
    BY <1>3, <2>4 DEF BoundInTime
  <2>5. D \subseteq D2
    OBVIOUS
  <2> HIDE DEF D2
  <2> QED
    BY <2>1, <2>2, <2>3, <2>4, <2>5, BoundKept
<1>8. Owing(F2, C \cup E)
  <2>1. ASSUME NEW s \in DOMAIN scopes, IsBranch(s), Coming(F, s) PROVE Coming(F2, s)
    <3>1. PICK f \in F : f.scope = scopes[s].parent_scope /\ f.iterating + 1 = scopes[s].opener
      BY <2>1 DEF Coming
    <3>2. f # t
      BY <2>1, <3>1
    <3> QED
      BY <1>3, <3>1, <3>2 DEF Coming
  <2>2. ASSUME NEW s \in DOMAIN scopes, IsBranch(s), OnIt(F, s)
        PROVE  OnIt(F2, s) \/ /\ binds(end_of_scope(s)) \in E
                              /\ IsLoop(s) => binds(loop_end_of_scope(s)) \in E
    <3>1. PICK f \in F : f.scope = s
      BY <2>2 DEF OnIt
    <3>2. CASE f = t
      BY <2>2, <3>1, <3>2
    <3>3. CASE f # t
      BY <1>3, <3>1, <3>3 DEF OnIt
    <3> QED
      BY <3>2, <3>3
  <2>3. ASSUME NEW s \in DOMAIN scopes, IsBranch(s), Fresh(F, s), instructions(s) # <<>>
        PROVE  Fresh(F2, s) \/ binds(begin_of_scope(s)) \in E
    <3>1. PICK f \in F : f.scope = s /\ f.iterating = 0
      BY <2>3 DEF Fresh
    <3>2. CASE f = t
      <4>1. binds(begin_of_scope(t.scope)) \in C \cup E
        BY <2>3, <3>1, <3>2
      <4>2. binds(begin_of_scope(t.scope)) \notin C
        <5> SUFFICES ASSUME binds(begin_of_scope(t.scope)) \in C PROVE FALSE
          OBVIOUS
        <5>1. PICK h \in F : h.scope = t.scope /\ h.iterating >= 1
          BY <1>2 DEF BoundInTime
        <5>2. h = t
          BY <1>2, <5>1
        <5> QED
          BY <3>1, <3>2, <5>1, <5>2
      <4> QED
        BY <3>1, <3>2, <4>1, <4>2
    <3>3. CASE f # t
      BY <1>3, <3>1, <3>3 DEF Fresh
    <3> QED
      BY <3>2, <3>3
  <2> QED
    BY <2>1, <2>2, <2>3, OwingKept
<1>9. D2 \in SUBSET DOMAIN scopes
  BY <1>2
<1> HIDE DEF D2
<1>10. LabelsInv(F2, C \cup E)
  BY <1>4, <1>7, <1>8, <1>9 DEF LabelsInv
<1> QED
  BY <1>6, <1>10

LEMMA LabelsReturn ==
  ASSUME Sound, CompilingInv, scope_stack # <<>>, OnceIn(code), ReturnStep,
         LabelsInv(ToSet(scope_stack), ToSet(code)), NEW st2, st2 = scope_stack'
  PROVE  OnceIn(code') /\ LabelsInv(ToSet(st2), ToSet(code'))
<1>1. BuilderType /\ TreeInv /\ StackInv(scope_stack)
  BY DEF CompilingInv
<1>2. PICK t, F, C, F2 : /\ t = scope_stack[1] /\ F = ToSet(scope_stack) /\ C = ToSet(code)
                         /\ F2 = ToSet(st2)
  OBVIOUS
<1>3. PICK D \in SUBSET DOMAIN scopes : Passed(F, D) /\ BoundInTime(F, D, C) /\ Owing(F, C)
  BY <1>2 DEF LabelsInv
<1>4. PICK E : /\ Emits(BeginSet \cup E)
               /\ IsBranch(TopScope) => binds(end_of_scope(TopScope)) \in E
               /\ \A e \in E : \/ e[1] = "destruct"
                               \/ e = <<"jmp", exit_label>>
                               \/ e = binds(end_of_scope(TopScope))
  BY DEF ReturnStep, binds
<1>5. /\ TopNext \in DOMAIN instructions(TopScope) /\ TopIns.op = "return"
      /\ Ended(scope_stack, st2)
  BY DEF ReturnStep
<1>6. /\ t.scope = TopScope /\ t.iterating + 1 = TopNext /\ t.iterating \in Nat
      /\ t.scope \in DOMAIN scopes
      /\ \A e \in BeginSet : /\ e = binds(begin_of_scope(t.scope)) /\ e \notin C
                             /\ IsBranch(t.scope) /\ t.iterating = 0
      /\ IsBranch(t.scope) => binds(begin_of_scope(t.scope)) \in C \cup BeginSet
  BY <1>2, <1>3, BeginsOnce
<1>7. PICK E2 : E2 = BeginSet \cup E
  OBVIOUS
<1>8. ~ IsLoop(t.scope)
  <2>1. Has(t.scope, "return")
    BY <1>5, <1>6 DEF Has, TopIns
  <2> QED
    BY <1>6, <2>1 DEF Sound, LoopsDoNotReturn
<1>9. IsBranch(t.scope) => /\ binds(end_of_scope(t.scope)) \in E2
                           /\ binds(begin_of_scope(t.scope)) \in C \cup E2
  BY <1>4, <1>6, <1>7
<1>10. ~ \E s \in DOMAIN scopes : /\ IsBranch(s) /\ scopes[s].parent_scope = t.scope
                                  /\ scopes[s].opener = t.iterating + 1
  <2> SUFFICES ASSUME NEW s \in DOMAIN scopes, IsBranch(s), scopes[s].parent_scope = t.scope,
                      scopes[s].opener = t.iterating + 1
               PROVE  FALSE
    OBVIOUS
  <2>1. s \in DOMAIN scopes \ {main} /\ TopScope = scopes[s].parent_scope /\ TopNext = scopes[s].opener
    BY <1>6 DEF IsBranch
  <2>2. instructions(TopScope)[TopNext].op \in Opening
    BY <1>1, <2>1, OpenedBy
  <2> QED
    BY <1>5, <2>2 DEF TopIns, Opening, Branch
<1>11. \A e \in E2 : e[1] = "bind" =>
         \/ e = binds(begin_of_scope(t.scope)) /\ t.iterating = 0
         \/ e = binds(end_of_scope(t.scope))
         \/ e = binds(loop_end_of_scope(t.scope))
  <2> SUFFICES ASSUME NEW e \in E2, e[1] = "bind"
               PROVE  \/ e = binds(begin_of_scope(t.scope)) /\ t.iterating = 0
                      \/ e = binds(end_of_scope(t.scope))
    OBVIOUS
  <2> QED
    BY <1>4, <1>6, <1>7
<1>12. \A e \in E2 : e[1] \in Jumping => Owed(F2, e[2])
  <2> SUFFICES ASSUME NEW e \in E2, e[1] \in Jumping PROVE Owed(F2, e[2])
    OBVIOUS
  <2>1. e[1] \notin {"bind", "destruct"}
    BY DEF Jumping
  <2>2. e = <<"jmp", exit_label>>
    BY <1>4, <1>6, <1>7, <2>1, LabelNames
  <2> QED
    BY <2>2 DEF Owed
<1>13. Emits(E2)
  BY <1>4, <1>7
<1> QED
  BY <1>2, <1>3, <1>5, <1>8, <1>9, <1>10, <1>11, <1>12, <1>13, LabelsEnded
LEMMA LabelsEnd ==
  ASSUME Sound, CompilingInv, scope_stack # <<>>, OnceIn(code), EndStep,
         LabelsInv(ToSet(scope_stack), ToSet(code)), NEW st2, st2 = scope_stack'
  PROVE  OnceIn(code') /\ LabelsInv(ToSet(st2), ToSet(code'))
<1>1. BuilderType /\ TreeInv /\ StackInv(scope_stack)
  BY DEF CompilingInv
<1>2. PICK t, F, C, F2 : /\ t = scope_stack[1] /\ F = ToSet(scope_stack) /\ C = ToSet(code)
                         /\ F2 = ToSet(st2)
  OBVIOUS
<1>3. PICK D \in SUBSET DOMAIN scopes : Passed(F, D) /\ BoundInTime(F, D, C) /\ Owing(F, C)
  BY <1>2 DEF LabelsInv
<1>4. PICK E : /\ Emits(E)
               /\ IsBranch(TopScope) => binds(end_of_scope(TopScope)) \in E
               /\ IsLoop(TopScope) => binds(loop_end_of_scope(TopScope)) \in E
               /\ \A e \in E :
                    \/ e[1] \in {"destruct", "eval"}
                    \/ e = binds(end_of_scope(TopScope))
                    \/ /\ IsLoop(TopScope)
                       /\ e \in {binds(loop_end_of_scope(TopScope)),
                                 <<"jne", begin_of_scope(TopScope)>>}
                    \/ /\ TopScope # main /\ opener(TopScope).op = "if"
                       /\ \E x \in else_branch(TopScope) : e = <<"jmp", end_of_scope(x)>>
  BY DEF EndStep, binds
<1>5. TopNext \notin DOMAIN instructions(TopScope) /\ Ended(scope_stack, st2)
  BY DEF EndStep
<1>6. /\ t \in F /\ t.scope = TopScope /\ t.iterating + 1 = TopNext /\ t.iterating \in Nat
      /\ t.scope \in DOMAIN scopes
  BY <1>2, <1>3, BeginsOnce
<1>7. IsBranch(t.scope) /\ instructions(t.scope) # <<>> => binds(begin_of_scope(t.scope)) \in C
  <2> SUFFICES ASSUME IsBranch(t.scope), instructions(t.scope) # <<>>
               PROVE  binds(begin_of_scope(t.scope)) \in C
    OBVIOUS
  <2>1. /\ instructions(t.scope) \in Seq(Instruction)
        /\ DOMAIN instructions(t.scope) = 1 .. Len(instructions(t.scope))
        /\ Len(instructions(t.scope)) \in Nat
    BY <1>1, <1>6, ScopeTyped DEF BuilderType
  <2>2. Len(instructions(t.scope)) # 0
    <3> HIDE DEF Instruction
    <3> QED
      BY <2>1
  <2>3. t.iterating >= 1
    BY <1>5, <1>6, <2>1, <2>2
  <2> QED
    BY <1>3, <1>6, <2>3 DEF BoundInTime
<1>8. IsBranch(t.scope) => /\ binds(end_of_scope(t.scope)) \in E
                           /\ binds(begin_of_scope(t.scope)) \in C \cup E
                                \/ instructions(t.scope) = <<>>
  BY <1>4, <1>6, <1>7
<1>9. IsLoop(t.scope) => binds(loop_end_of_scope(t.scope)) \in E
  BY <1>4, <1>6
<1>10. ~ \E s \in DOMAIN scopes : /\ IsBranch(s) /\ scopes[s].parent_scope = t.scope
                                  /\ scopes[s].opener = t.iterating + 1
  <2> SUFFICES ASSUME NEW s \in DOMAIN scopes, IsBranch(s), scopes[s].parent_scope = t.scope,
                      scopes[s].opener = t.iterating + 1
               PROVE  FALSE
    OBVIOUS
  <2>1. s \in DOMAIN scopes \ {main} /\ TopScope = scopes[s].parent_scope /\ TopNext = scopes[s].opener
    BY <1>6 DEF IsBranch
  <2> QED
    BY <1>1, <1>5, <2>1, OpenedBy
<1>11. \A e \in E : e[1] = "bind" =>
         \/ e = binds(begin_of_scope(t.scope)) /\ t.iterating = 0
         \/ e = binds(end_of_scope(t.scope))
         \/ e = binds(loop_end_of_scope(t.scope))
  <2> SUFFICES ASSUME NEW e \in E, e[1] = "bind"
               PROVE  \/ e = binds(end_of_scope(t.scope))
                      \/ e = binds(loop_end_of_scope(t.scope))
    OBVIOUS
  <2> QED
    BY <1>4, <1>6
<1>12. \A e \in E : e[1] \in Jumping => binds(e[2]) \in C \cup E \/ Owed(F2, e[2])
  <2> SUFFICES ASSUME NEW e \in E, e[1] \in Jumping
               PROVE  binds(e[2]) \in C \cup E \/ Owed(F2, e[2])
    OBVIOUS
  <2>1. e[1] \notin {"bind", "destruct", "eval"}
    BY DEF Jumping
  <2>2. \/ IsLoop(t.scope) /\ e = <<"jne", begin_of_scope(t.scope)>>
        \/ /\ t.scope # main /\ opener(t.scope).op = "if"
           /\ \E x \in else_branch(t.scope) : e = <<"jmp", end_of_scope(x)>>
    BY <1>4, <1>6, <2>1, LabelNames
  <2>3. CASE IsLoop(t.scope) /\ e = <<"jne", begin_of_scope(t.scope)>>
    <3>1. IsBranch(t.scope) /\ instructions(t.scope) # <<>>
      BY <1>6, <2>3 DEF IsLoop, IsBranch, Branch, Sound, LoopsAndElsesHaveInstructions
    <3> QED
      BY <1>7, <2>3, <3>1
  <2>4. ASSUME t.scope # main, NEW x \in else_branch(t.scope), e = <<"jmp", end_of_scope(x)>>
        PROVE  Owed(F2, e[2])
    <3>1. /\ x \in DOMAIN scopes \ {main} /\ opener(x).op = "else"
          /\ scopes[x].parent_scope = scopes[t.scope].parent_scope
          /\ scopes[x].opener = scopes[t.scope].opener + 1
      BY <1>1, <1>6, <2>4, ElseIs
    <3>2. st2 # <<>> /\ 1 \in DOMAIN st2 /\ OpenedAt(t.scope, st2[1])
      BY <1>1, <1>2, <1>5, <2>4, EndsStack
    <3>3. st2[1] \in F2
      BY <1>2, <3>2 DEF ToSet
    <3>4. Coming(F2, x)
      BY <3>1, <3>2, <3>3 DEF Coming, OpenedAt
    <3>5. IsBranch(x) /\ x \in DOMAIN scopes
      BY <3>1 DEF IsBranch, Branch
    <3> QED
      BY <2>4, <3>4, <3>5 DEF Owed
  <2> QED
    BY <2>2, <2>3, <2>4
<1> QED
  BY <1>2, <1>3, <1>4, <1>5, <1>8, <1>9, <1>10, <1>11, <1>12, LabelsEnded

LEMMA InitJumps == Init => JumpsInv
  BY DEF Init, CompilerInit, JumpsInv

LEMMA JumpsCompile ==
  ASSUME TypeInv, JumpsInv, Compile, Sound,
         UNCHANGED builderVars, NEW st2, st2 = scope_stack'
  PROVE  /\ phase' \in {"compiling", "running", "raised"}
         /\ phase' # "raised" => OnceIn(code')
         /\ phase' = "compiling" => LabelsInv(ToSet(st2), ToSet(code'))
         /\ phase' = "running" =>
              \A e \in ToSet(code') : e[1] \in Jumping => binds(e[2]) \in ToSet(code')
<1>1. CASE compile
  <2> DEFINE f == [scope |-> main, iterating |-> 0]
  <2>1. code' = <<>> /\ st2 = <<f>> /\ phase' = "compiling"
    BY <1>1 DEF compile, TypeInv
  <2>2. ToSet(st2) = {f} /\ ToSet(code') = {} /\ f.scope = main /\ f.iterating = 0
    BY <2>1 DEF ToSet
  <2>3. OnceIn(code')
    BY <2>1 DEF OnceIn
  <2> HIDE DEF f
  <2>4. Passed({f}, {}) /\ BoundInTime({f}, {}, {}) /\ Owing({f}, {})
    BY <2>2 DEF Passed, OnIt, BoundInTime, Owing
  <2>5. LabelsInv({f}, {})
    BY <2>4 DEF LabelsInv
  <2> QED
    BY <2>1, <2>2, <2>3, <2>5
<1>2. CASE ~ compile
  <2>1. phase = "compiling"
    BY <1>2 DEF Compile, Declare, Construct, Return, ScopeCreate,
       NotReported, If, Else, While, Break, EndScope, Epilogue, Visits, VisitsBranch
  <2>2. CompilingInv
    BY <2>1 DEF TypeInv, CompilingInv
  <2>3. OnceIn(code) /\ LabelsInv(ToSet(scope_stack), ToSet(code))
    BY <2>1 DEF JumpsInv
  <2>4. CASE scope_stack # <<>> /\ phase' = phase
             /\ (ContinueStep \/ EnterStep \/ ReturnStep \/ EndStep)
    <3>1. OnceIn(code') /\ LabelsInv(ToSet(st2), ToSet(code'))
      BY <2>2, <2>3, <2>4, LabelsContinue, LabelsEnter, LabelsReturn, LabelsEnd
    <3> QED
      BY <2>1, <2>4, <3>1
  <2>5. CASE NotReported
    BY <2>5 DEF NotReported
  <2>6. CASE Epilogue
    <3> DEFINE x == binds(exit_label)
    <3>1. /\ phase' = "running" /\ scope_stack = <<>> /\ code' = code \o <<x>>
          /\ code \in Seq(Emitted)
      BY <2>6 DEF Epilogue, TypeInv, binds
    <3>2. PICK F, C : F = ToSet(scope_stack) /\ C = ToSet(code)
      OBVIOUS
    <3>3. F = {}
      BY <3>1, <3>2 DEF ToSet
    <3>4. PICK D \in SUBSET DOMAIN scopes : BoundInTime(F, D, C) /\ Owing(F, C)
      BY <2>3, <3>2 DEF LabelsInv
    <3>5. x \notin C /\ x \in Emitted
      BY <3>4, EmittedIs DEF BoundInTime, binds
    <3>6. OnceIn(code') /\ ToSet(code') = C \cup {x}
      <4> HIDE DEF x
      <4>1. <<x>> \in Seq(Emitted) /\ ToSet(<<x>>) = {x} /\ OnceIn(<<x>>)
        BY <3>5, OneEmitted
      <4>2. OnceIn(code \o <<x>>) /\ ToSet(code \o <<x>>) = ToSet(code) \cup ToSet(<<x>>)
        BY <2>3, <3>1, <3>2, <3>5, <4>1, EmittedJoined
      <4> QED
        BY <3>1, <3>2, <4>1, <4>2
    <3>7. ASSUME NEW l, Owed(F, l) PROVE l = exit_label
      BY <3>3, <3>7 DEF Owed, OnIt, Coming, Fresh
    <3>8. ASSUME NEW e \in C \cup {x}, e[1] \in Jumping PROVE binds(e[2]) \in C \cup {x}
      <4>1. e \in C
        BY <3>8, LabelNames DEF Jumping
      <4>2. binds(e[2]) \in C \/ Owed(F, e[2])
        BY <3>4, <3>8, <4>1 DEF Owing
      <4> QED
        BY <3>7, <4>2
    <3> QED
      BY <3>1, <3>6, <3>8
  <2> QED
    BY <2>2, <2>4, <2>5, <2>6, StepShapes
<1> QED
  BY <1>1, <1>2
\* What depends on the scopes alone, as above.
LEMMA SameJumps ==
  ASSUME UNCHANGED builderVars
  PROVE  /\ Sound' <=> Sound
         /\ \A F, C : F = ToSet(scope_stack') /\ C = ToSet(code') /\ LabelsInv(F, C)
                        => LabelsInv(ToSet(scope_stack), ToSet(code))'
<1>1. scopes' = scopes
  BY DEF builderVars
<1>2. Sound' <=> Sound
  BY <1>1 DEF Sound, LoopsDoNotReturn, LoopsAndElsesHaveInstructions, Has, IsLoop, opener, instructions
<1>3. ASSUME NEW F, NEW C, F = ToSet(scope_stack'), C = ToSet(code'), LabelsInv(F, C)
      PROVE  LabelsInv(ToSet(scope_stack), ToSet(code))'
  <2>1. PICK D \in SUBSET DOMAIN scopes : Passed(F, D) /\ BoundInTime(F, D, C) /\ Owing(F, C)
    BY <1>3 DEF LabelsInv
  <2>2. ToSet(scope_stack)' = F /\ ToSet(code)' = C
    BY <1>3 DEF ToSet
  <2>3. \A s : /\ (IsBranch(s)' <=> IsBranch(s)) /\ (IsLoop(s)' <=> IsLoop(s))
               /\ instructions(s)' = instructions(s)
    BY <1>1 DEF IsBranch, IsLoop, opener, instructions
  <2>4. Passed(ToSet(scope_stack), D)'
    BY <1>1, <2>1, <2>2 DEF Passed, OnIt
  <2>5. BoundInTime(ToSet(scope_stack), D, ToSet(code))'
    BY <1>1, <2>1, <2>2, <2>3 DEF BoundInTime
  <2>6. Owing(ToSet(scope_stack), ToSet(code))'
    BY <1>1, <2>1, <2>2, <2>3 DEF Owing, Owed, OnIt, Coming, Fresh
  <2>7. D \in SUBSET DOMAIN scopes'
    BY <1>1
  <2> QED
    BY <2>4, <2>5, <2>6, <2>7 DEF LabelsInv
<1> QED
  BY <1>2, <1>3

LEMMA SameRegular ==
  ASSUME UNCHANGED builderVars
  PROVE  Regular' <=> Regular
<1>1. scopes' = scopes
  BY DEF builderVars
<1>2. ancestors' = ancestors
  BY <1>1 DEF ancestors
<1> QED
  BY <1>1, <1>2
  DEF Regular, ConstructedAtOnce, LoopsDoNotReturn, BreaksLeaveNothing,
      LoopsAndElsesHaveInstructions, ElsesFollowIfs, BranchesReported, Has, IsLoop, IsBranch,
      opener, instructions, InLoop, LeftByBreak, Variables, Reported

LEMMA JumpsNext == TypeInv /\ JumpsInv /\ [Next]_vars => JumpsInv'
<1> SUFFICES ASSUME TypeInv, JumpsInv, [Next]_vars PROVE JumpsInv'
  OBVIOUS
<1>1. CASE phase = "building" /\ Build /\ UNCHANGED <<compilerVars, runVars>>
  <2>1. phase' = "building"
    BY <1>1 DEF compilerVars
  <2> QED
    BY <2>1 DEF JumpsInv
<1>2. CASE Compile /\ UNCHANGED runVars
  <2>1. UNCHANGED builderVars
    BY <1>2 DEF Compile, compile, Declare, Construct, Return, ScopeCreate, NotReported, If,
       Else, While, Break, EndScope, Epilogue
  <2>2. PICK st2 : st2 = scope_stack'
    OBVIOUS
  <2> SUFFICES ASSUME Sound'
               PROVE  /\ phase' \in {"compiling", "running", "lost", "returned"} => OnceIn(code')
                      /\ phase' = "compiling" => LabelsInv(ToSet(scope_stack), ToSet(code))'
                      /\ phase' \in {"running", "lost", "returned"} =>
                           \A e \in ToSet(code') :
                             e[1] \in Jumping => binds(e[2]) \in ToSet(code')
    BY DEF JumpsInv, OnceIn, ToSet, binds
  <2>3. Sound
    BY <2>1, SameJumps
  <2>4. /\ phase' \in {"compiling", "running", "raised"}
        /\ phase' # "raised" => OnceIn(code')
        /\ phase' = "compiling" => LabelsInv(ToSet(st2), ToSet(code'))
        /\ phase' = "running" =>
             \A e \in ToSet(code') : e[1] \in Jumping => binds(e[2]) \in ToSet(code')
    BY <1>2, <2>1, <2>2, <2>3, JumpsCompile
  <2>5. phase' = "compiling" => LabelsInv(ToSet(scope_stack), ToSet(code))'
    BY <2>1, <2>2, <2>4, SameJumps
  <2> QED
    BY <2>4, <2>5
<1>3. ASSUME UNCHANGED <<builderVars, scope_stack, loop_stack, code>>,
             phase' = phase \/ (phase = "running" /\ phase' \in {"lost", "returned"})
      PROVE  JumpsInv'
  <2>1. UNCHANGED builderVars /\ scope_stack' = scope_stack /\ code' = code
    BY <1>3
  <2> SUFFICES ASSUME Sound'
               PROVE  /\ phase' \in {"compiling", "running", "lost", "returned"} => OnceIn(code')
                      /\ phase' = "compiling" => LabelsInv(ToSet(scope_stack), ToSet(code))'
                      /\ phase' \in {"running", "lost", "returned"} =>
                           \A e \in ToSet(code') :
                             e[1] \in Jumping => binds(e[2]) \in ToSet(code')
    BY DEF JumpsInv, OnceIn, ToSet, binds
  <2>2. Sound
    BY <2>1, SameJumps
  <2>3. /\ phase \in {"compiling", "running", "lost", "returned"} => OnceIn(code)
        /\ phase = "compiling" => LabelsInv(ToSet(scope_stack), ToSet(code))
        /\ phase \in {"running", "lost", "returned"} =>
             \A e \in ToSet(code) : e[1] \in Jumping => binds(e[2]) \in ToSet(code)
    BY <2>2 DEF JumpsInv
  <2>4. PICK F, C : F = ToSet(scope_stack) /\ C = ToSet(code)
    OBVIOUS
  <2>5. phase' = "compiling" => LabelsInv(ToSet(scope_stack), ToSet(code))'
    <3> SUFFICES ASSUME phase' = "compiling" PROVE LabelsInv(ToSet(scope_stack), ToSet(code))'
      OBVIOUS
    <3>1. LabelsInv(F, C)
      BY <1>3, <2>3, <2>4
    <3>2. F = ToSet(scope_stack') /\ C = ToSet(code')
      BY <2>1, <2>4
    <3> QED
      BY <2>1, <3>1, <3>2, SameJumps
  <2> QED
    BY <1>3, <2>1, <2>3, <2>5
<1>4. CASE Execute /\ UNCHANGED <<builderVars, scope_stack, loop_stack, code>>
  <2>1. phase = "running" /\ phase' \in {"running", "lost"}
    BY <1>4 DEF Execute, Call, Label, Eval, JumpIf, JumpAlways, At, Advance, Jump
  <2> QED
    BY <1>3, <1>4, <2>1
<1>5. CASE Leave /\ UNCHANGED <<builderVars, scope_stack, loop_stack, code>>
  BY <1>3, <1>5 DEF Leave
<1>6. CASE UNCHANGED vars
  <2>1. UNCHANGED <<builderVars, scope_stack, loop_stack, code>> /\ phase' = phase
    BY <1>6 DEF vars, compilerVars
  <2> QED
    BY <1>3, <2>1
<1> QED
  BY <1>1, <1>2, <1>4, <1>5, <1>6 DEF Next

\* No label is bound twice, and once the code is complete every label jumped to is bound: as
\* long as no loop returns in its body, which would leave out its condition, and no loop and
\* no else is without instructions, which would leave out the label of its beginning.
THEOREM JumpsHold == Spec => []JumpsInv
<1>1. Init => JumpsInv
  BY InitJumps
<1>2. TypeInv /\ TypeInv' /\ JumpsInv /\ [Next]_vars => JumpsInv'
  BY JumpsNext
<1> QED
  BY <1>1, <1>2, TypesHold, PTL DEF Spec

\* A jump of the code the compiler emitted has one place to lead to: the label it names is
\* bound exactly once (create_label, bind and the jumps of jit_x86_64.cpp), for the
\* functions the compiler gets right.  JumpsBound of CompiledCode.tla.
THEOREM JumpsAreBound == Spec => []JumpsBound
<1>1. TypeInv /\ JumpsInv => JumpsBound
  <2> SUFFICES ASSUME TypeInv, JumpsInv, Regular, phase \in {"running", "lost", "returned"},
                      NEW k \in DOMAIN code, code[k][1] \in {"jmp", "je", "jne"}
               PROVE  Cardinality({ l \in DOMAIN code : code[l] = <<"bind", code[k][2]>> }) = 1
    BY DEF JumpsBound
  <2>1. Sound
    BY DEF Regular, Sound
  <2>2. OnceIn(code) /\ \A e \in ToSet(code) : e[1] \in Jumping => binds(e[2]) \in ToSet(code)
    BY <2>1 DEF JumpsInv
  <2>3. code[k] \in ToSet(code)
    BY DEF ToSet
  <2>4. binds(code[k][2]) \in ToSet(code)
    BY <2>2, <2>3 DEF Jumping
  <2>5. PICK l \in DOMAIN code : code[l] = binds(code[k][2])
    BY <2>4 DEF ToSet
  <2>6. ASSUME NEW m \in DOMAIN code, code[m] = binds(code[k][2]) PROVE m = l
    <3>1. code[m] = code[l] /\ code[m][1] = "bind"
      BY <2>5, <2>6, LabelNames
    <3> QED
      BY <2>2, <3>1 DEF OnceIn
  <2>7. { m \in DOMAIN code : code[m] = <<"bind", code[k][2]>> } = {l}
    BY <2>5, <2>6 DEF binds
  <2> QED
    BY <2>7, FS_Singleton
<1> QED
  BY <1>1, TypesHold, JumpsHold, PTL

-----------------------------------------------------------------------------
(* A function the compiler gets right is compiled, and runs in its code.   *)

GetsThrough == Regular => phase \notin {"raised", "lost"}

\* An instruction whose branch is not in the report opens a scope that is not reported.
LEMMA AllReported ==
  ASSUME TypeInv, phase = "compiling", Regular
  PROVE  ~ NotReported
<1> SUFFICES ASSUME NotReported PROVE FALSE
  OBVIOUS
<1> DEFINE c == TopIns.arg
<1>1. CompilingInv
  BY DEF TypeInv, CompilingInv
<1>2. scope_stack # <<>> /\ ~ Ends /\ instruction.op \in Branch /\ ~ Reported(instruction.arg)
  BY DEF NotReported, Visits
<1>3. /\ instruction = TopIns /\ TopScope \in DOMAIN scopes
      /\ TopNext \in DOMAIN instructions(TopScope)
  BY <1>1, <1>2, TopSteps
<1>4. TopIns = instructions(TopScope)[TopNext] /\ TopIns.op \in Opening
  BY <1>2, <1>3 DEF TopIns, Opening
<1>5. c \in DOMAIN scopes \ {main} /\ IsBranch(c)
  BY <1>1, <1>2, <1>3, <1>4, Opens DEF CompilingInv
<1>6. BranchesReported(c)
  BY <1>5 DEF Regular
<1> QED
  BY <1>2, <1>3, <1>5, <1>6 DEF BranchesReported

\* Every label the code jumps to is bound.
LEMMA JumpsArrive ==
  ASSUME TypeInv, JumpsInv, Regular, phase = "running", NEW k \in DOMAIN code,
         code[k][1] \in Jumping
  PROVE  \E l \in DOMAIN code : code[l] = <<"bind", code[k][2]>>
<1>1. Sound
  BY DEF Regular, Sound
<1>2. code[k] \in ToSet(code)
  BY DEF ToSet
<1>3. binds(code[k][2]) \in ToSet(code)
  BY <1>1, <1>2 DEF JumpsInv
<1> QED
  BY <1>3 DEF ToSet, binds

LEMMA RunStays ==
  ASSUME TypeInv, JumpsInv, Regular, Execute
  PROVE  phase' = "running"
<1>1. phase = "running"
  BY DEF Execute, Call, Label, Eval, JumpIf, JumpAlways, At
<1>2. CASE Call \/ Label \/ Eval
  BY <1>1, <1>2 DEF Call, Label, Eval, Advance
<1>3. CASE JumpIf \/ JumpAlways
  <2>1. CASE Advance
    BY <1>1, <2>1 DEF Advance
  <2>2. CASE Jump(operand)
    <3>1. pc <= Len(code) /\ code[pc][1] \in Jumping
      BY <1>3 DEF JumpIf, JumpAlways, At, Jumping
    <3>2. pc \in DOMAIN code
      <4>1. code \in Seq(Emitted) /\ pc \in 1 .. Len(code) + 1
        BY DEF TypeInv
      <4>2. Len(code) \in Nat /\ DOMAIN code = 1 .. Len(code)
        BY <4>1
      <4> QED
        BY <3>1, <4>1, <4>2
    <3>3. \E l \in DOMAIN code : code[l] = <<"bind", operand>>
      BY <1>1, <3>1, <3>2, JumpsArrive DEF operand
    <3>4. { l \in DOMAIN code : code[l] = <<"bind", operand>> } # {}
      BY <3>3
    <3> QED
      BY <1>1, <2>2, <3>4 DEF Jump
  <2> QED
    BY <1>3, <2>1, <2>2 DEF JumpIf, JumpAlways
<1> QED
  BY <1>2, <1>3 DEF Execute

LEMMA GetsThroughNext == TypeInv /\ JumpsInv /\ GetsThrough /\ [Next]_vars => GetsThrough'
<1> SUFFICES ASSUME TypeInv, JumpsInv, GetsThrough, [Next]_vars, Regular'
             PROVE  phase' \notin {"raised", "lost"}
  BY DEF GetsThrough
<1>1. CASE phase = "building" /\ Build /\ UNCHANGED <<compilerVars, runVars>>
  BY <1>1 DEF compilerVars
<1>2. CASE Compile /\ UNCHANGED runVars
  <2>1. UNCHANGED builderVars
    BY <1>2 DEF Compile, compile, Declare, Construct, Return, ScopeCreate, NotReported, If,
       Else, While, Break, EndScope, Epilogue
  <2>2. Regular
    BY <2>1, SameRegular
  <2>3. CASE compile
    BY <2>3 DEF compile
  <2>4. CASE ~ compile
    <3>1. phase = "compiling"
      BY <1>2, <2>4 DEF Compile, Declare, Construct, Return, ScopeCreate,
         NotReported, If, Else, While, Break, EndScope, Epilogue, Visits, VisitsBranch
    <3>2. ~ NotReported
      BY <2>2, <3>1, AllReported
    <3> QED
      BY <1>2, <2>4, <3>1, <3>2 DEF Compile, Declare, Construct, Return, ScopeCreate,
         If, Else, While, Break, EndScope, Epilogue
  <2> QED
    BY <2>3, <2>4
<1>3. CASE Execute /\ UNCHANGED <<builderVars, scope_stack, loop_stack, code>>
  <2>1. Regular
    BY <1>3, SameRegular
  <2> QED
    BY <1>3, <2>1, RunStays
<1>4. CASE Leave /\ UNCHANGED <<builderVars, scope_stack, loop_stack, code>>
  BY <1>4 DEF Leave
<1>5. CASE UNCHANGED vars
  <2>1. UNCHANGED builderVars /\ phase' = phase
    BY <1>5 DEF vars, compilerVars
  <2> QED
    BY <2>1, SameRegular DEF GetsThrough
<1> QED
  BY <1>1, <1>2, <1>3, <1>4, <1>5 DEF Next

\* compile does not throw for a branch that is missing in its report (branch_map.at), and the
\* compiled code never jumps to a label nothing bound, for the functions Regular describes.
THEOREM RegularFunctionsCompile == Spec => []GetsThrough
<1>1. Init => GetsThrough
  BY DEF Init, CompilerInit, GetsThrough
<1>2. TypeInv /\ JumpsInv /\ GetsThrough /\ [Next]_vars => GetsThrough'
  BY GetsThroughNext
<1> QED
  BY <1>1, <1>2, TypesHold, JumpsHold, PTL DEF Spec

-----------------------------------------------------------------------------
(* The tree of scopes, from a scope up to the function, and the bytes of   *)
(* the variables: functions that recurse over the tree.                    *)

LEMMA Bounded ==
  ASSUME NEW n \in Nat, NEW f \in [1 .. n -> Nat]
  PROVE  \E b \in Nat : \A k \in 1 .. n : f[k] <= b
<1> DEFINE Bounds(m) == \E b \in Nat : \A k \in 1 .. n : k <= m => f[k] <= b
           B == { m \in Nat : Bounds(m) }
<1>1. 0 \in B
  OBVIOUS
<1>2. ASSUME NEW m \in Nat, m \in B PROVE m + 1 \in B
  <2>1. PICK b \in Nat : \A k \in 1 .. n : k <= m => f[k] <= b
    BY <1>2
  <2>2. CASE m + 1 \in 1 .. n
    <3>1. PICK c \in Nat : c = f[m + 1]
      BY <2>2
    <3>2. b + c \in Nat /\ \A k \in 1 .. n : k <= m + 1 => f[k] <= b + c
      <4> SUFFICES ASSUME NEW k \in 1 .. n, k <= m + 1 PROVE f[k] <= b + c
        OBVIOUS
      <4>1. f[k] \in Nat
        OBVIOUS
      <4>2. CASE k = m + 1
        BY <3>1, <4>2
      <4>3. CASE k # m + 1
        <5>1. k <= m
          BY <4>3
        <5>2. f[k] <= b
          BY <2>1, <5>1
        <5> QED
          BY <4>1, <5>2
      <4> QED
        BY <4>2, <4>3
    <3>3. Bounds(m + 1)
      BY <3>2
    <3> QED
      BY <3>3
  <2>3. CASE m + 1 \notin 1 .. n
    <3>1. \A k \in 1 .. n : k <= m + 1 => k <= m
      BY <2>3
    <3>2. Bounds(m + 1)
      BY <2>1, <3>1
    <3> QED
      BY <3>2
  <2> QED
    BY <2>2, <2>3
<1>3. Nat \subseteq B
  <2> HIDE DEF B
  <2> QED
    BY <1>1, <1>2, Induction
<1>4. PICK b \in Nat : \A k \in 1 .. n : k <= n => f[k] <= b
  BY <1>3
<1> QED
  BY <1>4

\* A scope is an ancestor of itself, and so are those of the scope it is in.
LEMMA AncestorsAre ==
  ASSUME BuilderType, TreeInv
  PROVE  /\ ancestors[0] = {}
         /\ \A s \in DOMAIN scopes : ancestors[s] = {s} \cup ancestors[scopes[s].parent_scope]
<1> DEFINE n == Len(scopes)
           T == 0 .. n
           V == SUBSET Nat
           size == [s \in T |-> s]
           done == {0}
           out == [s \in T |-> {}]
           next == [s \in T |-> scopes[s].parent_scope]
           step == [s \in T |-> [v \in V |-> {s} \cup v]]
<1>1. /\ n \in Nat /\ \A s \in T : s # 0 => s \in DOMAIN scopes
      /\ \A s \in DOMAIN scopes : s \in T /\ s # 0
  BY ScopeTyped DEF BuilderType
<1>2. ASSUME NEW s \in T, s # 0 PROVE scopes[s].parent_scope \in T /\ scopes[s].parent_scope < s
  <2>1. s \in DOMAIN scopes
    BY <1>1, <1>2
  <2>2. CASE s = main
    <3>1. scopes[s].parent_scope = 0
      BY <2>2 DEF TreeInv
    <3> QED
      BY <1>1, <1>2, <3>1
  <2>3. CASE s # main
    BY <1>1, <2>1, <2>3 DEF TreeInv, ParentInv
  <2> QED
    BY <2>2, <2>3
<1>3. PICK f : Unfolds(f, T, done, out, next, step)
  <2>1. size \in [T -> Nat] /\ \A s \in T : s \notin done => next[s] \in T /\ size[next[s]] < size[s]
    BY <1>1, <1>2
  <2> HIDE DEF T, size, done, out, next, step
  <2> QED
    BY <2>1, Unfolding
<1>4. \A s \in T : f[s] = IF s = 0 THEN {} ELSE step[s][f[next[s]]]
  BY <1>3 DEF Unfolds
<1> DEFINE Typed == { m \in Nat : \A s \in T : s < m => f[s] \in V }
<1>5. Nat \subseteq Typed
  <2>1. 0 \in Typed
    OBVIOUS
  <2>2. ASSUME NEW m \in Nat, m \in Typed PROVE m + 1 \in Typed
    <3> SUFFICES ASSUME NEW s \in T, s < m + 1 PROVE f[s] \in V
      OBVIOUS
    <3>1. CASE s = 0
      BY <1>4, <3>1
    <3>2. CASE s # 0
      <4>1. next[s] \in T /\ next[s] < m
        BY <1>2, <3>2
      <4>2. f[next[s]] \in V
        BY <2>2, <4>1
      <4>3. step[s][f[next[s]]] = {s} \cup f[next[s]]
        BY <4>2
      <4> HIDE DEF step, next
      <4>4. f[s] = {s} \cup f[next[s]]
        BY <1>4, <3>2, <4>3
      <4> QED
        BY <4>2, <4>4
    <3> QED
      BY <3>1, <3>2
  <2> HIDE DEF Typed
  <2> QED
    BY <2>1, <2>2, Induction
<1>6. \A s \in T : f[s] \in V
  <2> SUFFICES ASSUME NEW s \in T PROVE f[s] \in V
    OBVIOUS
  <2>1. s + 1 \in Typed /\ s < s + 1
    BY <1>1, <1>5
  <2> QED
    BY <2>1
<1>7. \A s \in T : f[s] = IF s = 0 THEN {} ELSE {s} \cup f[scopes[s].parent_scope]
  <2> SUFFICES ASSUME NEW s \in T, s # 0 PROVE f[s] = {s} \cup f[scopes[s].parent_scope]
    BY <1>4
  <2>1. f[scopes[s].parent_scope] \in V /\ next[s] = scopes[s].parent_scope
    BY <1>2, <1>6
  <2>2. step[s][f[scopes[s].parent_scope]] = {s} \cup f[scopes[s].parent_scope]
    BY <2>1
  <2> HIDE DEF step, next
  <2> QED
    BY <1>4, <2>1, <2>2
<1>8. f = [s \in 0 .. Len(scopes) |-> IF s = 0 THEN {} ELSE {s} \cup f[scopes[s].parent_scope]]
  <2>1. f = [s \in T |-> f[s]]
    BY <1>3 DEF Unfolds
  <2> HIDE DEF V
  <2> QED
    BY <1>7, <2>1
<1>9. ancestors = [s \in 0 .. Len(scopes) |->
                     IF s = 0 THEN {} ELSE {s} \cup ancestors[scopes[s].parent_scope]]
  <2> HIDE DEF T, V, size, done, out, next, step, n
  <2> QED
    BY <1>8, Zenon DEF ancestors
<1>10. ASSUME NEW s \in T
       PROVE  ancestors[s] = IF s = 0 THEN {} ELSE {s} \cup ancestors[scopes[s].parent_scope]
  BY <1>9
<1>11. 0 \in T
  BY <1>1
<1> HIDE DEF T
<1> QED
  BY <1>1, <1>10, <1>11

LEMMA AtLeastTwice ==
  ASSUME NEW m \in Nat, NEW p \in Nat, NEW s \in Nat, p < s
  PROVE  p * m + m <= s * m
<1>1. PICK d \in Nat : s = p + 1 + d
  <2>1. s - p - 1 \in Nat /\ s = p + 1 + (s - p - 1)
    OBVIOUS
  <2> QED
    BY <2>1
<1>2. s * m = p * m + m + d * m
  BY <1>1
<1>3. d * m \in Nat /\ p * m \in Nat
  OBVIOUS
<1> QED
  BY <1>2, <1>3

LEMMA GrownIs ==
  ASSUME NEW n \in Nat, NEW size \in Nat
  PROVE  Grown(n, size) \in Nat /\ Grown(n, size) >= n + size
<1>1. \A k \in Nat : simple_16_bit_align(k) \in Nat /\ simple_16_bit_align(k) >= k
  BY DEF simple_16_bit_align
<1>2. n + size \in Nat
  OBVIOUS
<1>3. PICK a \in Nat : a = simple_16_bit_align(n + size) /\ a >= n + size
  BY <1>1, <1>2
<1> QED
  BY <1>3 DEF Grown

\* The positions of the instructions, and of the beginnings of scopes.
LEMMA PositionsAre ==
  ASSUME BuilderType, TreeInv
  PROVE  /\ \A p \in Positions :
              /\ p[1] \in DOMAIN scopes /\ p[2] \in 0 .. Len(instructions(p[1])) /\ p = <<p[1], p[2]>>
         /\ \A s \in DOMAIN scopes : \A k \in 0 .. Len(instructions(s)) : <<s, k>> \in Positions
         /\ \A c \in DOMAIN scopes \ {main} :
              /\ scopes[c].parent_scope \in DOMAIN scopes /\ scopes[c].parent_scope < c
              /\ scopes[c].opener \in 1 .. Len(instructions(scopes[c].parent_scope))
         /\ \A s \in DOMAIN scopes : s \in Nat /\ type_size[s] \in Nat \ {0}
                                     /\ Len(instructions(s)) \in Nat
<1>1. \A s \in DOMAIN scopes : /\ Len(instructions(s)) \in Nat /\ s \in Nat /\ s \in 1 .. Len(scopes)
                               /\ DOMAIN instructions(s) = 1 .. Len(instructions(s))
                               /\ Len(scopes) \in Nat
  BY ScopeTyped DEF BuilderType
<1>2. ASSUME NEW c \in DOMAIN scopes \ {main}
      PROVE  /\ scopes[c].parent_scope \in DOMAIN scopes /\ scopes[c].parent_scope < c
             /\ scopes[c].opener \in 1 .. Len(instructions(scopes[c].parent_scope))
  BY <1>1 DEF TreeInv, ParentInv
<1>3. ASSUME NEW s \in DOMAIN scopes PROVE type_size[s] \in Nat \ {0}
  <2>1. s \in 1 .. MaxCalls + 1
    BY <1>1, BuilderAssumption DEF TreeInv, BuilderType
  <2> QED
    BY <2>1, SizeAssumption
<1>4. ASSUME NEW p \in Positions
      PROVE  /\ p[1] \in DOMAIN scopes /\ p[2] \in 0 .. Len(instructions(p[1])) /\ p = <<p[1], p[2]>>
  <2>1. PICK s \in DOMAIN scopes : p \in {s} \X (0 .. Len(instructions(s)))
    BY DEF Positions
  <2> QED
    BY <2>1
<1>5. ASSUME NEW s \in DOMAIN scopes, NEW k \in 0 .. Len(instructions(s)) PROVE <<s, k>> \in Positions
  <2>1. <<s, k>> \in {s} \X (0 .. Len(instructions(s)))
    OBVIOUS
  <2> QED
    BY <2>1 DEF Positions
<1> QED
  BY <1>1, <1>2, <1>3, <1>4, <1>5

\* What the size of the frame at a position is said to be.
SizeIs(f, p) ==
  f[p] = IF p[2] = 0
         THEN IF p[1] = main THEN stack_reserve
              ELSE f[<<scopes[p[1]].parent_scope, scopes[p[1]].opener>>]
         ELSE IF instructions(p[1])[p[2]].op = "declare"
              THEN Grown(f[<<p[1], p[2] - 1>>], type_size[p[1]])
              ELSE f[<<p[1], p[2] - 1>>]
Preceding(p) ==
  IF p[2] = 0 THEN <<scopes[p[1]].parent_scope, scopes[p[1]].opener>> ELSE <<p[1], p[2] - 1>>

\* The position a size depends on comes earlier, scope by scope.
LEMMA Earlier ==
  ASSUME BuilderType, TreeInv
  PROVE  \E size \in [Positions -> Nat] : \A p \in Positions :
           p # <<main, 0>> => Preceding(p) \in Positions /\ size[Preceding(p)] < size[p]
<1> DEFINE n == Len(scopes)
           long == [s \in 1 .. n |-> Len(instructions(s))]
<1>1. n \in Nat /\ DOMAIN scopes = 1 .. n
  BY DEF BuilderType
<1>2. long \in [1 .. n -> Nat]
  BY <1>1, PositionsAre
<1>3. PICK b \in Nat : \A s \in 1 .. n : long[s] <= b
  <2> HIDE DEF n, long
  <2> QED
    BY <1>1, <1>2, Bounded
<1>4. \A s \in DOMAIN scopes : Len(instructions(s)) <= b
  BY <1>1, <1>3
<1> DEFINE size == [p \in Positions |-> p[1] * (b + 1) + p[2]]
<1>5. ASSUME NEW p \in Positions PROVE size[p] = p[1] * (b + 1) + p[2] /\ size[p] \in Nat
  <2>1. p[1] \in Nat /\ p[2] \in Nat
    BY PositionsAre
  <2>2. p[1] * (b + 1) \in Nat
    BY <2>1
  <2> QED
    BY <2>1, <2>2
<1>6. size \in [Positions -> Nat]
  BY <1>5
<1> HIDE DEF size
<1>7. ASSUME NEW p \in Positions, p # <<main, 0>>
      PROVE  Preceding(p) \in Positions /\ size[Preceding(p)] < size[p]
  <2>1. p[1] \in DOMAIN scopes /\ p[2] \in 0 .. Len(instructions(p[1])) /\ p = <<p[1], p[2]>>
        /\ p[1] \in Nat /\ Len(instructions(p[1])) \in Nat
    BY PositionsAre
  <2>2. CASE p[2] = 0
    <3>1. p[1] # main
      BY <1>7, <2>1, <2>2
    <3>2. PICK q, k : q = scopes[p[1]].parent_scope /\ k = scopes[p[1]].opener
      OBVIOUS
    <3>3. q \in DOMAIN scopes /\ q < p[1] /\ k \in 1 .. Len(instructions(q))
          /\ q \in Nat /\ Len(instructions(q)) \in Nat /\ Len(instructions(q)) <= b
      BY <1>4, <2>1, <3>1, <3>2, PositionsAre
    <3>4. k \in 0 .. Len(instructions(q)) /\ k \in Nat /\ k <= b
      BY <3>3
    <3>5. Preceding(p) = <<q, k>> /\ <<q, k>> \in Positions
      BY <2>2, <3>2, <3>3, <3>4, PositionsAre DEF Preceding
    <3>6. size[<<q, k>>] = q * (b + 1) + k
      BY <1>5, <3>5
    <3>7. size[p] = p[1] * (b + 1)
      <4>1. size[p] = p[1] * (b + 1) + p[2]
        BY <1>5
      <4>2. p[1] * (b + 1) \in Nat
        BY <2>1
      <4> QED
        BY <2>2, <4>1, <4>2
    <3>8. q * (b + 1) + (b + 1) <= p[1] * (b + 1)
      <4>1. PICK m \in Nat : m = b + 1
        OBVIOUS
      <4>2. q * m + m <= p[1] * m
        BY <2>1, <3>3, AtLeastTwice
      <4> QED
        BY <4>1, <4>2
    <3>9. q * (b + 1) \in Nat /\ p[1] * (b + 1) \in Nat
      <4>1. PICK m \in Nat, s \in Nat : m = b + 1 /\ s = p[1]
        BY <2>1
      <4>2. q * m \in Nat /\ s * m \in Nat
        BY <3>3
      <4> QED
        BY <4>1, <4>2
    <3>10. q * (b + 1) + k < p[1] * (b + 1)
      <4>1. PICK x, y : x = q * (b + 1) /\ y = p[1] * (b + 1)
        OBVIOUS
      <4> QED
        BY <3>4, <3>8, <3>9, <4>1
    <3> QED
      BY <3>5, <3>6, <3>7, <3>10
  <2>3. CASE p[2] # 0
    <3>1. PICK s, k : s = p[1] /\ k = p[2]
      OBVIOUS
    <3>2. s \in DOMAIN scopes /\ s \in Nat /\ k \in Nat /\ k - 1 \in 0 .. Len(instructions(s))
      BY <2>1, <2>3, <3>1
    <3>3. Preceding(p) = <<s, k - 1>> /\ <<s, k - 1>> \in Positions
      BY <2>3, <3>1, <3>2, PositionsAre DEF Preceding
    <3>4. size[<<s, k - 1>>] = s * (b + 1) + (k - 1) /\ size[p] = s * (b + 1) + k
      BY <1>5, <3>1, <3>3
    <3>5. s * (b + 1) \in Nat
      BY <3>2
    <3> QED
      BY <3>2, <3>3, <3>4, <3>5
  <2> QED
    BY <2>2, <2>3
<1> QED
  BY <1>6, <1>7

LEMMA SizesAre ==
  ASSUME BuilderType, TreeInv
  PROVE  \A p \in Positions : /\ current_size[p] \in Nat /\ current_size[p] >= stack_reserve
                                /\ SizeIs(current_size, p)
<1> DEFINE T == Positions
           V == Nat
           done == { <<main, 0>> }
           out == [p \in T |-> stack_reserve]
           next == [p \in T |-> Preceding(p)]
           more(p, v) == IF p[2] # 0 /\ instructions(p[1])[p[2]].op = "declare"
                         THEN Grown(v, type_size[p[1]]) ELSE v
           step == [p \in T |-> [v \in V |-> more(p, v)]]
<1>1. PICK size \in [T -> Nat] :
        \A p \in T : p # <<main, 0>> => Preceding(p) \in T /\ size[Preceding(p)] < size[p]
  BY Earlier
<1>2. PICK f : Unfolds(f, T, done, out, next, step)
  <2>1. \A p \in T : p \notin done => next[p] \in T /\ size[next[p]] < size[p]
    BY <1>1
  <2> HIDE DEF T, done, out, next, step
  <2> QED
    BY <1>1, <2>1, Unfolding
<1>3. ASSUME NEW p \in T PROVE f[p] = IF p = <<main, 0>> THEN stack_reserve ELSE step[p][f[Preceding(p)]]
  <2>1. f[p] = IF p \in done THEN out[p] ELSE step[p][f[next[p]]]
    BY <1>2 DEF Unfolds
  <2>2. out[p] = stack_reserve /\ next[p] = Preceding(p)
    OBVIOUS
  <2> HIDE DEF step, out, next
  <2> QED
    BY <2>1, <2>2
<1>4. ASSUME NEW p \in T, NEW v \in V PROVE more(p, v) \in V /\ step[p][v] = more(p, v)
  <2>1. type_size[p[1]] \in Nat
    BY PositionsAre
  <2> QED
    BY <2>1, GrownIs
<1> HIDE DEF step, more
<1> DEFINE Typed == { m \in Nat : \A p \in T : size[p] < m => f[p] \in V }
<1>5. Nat \subseteq Typed
  <2>1. 0 \in Typed
    OBVIOUS
  <2>2. ASSUME NEW m \in Nat, m \in Typed PROVE m + 1 \in Typed
    <3> SUFFICES ASSUME NEW p \in T, size[p] < m + 1 PROVE f[p] \in V
      OBVIOUS
    <3>1. CASE p = <<main, 0>>
      BY <1>3, <3>1 DEF stack_reserve
    <3>2. CASE p # <<main, 0>>
      <4>1. PICK q \in T : q = Preceding(p) /\ size[q] < size[p]
        BY <1>1, <3>2
      <4>2. size[q] < m
        <5>1. size[q] \in Nat /\ size[p] \in Nat
          OBVIOUS
        <5> QED
          BY <4>1, <5>1
      <4>3. f[q] \in V
        BY <2>2, <4>2
      <4> QED
        BY <1>3, <1>4, <3>2, <4>1, <4>3
    <3> QED
      BY <3>1, <3>2
  <2> HIDE DEF Typed
  <2> QED
    BY <2>1, <2>2, Induction
<1>6. \A p \in T : f[p] \in V
  <2> SUFFICES ASSUME NEW p \in T PROVE f[p] \in V
    OBVIOUS
  <2>1. size[p] + 1 \in Typed /\ size[p] < size[p] + 1
    BY <1>5
  <2> QED
    BY <2>1
<1>7. ASSUME NEW p \in T PROVE SizeIs(f, p)
  <2>1. p[1] \in DOMAIN scopes /\ p[2] \in 0 .. Len(instructions(p[1])) /\ p = <<p[1], p[2]>>
    BY PositionsAre
  <2>2. CASE p = <<main, 0>>
    BY <1>3, <2>2 DEF SizeIs
  <2>3. CASE p # <<main, 0>>
    <3>1. PICK q \in T : q = Preceding(p)
      BY <1>1, <2>3
    <3>2. f[p] = more(p, f[q])
      BY <1>3, <1>4, <1>6, <2>3, <3>1
    <3>3. CASE p[2] = 0
      <4>1. p[1] # main
        BY <2>1, <2>3, <3>3
      <4> QED
        BY <3>1, <3>2, <3>3, <4>1 DEF SizeIs, Preceding, more
    <3>4. CASE p[2] # 0
      BY <3>1, <3>2, <3>4 DEF SizeIs, Preceding, more
    <3> QED
      BY <3>3, <3>4
  <2> QED
    BY <2>2, <2>3
<1>8. f = [p \in Positions |->
             LET s == p[1]
                 i1 == p[2]
             IN  IF i1 = 0
                 THEN IF s = main THEN stack_reserve
                      ELSE f[<<scopes[s].parent_scope, scopes[s].opener>>]
                 ELSE IF instructions(s)[i1].op = "declare"
                      THEN Grown(f[<<s, i1 - 1>>], type_size[s])
                      ELSE f[<<s, i1 - 1>>]]
  <2>1. f = [p \in T |-> f[p]]
    BY <1>2 DEF Unfolds
  <2> HIDE DEF V, done, out, next
  <2> QED
    BY <1>7, <2>1 DEF SizeIs
<1>9. current_size = [p \in Positions |->
             LET s == p[1]
                 i1 == p[2]
             IN  IF i1 = 0
                 THEN IF s = main THEN stack_reserve
                      ELSE current_size[<<scopes[s].parent_scope, scopes[s].opener>>]
                 ELSE IF instructions(s)[i1].op = "declare"
                      THEN Grown(current_size[<<s, i1 - 1>>], type_size[s])
                      ELSE current_size[<<s, i1 - 1>>]]
  <2> HIDE DEF T, V, done, out, next
  <2> QED
    BY <1>8, Zenon DEF current_size
<1>10. ASSUME NEW p \in Positions PROVE SizeIs(current_size, p)
  <2>1. PICK g : g = current_size
    OBVIOUS
  <2>2. SizeIs(g, p)
    BY <1>9, <2>1 DEF SizeIs
  <2> QED
    BY <2>1, <2>2
<1> DEFINE Fine == { m \in Nat : \A p \in T : size[p] < m =>
                             current_size[p] \in Nat /\ current_size[p] >= stack_reserve }
<1>11. Nat \subseteq Fine
  <2>1. 0 \in Fine
    OBVIOUS
  <2>2. ASSUME NEW m \in Nat, m \in Fine PROVE m + 1 \in Fine
    <3> SUFFICES ASSUME NEW p \in T, size[p] < m + 1 PROVE current_size[p] \in Nat /\ current_size[p] >= stack_reserve
      OBVIOUS
    <3>1. CASE p = <<main, 0>>
      <4>1. p[1] = main /\ p[2] = 0 /\ SizeIs(current_size, p)
        BY <1>10, <3>1
      <4> QED
        BY <4>1 DEF SizeIs, stack_reserve
    <3>2. CASE p # <<main, 0>>
      <4>1. PICK q \in T : q = Preceding(p) /\ size[q] < size[p]
        BY <1>1, <3>2
      <4>2. size[q] < m
        <5>1. size[q] \in Nat /\ size[p] \in Nat
          OBVIOUS
        <5> QED
          BY <4>1, <5>1
      <4>3. current_size[q] \in Nat /\ current_size[q] >= stack_reserve
        BY <2>2, <4>2
      <4>4. p[1] \in DOMAIN scopes /\ p[2] \in 0 .. Len(instructions(p[1])) /\ p = <<p[1], p[2]>>
            /\ type_size[p[1]] \in Nat
        BY PositionsAre
      <4>5. p[2] = 0 => p[1] # main
        BY <3>2, <4>4
      <4>6. current_size[p] \in {current_size[q], Grown(current_size[q], type_size[p[1]])}
        BY <1>10, <4>1, <4>5 DEF SizeIs, Preceding
      <4> QED
        BY <4>3, <4>4, <4>6, GrownIs DEF stack_reserve
    <3> QED
      BY <3>1, <3>2
  <2> HIDE DEF Fine
  <2> QED
    BY <2>1, <2>2, Induction
<1>12. ASSUME NEW p \in Positions PROVE current_size[p] \in Nat /\ current_size[p] >= stack_reserve
  <2>1. size[p] + 1 \in Fine /\ size[p] < size[p] + 1
    BY <1>11
  <2> QED
    BY <2>1
<1> QED
  BY <1>10, <1>12

size_at(s, k) == current_size[<<s, k>>]

\* A variable is given bytes above those of the instructions before it.
LEMMA SizesGrow ==
  ASSUME BuilderType, TreeInv, NEW s \in DOMAIN scopes
  PROVE  /\ \A k \in 0 .. Len(instructions(s)) : size_at(s, k) \in Nat /\ size_at(s, k) >= stack_reserve
         /\ \A k \in 1 .. Len(instructions(s)) :
              /\ size_at(s, k - 1) <= size_at(s, k)
              /\ instructions(s)[k].op = "declare" => size_at(s, k - 1) + type_size[s] <= size_at(s, k)
         /\ s # main => size_at(s, 0) = size_at(scopes[s].parent_scope, scopes[s].opener)
<1>1. Len(instructions(s)) \in Nat /\ type_size[s] \in Nat
  BY PositionsAre
<1>2. ASSUME NEW k \in 0 .. Len(instructions(s))
      PROVE  /\ <<s, k>> \in Positions /\ size_at(s, k) \in Nat /\ size_at(s, k) >= stack_reserve
             /\ SizeIs(current_size, <<s, k>>)
  <2>1. <<s, k>> \in Positions
    BY PositionsAre
  <2> QED
    BY <2>1, SizesAre DEF size_at
<1>3. ASSUME NEW k \in 1 .. Len(instructions(s))
      PROVE  /\ size_at(s, k - 1) <= size_at(s, k)
             /\ instructions(s)[k].op = "declare" => size_at(s, k - 1) + type_size[s] <= size_at(s, k)
  <2>1. k \in 0 .. Len(instructions(s)) /\ k - 1 \in 0 .. Len(instructions(s)) /\ k # 0
    BY <1>1
  <2>2. SizeIs(current_size, <<s, k>>)
    BY <1>2, <2>1
  <2>3. size_at(s, k) = IF instructions(s)[k].op = "declare"
                        THEN Grown(size_at(s, k - 1), type_size[s]) ELSE size_at(s, k - 1)
    BY <2>1, <2>2 DEF SizeIs, size_at
  <2>4. PICK n \in Nat : n = size_at(s, k - 1)
    BY <1>2, <2>1
  <2>5. Grown(n, type_size[s]) \in Nat /\ Grown(n, type_size[s]) >= n + type_size[s]
    BY <1>1, GrownIs
  <2> QED
    BY <1>1, <2>3, <2>4, <2>5
<1>4. s # main => size_at(s, 0) = size_at(scopes[s].parent_scope, scopes[s].opener)
  <2>1. 0 \in 0 .. Len(instructions(s))
    BY <1>1
  <2>2. SizeIs(current_size, <<s, 0>>)
    BY <1>2, <2>1
  <2> QED
    BY <2>2 DEF SizeIs, size_at
<1> QED
  BY <1>2, <1>3, <1>4

LEMMA SizesOrdered ==
  ASSUME BuilderType, TreeInv, NEW s \in DOMAIN scopes,
         NEW j \in 0 .. Len(instructions(s)), NEW k \in 0 .. Len(instructions(s)), j <= k
  PROVE  size_at(s, j) <= size_at(s, k)
<1>1. Len(instructions(s)) \in Nat
  BY PositionsAre
<1>2. /\ \A m \in 0 .. Len(instructions(s)) : size_at(s, m) \in Nat
      /\ \A m \in 1 .. Len(instructions(s)) : size_at(s, m - 1) <= size_at(s, m)
  BY SizesGrow
<1> DEFINE Up == { d \in Nat : j + d <= Len(instructions(s)) => size_at(s, j) <= size_at(s, j + d) }
<1>3. 0 \in Up
  BY <1>1, <1>2
<1>4. ASSUME NEW d \in Nat, d \in Up PROVE d + 1 \in Up
  <2> SUFFICES ASSUME j + (d + 1) <= Len(instructions(s)) PROVE size_at(s, j) <= size_at(s, j + (d + 1))
    OBVIOUS
  <2>1. /\ j + d \in 0 .. Len(instructions(s)) /\ j + d <= Len(instructions(s))
        /\ j + (d + 1) \in 1 .. Len(instructions(s)) /\ j + (d + 1) \in 0 .. Len(instructions(s))
        /\ (j + (d + 1)) - 1 = j + d
    BY <1>1
  <2>2. PICK a \in Nat, b \in Nat, c \in Nat :
          a = size_at(s, j) /\ b = size_at(s, j + d) /\ c = size_at(s, j + (d + 1))
    BY <1>2, <2>1
  <2>3. a <= b
    BY <1>4, <2>1, <2>2
  <2>4. size_at(s, (j + (d + 1)) - 1) <= size_at(s, j + (d + 1))
    BY <1>2, <2>1
  <2>5. b <= c
    BY <2>1, <2>2, <2>4
  <2> QED
    BY <2>2, <2>3, <2>5
<1>5. Nat \subseteq Up
  <2> HIDE DEF Up
  <2> QED
    BY <1>3, <1>4, Induction
<1>6. k - j \in Nat /\ j + (k - j) = k /\ k <= Len(instructions(s))
  BY <1>1
<1>7. k - j \in Up
  BY <1>5, <1>6
<1> QED
  BY <1>6, <1>7

\* Scopes inside others start where those stand: bytes grow towards the top of the stack.
LEMMA StackSizes ==
  ASSUME BuilderType, TreeInv, NEW st, StackInv(st),
         NEW j \in DOMAIN st, NEW k \in DOMAIN st, j < k
  PROVE  size_at(st[k].scope, st[k].iterating) <= size_at(st[j].scope, 0)
<1>1. /\ Len(st) \in Nat /\ DOMAIN st = 1 .. Len(st) /\ \A m \in DOMAIN st : st[m] \in Frame
  <2>1. st \in Seq(Frame)
    BY DEF StackInv
  <2> HIDE DEF Frame
  <2> QED
    BY <2>1
<1>2. ASSUME NEW m \in DOMAIN st
      PROVE  /\ st[m].scope \in DOMAIN scopes /\ st[m].iterating \in Nat
             /\ st[m].iterating \in 0 .. Len(instructions(st[m].scope))
             /\ 0 \in 0 .. Len(instructions(st[m].scope))
             /\ 0 <= st[m].iterating
  <2>1. st[m].scope \in DOMAIN scopes /\ st[m].iterating \in Nat
        /\ st[m].iterating <= Len(instructions(st[m].scope))
    BY <1>1 DEF StackInv, Frame
  <2>2. Len(instructions(st[m].scope)) \in Nat
    BY <2>1, PositionsAre
  <2> QED
    BY <2>1, <2>2
<1> DEFINE low(m) == size_at(st[m].scope, 0)
           high(m) == size_at(st[m].scope, st[m].iterating)
<1>3. ASSUME NEW m \in DOMAIN st
      PROVE  low(m) \in Nat /\ high(m) \in Nat /\ low(m) <= high(m)
  <2>1. low(m) \in Nat /\ high(m) \in Nat
    BY <1>2, SizesGrow
  <2>2. low(m) <= high(m)
    BY <1>2, SizesOrdered
  <2> QED
    BY <2>1, <2>2
<1>4. ASSUME NEW m \in DOMAIN st, m + 1 \in DOMAIN st PROVE low(m) = high(m + 1)
  <2>1. OpenedAt(st[m].scope, st[m + 1])
    BY <1>4 DEF StackInv
  <2>2. /\ st[m].scope # main /\ st[m].scope \in DOMAIN scopes
        /\ scopes[st[m].scope].parent_scope = st[m + 1].scope
        /\ scopes[st[m].scope].opener = st[m + 1].iterating
    BY <1>2, <2>1 DEF OpenedAt
  <2> QED
    BY <2>2, SizesGrow
<1> HIDE DEF low, high
<1> DEFINE Below(d) == j + 1 + d \in DOMAIN st => high(j + 1 + d) <= low(j)
           D == { d \in Nat : Below(d) }
<1>5. 0 \in D
  <2>1. j + 1 + 0 \in DOMAIN st => high(j + 1 + 0) <= low(j)
    <3> SUFFICES ASSUME j + 1 \in DOMAIN st PROVE high(j + 1) <= low(j)
      BY <1>1
    <3> QED
      BY <1>3, <1>4
  <2> QED
    BY <2>1
<1>6. ASSUME NEW d \in Nat, d \in D PROVE d + 1 \in D
  <2> SUFFICES ASSUME j + 1 + (d + 1) \in DOMAIN st PROVE high(j + 1 + (d + 1)) <= low(j)
    OBVIOUS
  <2>1. PICK m \in DOMAIN st : m = j + 1 + d /\ m + 1 = j + 1 + (d + 1)
    <3>1. j + 1 + d \in DOMAIN st /\ (j + 1 + d) + 1 = j + 1 + (d + 1)
      BY <1>1
    <3> QED
      BY <3>1
  <2>2. high(m) <= low(j)
    BY <1>6, <2>1
  <2>3. low(m) = high(m + 1) /\ m + 1 \in DOMAIN st
    BY <1>4, <2>1
  <2>4. low(m) \in Nat /\ high(m) \in Nat /\ low(m) <= high(m) /\ low(j) \in Nat
    BY <1>3
  <2> QED
    BY <2>1, <2>2, <2>3, <2>4
<1>7. Nat \subseteq D
  <2> HIDE DEF D
  <2> QED
    BY <1>5, <1>6, Induction
<1>8. k - j - 1 \in Nat /\ j + 1 + (k - j - 1) = k
  BY <1>1
<1>9. k - j - 1 \in D
  BY <1>7, <1>8
<1>10. high(k) <= low(j)
  BY <1>8, <1>9
<1> QED
  BY <1>10 DEF high, low

\* The bytes of a variable lie above the ones before it.
LEMMA BytesLie ==
  ASSUME BuilderType, TreeInv, NEW s \in DOMAIN scopes, NEW k \in DOMAIN instructions(s),
         instructions(s)[k].op = "declare"
  PROVE  /\ k \in 1 .. Len(instructions(s))
         /\ size_at(s, k - 1) \in Nat /\ size_at(s, k) \in Nat /\ size_at(s, k - 1) >= stack_reserve
         /\ Bytes(<<s, k>>) \subseteq size_at(s, k - 1) + 1 .. size_at(s, k)
<1>1. Len(instructions(s)) \in Nat /\ type_size[s] \in Nat /\ k \in 1 .. Len(instructions(s))
  BY PositionsAre, ScopeTyped DEF BuilderType
<1>2. k \in 0 .. Len(instructions(s)) /\ k - 1 \in 0 .. Len(instructions(s))
  BY <1>1
<1>3. PICK a \in Nat, b \in Nat, t \in Nat :
        a = size_at(s, k - 1) /\ b = size_at(s, k) /\ t = type_size[s]
  BY <1>1, <1>2, SizesGrow
<1>4. a + t <= b /\ a >= stack_reserve
  BY <1>1, <1>2, <1>3, SizesGrow
<1>5. Bytes(<<s, k>>) = b - t + 1 .. b
  BY <1>3 DEF Bytes, size_at
<1>6. b - t + 1 .. b \subseteq a + 1 .. b
  BY <1>4
<1> QED
  BY <1>1, <1>3, <1>4, <1>5, <1>6

LEMMA GreatestIs ==
  ASSUME NEW n \in Nat, NEW S, S \subseteq 0 .. n, S # {}
  PROVE  Max(S) \in S /\ \A x \in S : x <= Max(S)
<1> DEFINE HasOne(T) == \E x \in T : \A y \in T : x >= y
           B == { m \in Nat : \A T : T \subseteq 0 .. m /\ T # {} => HasOne(T) }
<1>1. 0 \in B
  <2> SUFFICES ASSUME NEW T, T \subseteq 0 .. 0, T # {} PROVE HasOne(T)
    OBVIOUS
  <2>1. 0 .. 0 = {0}
    OBVIOUS
  <2>2. T = {0}
    BY <2>1
  <2> QED
    BY <2>2
<1>2. ASSUME NEW m \in Nat, m \in B PROVE m + 1 \in B
  <2> SUFFICES ASSUME NEW T, T \subseteq 0 .. m + 1, T # {} PROVE HasOne(T)
    OBVIOUS
  <2>1. CASE m + 1 \in T
    BY <2>1
  <2>2. CASE m + 1 \notin T
    <3>1. T \subseteq 0 .. m
      BY <2>2
    <3> HIDE DEF HasOne
    <3> QED
      BY <1>2, <3>1
  <2> QED
    BY <2>1, <2>2
<1>3. Nat \subseteq B
  <2> HIDE DEF B
  <2> QED
    BY <1>1, <1>2, Induction
<1>4. HasOne(S)
  <2> HIDE DEF HasOne
  <2> QED
    BY <1>3
<1> QED
  BY <1>4 DEF Max

LEMMA DeclarationsAre ==
  ASSUME BuilderType
  PROVE  Declarations = UNION { Declared(s, Len(instructions(s))) : s \in DOMAIN scopes }
<1>1. ASSUME NEW s \in DOMAIN scopes
      PROVE  ToSet(Variables(s, Len(instructions(s)))) = Declared(s, Len(instructions(s)))
  <2>1. Len(instructions(s)) \in Nat
    BY ScopeTyped DEF BuilderType
  <2> QED
    BY <2>1, VariablesAre
<1> QED
  BY <1>1 DEF Declarations

\* No variable lies below the stack pointer.
LEMMA FrameHoldsAll ==
  ASSUME BuilderType, TreeInv, NEW s \in DOMAIN scopes, NEW k \in DOMAIN instructions(s),
         instructions(s)[k].op = "declare"
  PROVE  max_frame_size \in Nat /\ size_at(s, k) <= max_frame_size
<1> DEFINE n == Len(scopes)
           top == [c \in 1 .. n |-> size_at(c, Len(instructions(c)))]
           S == {0} \cup { current_size[d] : d \in Declarations }
<1>1. n \in Nat /\ DOMAIN scopes = 1 .. n
  BY DEF BuilderType
<1>2. ASSUME NEW c \in DOMAIN scopes
      PROVE  /\ Len(instructions(c)) \in Nat /\ Len(instructions(c)) \in 0 .. Len(instructions(c))
             /\ DOMAIN instructions(c) = 1 .. Len(instructions(c))
             /\ \A m \in DOMAIN instructions(c) : m \in 0 .. Len(instructions(c))
  <2>1. Len(instructions(c)) \in Nat /\ DOMAIN instructions(c) = 1 .. Len(instructions(c))
    BY ScopeTyped DEF BuilderType
  <2> QED
    BY <2>1
<1>3. top \in [1 .. n -> Nat]
  <2>1. \A c \in 1 .. n : size_at(c, Len(instructions(c))) \in Nat
    BY <1>1, <1>2, SizesGrow
  <2> QED
    BY <2>1
<1>4. PICK b \in Nat : \A c \in 1 .. n : top[c] <= b
  <2> HIDE DEF n, top
  <2> QED
    BY <1>1, <1>3, Bounded
<1>5. ASSUME NEW c \in DOMAIN scopes, NEW m \in DOMAIN instructions(c)
      PROVE  current_size[<<c, m>>] \in 0 .. b
  <2>1. size_at(c, m) \in Nat /\ size_at(c, Len(instructions(c))) \in Nat
    BY <1>2, SizesGrow
  <2>2. size_at(c, m) <= size_at(c, Len(instructions(c)))
    BY <1>2, SizesOrdered
  <2>3. top[c] <= b /\ top[c] = size_at(c, Len(instructions(c)))
    BY <1>1, <1>4
  <2>4. PICK x \in Nat, y \in Nat : x = size_at(c, m) /\ y = size_at(c, Len(instructions(c)))
    BY <2>1
  <2>5. x \in 0 .. b
    BY <2>2, <2>3, <2>4
  <2> QED
    BY <2>4, <2>5 DEF size_at
<1>6. ASSUME NEW d \in Declarations PROVE current_size[d] \in 0 .. b
  <2>1. PICK c \in DOMAIN scopes : d \in Declared(c, Len(instructions(c)))
    BY DeclarationsAre
  <2>2. PICK m \in DOMAIN instructions(c) : d = <<c, m>>
    BY <2>1 DEF Declared
  <2> QED
    BY <1>5, <2>2
<1>7. S \subseteq 0 .. b /\ S # {}
  BY <1>6
<1>8. current_size[<<s, k>>] \in S
  <2>1. k <= Len(instructions(s))
    BY <1>2
  <2>2. <<s, k>> \in Declared(s, Len(instructions(s)))
    BY <2>1 DEF Declared
  <2>3. <<s, k>> \in Declarations
    BY <2>2, DeclarationsAre
  <2> QED
    BY <2>3
<1>9. max_frame_size = simple_16_bit_align(Max(S))
  BY DEF max_frame_size
<1> HIDE DEF S
<1>10. PICK a \in Nat : a = Max(S) /\ current_size[<<s, k>>] <= a
  <2>1. Max(S) \in S /\ \A x \in S : x <= Max(S)
    BY <1>7, GreatestIs
  <2>2. Max(S) \in 0 .. b
    BY <1>7, <2>1
  <2>3. Max(S) \in Nat /\ current_size[<<s, k>>] <= Max(S)
    BY <1>8, <2>1, <2>2
  <2> QED
    BY <2>3
<1>11. simple_16_bit_align(a) \in Nat /\ simple_16_bit_align(a) >= a
  BY DEF simple_16_bit_align
<1>12. current_size[<<s, k>>] \in Nat
  BY <1>5
<1> QED
  BY <1>9, <1>10, <1>11, <1>12 DEF size_at

\* The variables the instructions passed by the stack have declared.
DeclaredOn(st) == UNION { Declared(st[k].scope, st[k].iterating) : k \in DOMAIN st }

Together(a) ==
  \A v \in a : /\ Bytes(v) \subseteq stack_reserve + 1 .. max_frame_size
               /\ \A w \in a \ {v} : Bytes(v) \cap Bytes(w) = {}

LEMMA IntervalsApart ==
  ASSUME NEW a \in Nat, NEW b \in Nat, NEW c \in Nat, NEW d \in Nat, b <= c,
         NEW X, NEW Y, X \subseteq a + 1 .. b, Y \subseteq c + 1 .. d
  PROVE  X \cap Y = {} /\ Y \cap X = {}
<1>1. (a + 1 .. b) \cap (c + 1 .. d) = {}
  OBVIOUS
<1> QED
  BY <1>1

\* The variables of the scopes on a stack share no byte.
LEMMA OpenApart ==
  ASSUME BuilderType, TreeInv, NEW st, StackInv(st)
  PROVE  Together(DeclaredOn(st))
<1> DEFINE Sits(v, k, m) == /\ k \in DOMAIN st /\ st[k].scope \in DOMAIN scopes
                            /\ m \in DOMAIN instructions(st[k].scope)
                            /\ instructions(st[k].scope)[m].op = "declare"
                            /\ v = <<st[k].scope, m>> /\ m <= st[k].iterating
<1>0. /\ Len(st) \in Nat /\ DOMAIN st = 1 .. Len(st)
      /\ \A m \in DOMAIN st : /\ st[m].scope \in DOMAIN scopes /\ st[m].iterating \in Nat
                              /\ st[m].iterating <= Len(instructions(st[m].scope))
  <2>1. st \in Seq(Frame)
    BY DEF StackInv
  <2>2. /\ Len(st) \in Nat /\ DOMAIN st = 1 .. Len(st) /\ \A m \in DOMAIN st : st[m] \in Frame
    <3> HIDE DEF Frame
    <3> QED
      BY <2>1
  <2> QED
    BY <2>2 DEF StackInv, Frame
<1>1. ASSUME NEW v \in DeclaredOn(st) PROVE \E k, m : Sits(v, k, m)
  <2>1. PICK k \in DOMAIN st : v \in Declared(st[k].scope, st[k].iterating)
    BY DEF DeclaredOn
  <2> QED
    BY <1>0, <2>1 DEF Declared
<1>2. ASSUME NEW v, NEW k, NEW m, Sits(v, k, m)
      PROVE  LET s == st[k].scope
             IN  /\ size_at(s, m - 1) \in Nat /\ size_at(s, m) \in Nat
                 /\ size_at(s, m - 1) >= stack_reserve
                 /\ Bytes(v) \subseteq size_at(s, m - 1) + 1 .. size_at(s, m)
                 /\ max_frame_size \in Nat /\ size_at(s, m) <= max_frame_size
                 /\ size_at(s, 0) <= size_at(s, m - 1) /\ size_at(s, 0) \in Nat
                 /\ size_at(s, m) <= size_at(s, st[k].iterating) /\ size_at(s, st[k].iterating) \in Nat
                 /\ m \in Nat
  <2>1. PICK s \in DOMAIN scopes : s = st[k].scope
    BY <1>2
  <2>2. Len(instructions(s)) \in Nat /\ m \in 1 .. Len(instructions(s))
    BY <1>2, <2>1, BytesLie
  <2>3. /\ m \in 0 .. Len(instructions(s)) /\ m - 1 \in 0 .. Len(instructions(s))
        /\ 0 \in 0 .. Len(instructions(s)) /\ 0 <= m - 1
        /\ st[k].iterating \in 0 .. Len(instructions(s)) /\ m <= st[k].iterating
    <3>1. PICK n \in Nat : n = Len(instructions(s))
      BY <2>2
    <3>2. PICK i1 \in Nat : i1 = st[k].iterating /\ i1 <= n /\ m <= i1
      BY <1>0, <1>2, <2>1, <3>1
    <3>3. m \in 1 .. n
      BY <2>2, <3>1
    <3> QED
      BY <3>1, <3>2, <3>3
  <2>4. size_at(s, 0) <= size_at(s, m - 1) /\ size_at(s, m) <= size_at(s, st[k].iterating)
    BY <2>3, SizesOrdered
  <2>5. size_at(s, 0) \in Nat /\ size_at(s, st[k].iterating) \in Nat
    BY <2>3, SizesGrow
  <2>6. /\ size_at(s, m - 1) \in Nat /\ size_at(s, m) \in Nat
        /\ size_at(s, m - 1) >= stack_reserve
        /\ Bytes(v) \subseteq size_at(s, m - 1) + 1 .. size_at(s, m)
    BY <1>2, <2>1, BytesLie
  <2>7. max_frame_size \in Nat /\ size_at(s, m) <= max_frame_size
    BY <1>2, <2>1, FrameHoldsAll
  <2> QED
    BY <2>1, <2>2, <2>4, <2>5, <2>6, <2>7
<1>3. ASSUME NEW v, NEW k, NEW m, Sits(v, k, m), NEW w, NEW j, NEW l, Sits(w, j, l), j < k
      PROVE  Bytes(v) \cap Bytes(w) = {} /\ Bytes(w) \cap Bytes(v) = {}
  <2>1. size_at(st[k].scope, st[k].iterating) <= size_at(st[j].scope, 0)
    BY <1>3, StackSizes
  <2>2. PICK a \in Nat, b \in Nat, c \in Nat, d \in Nat :
          /\ a = size_at(st[k].scope, m - 1) /\ b = size_at(st[k].scope, m)
          /\ c = size_at(st[j].scope, l - 1) /\ d = size_at(st[j].scope, l)
    BY <1>2, <1>3
  <2>3. b <= c
    <3>1. PICK x \in Nat, y \in Nat :
            x = size_at(st[k].scope, st[k].iterating) /\ y = size_at(st[j].scope, 0)
      BY <1>2, <1>3
    <3>2. b <= x /\ y <= c /\ x <= y
      BY <1>2, <1>3, <2>1, <2>2, <3>1
    <3> QED
      BY <3>2
  <2>4. Bytes(v) \subseteq a + 1 .. b /\ Bytes(w) \subseteq c + 1 .. d
    BY <1>2, <1>3, <2>2
  <2> QED
    BY <2>3, <2>4, IntervalsApart
<1>4. ASSUME NEW v, NEW k, NEW m, Sits(v, k, m), NEW w, NEW l, Sits(w, k, l), m < l
      PROVE  Bytes(v) \cap Bytes(w) = {} /\ Bytes(w) \cap Bytes(v) = {}
  <2>1. PICK s \in DOMAIN scopes : s = st[k].scope
    BY <1>4
  <2>2. PICK a \in Nat, b \in Nat, c \in Nat, d \in Nat :
          a = size_at(s, m - 1) /\ b = size_at(s, m) /\ c = size_at(s, l - 1) /\ d = size_at(s, l)
    BY <1>2, <1>4, <2>1
  <2>3. b <= c
    <3>1. Len(instructions(s)) \in Nat /\ m \in 1 .. Len(instructions(s)) /\ l \in 1 .. Len(instructions(s))
      BY <1>4, <2>1, BytesLie
    <3>2. m \in 0 .. Len(instructions(s)) /\ l - 1 \in 0 .. Len(instructions(s)) /\ m <= l - 1
      BY <1>4, <3>1
    <3> QED
      BY <2>2, <3>2, SizesOrdered
  <2>4. Bytes(v) \subseteq a + 1 .. b /\ Bytes(w) \subseteq c + 1 .. d
    BY <1>2, <1>4, <2>1, <2>2
  <2> QED
    BY <2>3, <2>4, IntervalsApart
<1>5. ASSUME NEW v \in DeclaredOn(st) PROVE Bytes(v) \subseteq stack_reserve + 1 .. max_frame_size
  <2>1. PICK k, m : Sits(v, k, m)
    BY <1>1
  <2>2. PICK a \in Nat, b \in Nat, f \in Nat :
          a = size_at(st[k].scope, m - 1) /\ b = size_at(st[k].scope, m) /\ f = max_frame_size
    BY <1>2, <2>1
  <2>3. a >= stack_reserve /\ b <= f /\ Bytes(v) \subseteq a + 1 .. b
    BY <1>2, <2>1, <2>2
  <2>4. a + 1 .. b \subseteq stack_reserve + 1 .. f
    BY <2>3 DEF stack_reserve
  <2> QED
    BY <2>2, <2>3, <2>4
<1>6. ASSUME NEW v \in DeclaredOn(st), NEW w \in DeclaredOn(st) \ {v} PROVE Bytes(v) \cap Bytes(w) = {}
  <2>1. PICK k, m : Sits(v, k, m)
    BY <1>1
  <2>2. PICK j, l : Sits(w, j, l)
    BY <1>1
  <2>3. k \in Nat /\ j \in Nat /\ m \in Nat /\ l \in Nat
    <3>1. m \in Nat
      BY <1>2, <2>1
    <3>2. l \in Nat
      BY <1>2, <2>2
    <3> QED
      BY <1>0, <2>1, <2>2, <3>1, <3>2
  <2>4. CASE j < k
    BY <1>3, <2>1, <2>2, <2>4
  <2>5. CASE k < j
    BY <1>3, <2>1, <2>2, <2>5
  <2>6. CASE k = j
    <3>1. m # l
      BY <2>1, <2>2, <2>6
    <3>2. CASE m < l
      BY <1>4, <2>1, <2>2, <2>6, <3>2
    <3>3. CASE l < m
      BY <1>4, <2>1, <2>2, <2>6, <3>3
    <3> QED
      BY <2>3, <3>1, <3>2, <3>3
  <2> QED
    BY <2>3, <2>4, <2>5, <2>6
<1> QED
  BY <1>5, <1>6 DEF Together

-----------------------------------------------------------------------------
(* The variables that may be alive, instruction by instruction.            *)

\* A variable is constructed after its declaration, and once.
ConstructedOnce(s) ==
  \A j \in DOMAIN instructions(s) :
    instructions(s)[j].op = "construct" =>
      LET v == instructions(s)[j].arg
      IN  /\ v \in DOMAIN instructions(s) /\ v < j /\ instructions(s)[v].op = "declare"
          /\ \A l \in DOMAIN instructions(s) : instructions(s)[l] = instructions(s)[j] => l = j
OnceInv == \A s \in DOMAIN scopes : ConstructedOnce(s)

LEMMA OnceBuild ==
  ASSUME BuilderType, TreeInv, OnceInv, Build
  PROVE  OnceInv'
<1>1. PICK s \in DOMAIN scopes, ins \in Instruction :
        Fits(s, ins) /\ (PushesIn(s, ins) \/ OpensIn(s, ins))
  BY BuildSteps
<1> DEFINE last == Len(instructions(s)) + 1
<1>2. /\ ins.op \notin Opening => DOMAIN scopes' = DOMAIN scopes
      /\ ins.op \in Opening => DOMAIN scopes' = DOMAIN scopes \cup {Len(scopes) + 1}
                               /\ scopes'[Len(scopes) + 1].instructions = <<>>
      /\ \A c \in DOMAIN scopes : c # s => scopes'[c].instructions = instructions(c)
      /\ scopes'[s].instructions = Append(instructions(s), ins)
  BY <1>1, BuildKeeps
<1>3. instructions(s) \in Seq(Instruction) /\ DOMAIN instructions(s) = 1 .. Len(instructions(s))
      /\ Len(instructions(s)) \in Nat
  BY ScopeTyped DEF BuilderType
<1>4. PICK list : list = instructions(s)
  OBVIOUS
<1>5. PICK longer : longer = scopes'[s].instructions
  OBVIOUS
<1>6. /\ DOMAIN longer = DOMAIN list \cup {last} /\ last \notin DOMAIN list
      /\ \A k \in DOMAIN list : longer[k] = list[k] /\ k < last
      /\ longer[last] = ins
  BY <1>2, <1>3, <1>4, <1>5, Appended
<1> HIDE DEF last
<1>7. ASSUME NEW j \in DOMAIN longer, longer[j].op = "construct"
      PROVE  LET v == longer[j].arg
             IN  /\ v \in DOMAIN longer /\ v < j /\ longer[v].op = "declare"
                 /\ \A l \in DOMAIN longer : longer[l] = longer[j] => l = j
  <2>1. CASE j \in DOMAIN list
    <3>1. /\ list[j].arg \in DOMAIN list /\ list[j].arg < j /\ list[list[j].arg].op = "declare"
          /\ \A l \in DOMAIN list : list[l] = list[j] => l = j
          /\ longer[j] = list[j] /\ list[j].op = "construct"
      BY <1>4, <1>6, <1>7, <2>1 DEF OnceInv, ConstructedOnce
    <3>2. longer[last] # longer[j]
      <4> SUFFICES ASSUME ins = list[j] PROVE FALSE
        BY <1>6, <3>1
      <4>1. ins \in ToSet(list) /\ ins.op = "construct"
        BY <2>1, <3>1 DEF ToSet
      <4> QED
        BY <1>1, <1>4, <4>1 DEF Fits
    <3> QED
      BY <1>6, <3>1, <3>2
  <2>2. CASE j \notin DOMAIN list
    <3>1. j = last /\ longer[j] = ins
      BY <1>6, <2>2
    <3>2. ins.arg \in DOMAIN list /\ list[ins.arg].op = "declare" /\ ins \notin ToSet(list)
      BY <1>1, <1>4, <1>7, <3>1 DEF Fits
    <3>3. \A l \in DOMAIN list : list[l] # ins
      BY <3>2 DEF ToSet
    <3> QED
      BY <1>6, <3>1, <3>2, <3>3
  <2> QED
    BY <2>1, <2>2
<1>8. ASSUME NEW c \in DOMAIN scopes' PROVE ConstructedOnce(c)'
  <2>1. CASE c = s
    <3>1. instructions(c)' = longer
      BY <1>5, <2>1 DEF instructions
    <3> QED
      BY <1>7, <3>1 DEF ConstructedOnce
  <2>2. CASE c \in DOMAIN scopes /\ c # s
    <3>1. instructions(c)' = instructions(c)
      BY <1>2, <2>2 DEF instructions
    <3>2. ConstructedOnce(c)
      BY <2>2 DEF OnceInv
    <3> QED
      BY <3>1, <3>2 DEF ConstructedOnce
  <2>3. CASE c \notin DOMAIN scopes
    <3>1. instructions(c)' = <<>>
      BY <1>2, <2>3 DEF instructions
    <3>2. DOMAIN instructions(c)' = {}
      BY <3>1
    <3> QED
      BY <3>2 DEF ConstructedOnce
  <2> QED
    BY <2>1, <2>2, <2>3
<1> QED
  BY <1>8 DEF OnceInv

\* The variables scope s has constructed when its first n instructions are passed.
Built(s, n) ==
  { <<s, instructions(s)[j].arg>> :
      j \in { k \in DOMAIN instructions(s) : instructions(s)[k].op = "construct" /\ k <= n } }
Live(st) == UNION { Built(st[k].scope, st[k].iterating) : k \in DOMAIN st }

\* The variables that are alive where a scope is entered and left: so they are at a label.
Around(s) ==
  UNION { Built(scopes[a].parent_scope, scopes[a].opener) : a \in ancestors[s] \ {main} }
AtLabel(l) == IF l = exit_label THEN {} ELSE Around(l[2])

LEMMA BuiltAre ==
  ASSUME BuilderType, OnceInv, NEW s \in DOMAIN scopes, NEW n \in Nat
  PROVE  /\ Built(s, 0) = {}
         /\ Built(s, n) \subseteq Declared(s, n)
         /\ \A v \in Built(s, n) : v[1] = s /\ v \in Nat \X Nat
         /\ n + 1 \in DOMAIN instructions(s) =>
              LET ins == instructions(s)[n + 1]
              IN  /\ ins.op # "construct" => Built(s, n + 1) = Built(s, n)
                  /\ ins.op = "construct" => /\ Built(s, n + 1) = Built(s, n) \cup {<<s, ins.arg>>}
                                             /\ <<s, ins.arg>> \notin Built(s, n)
                                             /\ <<s, ins.arg>> \in Nat \X Nat
<1>1. PICK list : list = instructions(s)
  OBVIOUS
<1>2. /\ list \in Seq(Instruction) /\ DOMAIN list = 1 .. Len(list) /\ Len(list) \in Nat /\ s \in Nat
      /\ \A k \in DOMAIN list : k \in Nat \ {0} /\ list[k] \in Instruction /\ list[k].arg \in Nat
  BY <1>1, ScopeTyped DEF BuilderType
<1>3. \A j \in DOMAIN list :
        list[j].op = "construct" =>
          /\ list[j].arg \in DOMAIN list /\ list[j].arg < j /\ list[list[j].arg].op = "declare"
          /\ \A l \in DOMAIN list : list[l] = list[j] => l = j
  BY <1>1 DEF OnceInv, ConstructedOnce
<1>4. \A m, v : v \in Built(s, m) <=>
        \E j \in DOMAIN list : list[j].op = "construct" /\ j <= m /\ v = <<s, list[j].arg>>
  BY <1>1 DEF Built
<1>5. Built(s, 0) = {}
  BY <1>2, <1>4
<1>6. ASSUME NEW v \in Built(s, n) PROVE v \in Declared(s, n) /\ v[1] = s /\ v \in Nat \X Nat
  <2>1. PICK j \in DOMAIN list : list[j].op = "construct" /\ j <= n /\ v = <<s, list[j].arg>>
    BY <1>4
  <2>2. list[j].arg \in DOMAIN list /\ list[list[j].arg].op = "declare" /\ list[j].arg < j
        /\ list[j].arg \in Nat /\ j \in Nat
    BY <1>2, <1>3, <2>1
  <2>3. list[j].arg <= n
    BY <2>1, <2>2
  <2>4. v \in Declared(s, n)
    BY <1>1, <2>1, <2>2, <2>3 DEF Declared
  <2> QED
    BY <1>2, <2>1, <2>2, <2>4
<1>7. ASSUME n + 1 \in DOMAIN list, list[n + 1].op # "construct" PROVE Built(s, n + 1) = Built(s, n)
  <2>1. ASSUME NEW j \in DOMAIN list, list[j].op = "construct" PROVE j <= n + 1 <=> j <= n
    BY <1>2, <1>7, <2>1
  <2>2. ASSUME NEW v PROVE v \in Built(s, n + 1) <=> v \in Built(s, n)
    BY <1>4, <2>1
  <2> QED
    BY <2>2
<1>8. ASSUME n + 1 \in DOMAIN list, list[n + 1].op = "construct"
      PROVE  /\ Built(s, n + 1) = Built(s, n) \cup {<<s, list[n + 1].arg>>}
             /\ <<s, list[n + 1].arg>> \notin Built(s, n)
             /\ <<s, list[n + 1].arg>> \in Nat \X Nat
  <2>1. ASSUME NEW j \in DOMAIN list PROVE j <= n + 1 <=> j <= n \/ j = n + 1
    BY <1>2
  <2>2. Built(s, n + 1) = Built(s, n) \cup {<<s, list[n + 1].arg>>}
    BY <1>4, <1>8, <2>1
  <2>3. ASSUME <<s, list[n + 1].arg>> \in Built(s, n) PROVE FALSE
    <3>1. PICK j \in DOMAIN list : list[j].op = "construct" /\ j <= n
                                   /\ <<s, list[n + 1].arg>> = <<s, list[j].arg>>
      BY <1>4, <2>3
    <3>2. list[j].arg = list[n + 1].arg /\ list[j].op = list[n + 1].op
      BY <1>8, <3>1
    <3>3. list[j] = list[n + 1]
      <4>1. list[j] \in Instruction /\ list[n + 1] \in Instruction
        BY <1>2, <1>8
      <4> QED
        BY <3>2, <4>1 DEF Instruction
    <3>4. j = n + 1
      BY <1>3, <1>8, <3>3
    <3> QED
      BY <3>1, <3>4
  <2> QED
    BY <1>2, <1>8, <2>2, <2>3
<1> QED
  BY <1>1, <1>5, <1>6, <1>7, <1>8

LEMMA AroundIs ==
  ASSUME BuilderType, TreeInv
  PROVE  /\ Around(main) = {}
         /\ \A s \in DOMAIN scopes \ {main} :
              Around(s) = Built(scopes[s].parent_scope, scopes[s].opener) \cup Around(scopes[s].parent_scope)
<1>1. ancestors[main] = {main} /\ main \in DOMAIN scopes
  <2>1. main \in DOMAIN scopes /\ scopes[main].parent_scope = 0
    BY DEF TreeInv
  <2>2. ancestors[main] = {main} \cup ancestors[0] /\ ancestors[0] = {}
    BY <2>1, AncestorsAre
  <2> QED
    BY <2>1, <2>2
<1>2. Around(main) = {}
  BY <1>1 DEF Around
<1>3. ASSUME NEW s \in DOMAIN scopes \ {main}
      PROVE  Around(s) = Built(scopes[s].parent_scope, scopes[s].opener) \cup Around(scopes[s].parent_scope)
  <2>1. PICK A : A = ancestors[scopes[s].parent_scope]
    OBVIOUS
  <2>2. ancestors[s] = {s} \cup A
    BY <2>1, AncestorsAre
  <2>3. ancestors[s] \ {main} = {s} \cup (A \ {main})
    BY <2>2
  <2> QED
    BY <2>1, <2>3 DEF Around
<1> QED
  BY <1>2, <1>3

\* What is alive around the scope at the top of a stack is what the rest has constructed.
LEMMA AroundTop ==
  ASSUME BuilderType, TreeInv, NEW st, StackInv(st), NEW k \in DOMAIN st
  PROVE  Around(st[k].scope) = UNION { Built(st[j].scope, st[j].iterating) : j \in { m \in DOMAIN st : k < m } }
<1> DEFINE Above(m) == UNION { Built(st[j].scope, st[j].iterating) : j \in { l \in DOMAIN st : m < l } }
           D == { d \in Nat : Len(st) - d \in DOMAIN st =>
                                Around(st[Len(st) - d].scope) = Above(Len(st) - d) }
<1>1. /\ Len(st) \in Nat /\ DOMAIN st = 1 .. Len(st) /\ \A m \in DOMAIN st : st[m] \in Frame
  <2>1. st \in Seq(Frame)
    BY DEF StackInv
  <2> HIDE DEF Frame
  <2> QED
    BY <2>1
<1>2. 0 \in D
  <2>1. Len(st) - 0 = Len(st)
    BY <1>1
  <2> SUFFICES ASSUME Len(st) \in DOMAIN st PROVE Around(st[Len(st)].scope) = Above(Len(st))
    BY <2>1
  <2>2. st # <<>>
    BY <1>1
  <2>3. st[Len(st)].scope = main
    BY <2>2 DEF StackInv
  <2>4. { l \in DOMAIN st : Len(st) < l } = {}
    BY <1>1
  <2>5. Above(Len(st)) = {}
    BY <2>4
  <2> QED
    BY <2>3, <2>5, AroundIs
<1>3. ASSUME NEW d \in Nat, d \in D PROVE d + 1 \in D
  <2>1. PICK m : m = Len(st) - (d + 1)
    OBVIOUS
  <2> SUFFICES ASSUME m \in DOMAIN st PROVE Around(st[m].scope) = Above(m)
    BY <2>1
  <2>2. m + 1 = Len(st) - d /\ m + 1 \in DOMAIN st /\ m \in Nat
    BY <1>1, <2>1
  <2>3. Around(st[m + 1].scope) = Above(m + 1)
    BY <1>3, <2>2
  <2>4. OpenedAt(st[m].scope, st[m + 1]) /\ st[m].scope \in DOMAIN scopes
    BY <1>1, <2>2 DEF StackInv, Frame
  <2>5. Around(st[m].scope) = Built(st[m + 1].scope, st[m + 1].iterating) \cup Above(m + 1)
    <3>1. /\ st[m].scope \in DOMAIN scopes \ {main}
          /\ scopes[st[m].scope].parent_scope = st[m + 1].scope
          /\ scopes[st[m].scope].opener = st[m + 1].iterating
      BY <2>4 DEF OpenedAt
    <3> HIDE DEF Above
    <3> QED
      BY <2>3, <3>1, AroundIs
  <2>6. { l \in DOMAIN st : m < l } = {m + 1} \cup { l \in DOMAIN st : m + 1 < l }
    BY <1>1, <2>2
  <2>7. Above(m) = Built(st[m + 1].scope, st[m + 1].iterating) \cup Above(m + 1)
    BY <2>6
  <2> QED
    BY <2>5, <2>7
<1>4. Nat \subseteq D
  <2> HIDE DEF D
  <2> QED
    BY <1>2, <1>3, Induction
<1>5. Len(st) - k \in Nat /\ Len(st) - (Len(st) - k) = k
  BY <1>1
<1>6. Len(st) - k \in D
  BY <1>4, <1>5
<1>7. Around(st[k].scope) = Above(k)
  BY <1>5, <1>6
<1> QED
  BY <1>7

LEMMA FrameIs ==
  ASSUME BuilderType, NEW st, StackInv(st)
  PROVE  /\ Len(st) \in Nat /\ DOMAIN st = 1 .. Len(st)
         /\ \A m \in DOMAIN st : /\ st[m].scope \in DOMAIN scopes /\ st[m].iterating \in Nat
                                 /\ m \in Nat
         /\ \A j, k \in DOMAIN st : j # k => st[j].scope # st[k].scope
<1>1. st \in Seq(Frame)
  BY DEF StackInv
<1>2. /\ Len(st) \in Nat /\ DOMAIN st = 1 .. Len(st) /\ \A m \in DOMAIN st : st[m] \in Frame
  <2> HIDE DEF Frame
  <2> QED
    BY <1>1
<1>3. \A m \in DOMAIN st : st[m].scope \in DOMAIN scopes /\ st[m].iterating \in Nat /\ m \in Nat
  BY <1>2 DEF Frame
<1>4. ASSUME NEW j \in DOMAIN st, NEW k \in DOMAIN st, j # k PROVE st[j].scope # st[k].scope
  <2>1. j < k \/ k < j
    BY <1>3, <1>4
  <2>2. st[j].scope \in Nat /\ st[k].scope \in Nat
    BY <1>3, ScopeTyped DEF BuilderType
  <2>3. j < k => st[k].scope < st[j].scope
    BY DEF StackInv
  <2>4. k < j => st[j].scope < st[k].scope
    BY DEF StackInv
  <2> QED
    BY <2>1, <2>2, <2>3, <2>4
<1> QED
  BY <1>2, <1>3, <1>4

\* Sets of variables that may be alive together.
Safe == { a \in SUBSET (Nat \X Nat) : Together(a) }

LEMMA SafeSubset ==
  ASSUME NEW a \in Safe, NEW b, b \subseteq a
  PROVE  b \in Safe
<1>1. Together(b)
  BY DEF Safe, Together
<1> QED
  BY <1>1 DEF Safe

LEMMA LiveSafe ==
  ASSUME BuilderType, TreeInv, OnceInv, NEW st, StackInv(st)
  PROVE  Live(st) \in Safe /\ Live(st) \subseteq DeclaredOn(st) /\ {} \in Safe
<1>1. ASSUME NEW v \in Live(st) PROVE v \in DeclaredOn(st) /\ v \in Nat \X Nat
  <2>1. PICK k \in DOMAIN st : v \in Built(st[k].scope, st[k].iterating)
    BY DEF Live
  <2>2. st[k].scope \in DOMAIN scopes /\ st[k].iterating \in Nat
    BY FrameIs
  <2>3. v \in Declared(st[k].scope, st[k].iterating) /\ v \in Nat \X Nat
    BY <2>1, <2>2, BuiltAre
  <2> QED
    BY <2>3 DEF DeclaredOn
<1>2. Together(DeclaredOn(st))
  BY OpenApart
<1>3. Together(Live(st))
  BY <1>1, <1>2 DEF Together
<1>4. {} \in Safe
  BY DEF Safe, Together
<1> QED
  BY <1>1, <1>3, <1>4 DEF Safe

LEMMA LiveEnded ==
  ASSUME BuilderType, TreeInv, OnceInv, NEW st, StackInv(st), NEW st2, Ended(st, st2)
  PROVE  /\ Live(st) = Built(st[1].scope, st[1].iterating) \cup Live(st2)
         /\ Live(st2) = Around(st[1].scope)
         /\ Live(st2) \subseteq Live(st)
<1>1. /\ Len(st) \in Nat \ {0} /\ DOMAIN st = 1 .. Len(st) /\ 1 \in DOMAIN st
      /\ DOMAIN st2 = 1 .. Len(st) - 1 /\ \A k \in DOMAIN st2 : st2[k] = st[k + 1]
  <2>1. st # <<>>
    BY DEF Ended
  <2> QED
    BY <2>1, TopIs, EndsStack
<1>2. \A k \in DOMAIN st2 : k + 1 \in DOMAIN st /\ 1 < k + 1
  BY <1>1
<1>3. \A k \in DOMAIN st : k = 1 \/ (1 < k /\ k - 1 \in DOMAIN st2 /\ (k - 1) + 1 = k)
  BY <1>1
<1>4. ASSUME NEW v PROVE v \in Live(st2) <=>
        \E k \in DOMAIN st : 1 < k /\ v \in Built(st[k].scope, st[k].iterating)
  <2>1. ASSUME v \in Live(st2)
        PROVE  \E k \in DOMAIN st : 1 < k /\ v \in Built(st[k].scope, st[k].iterating)
    <3>1. PICK k \in DOMAIN st2 : v \in Built(st2[k].scope, st2[k].iterating)
      BY <2>1 DEF Live
    <3>2. st2[k] = st[k + 1] /\ k + 1 \in DOMAIN st /\ 1 < k + 1
      BY <1>1, <1>2
    <3> QED
      BY <3>1, <3>2
  <2>2. ASSUME NEW k \in DOMAIN st, 1 < k, v \in Built(st[k].scope, st[k].iterating)
        PROVE  v \in Live(st2)
    <3>1. PICK j \in DOMAIN st2 : j = k - 1 /\ j + 1 = k
      BY <1>1, <1>3, <2>2
    <3>2. st2[j] = st[k]
      BY <1>1, <3>1
    <3> QED
      BY <2>2, <3>2 DEF Live
  <2> QED
    BY <2>1, <2>2
<1>5. Live(st2) = Around(st[1].scope)
  <2>1. Around(st[1].scope) = UNION { Built(st[j].scope, st[j].iterating) : j \in { m \in DOMAIN st : 1 < m } }
    BY <1>1, AroundTop
  <2> QED
    BY <1>4, <2>1
<1>6. ASSUME NEW v PROVE v \in Live(st) <=> v \in Built(st[1].scope, st[1].iterating) \/ v \in Live(st2)
  BY <1>1, <1>3, <1>4 DEF Live
<1> QED
  BY <1>5, <1>6

LiveGrows(st, st2, s, ins) ==
  /\ ins.op # "construct" => Live(st2) = Live(st)
  /\ ins.op = "construct" => /\ Live(st2) = Live(st) \cup {<<s, ins.arg>>}
                             /\ <<s, ins.arg>> \notin Live(st)

LEMMA LiveMoves ==
  ASSUME BuilderType, TreeInv, OnceInv, NEW st, StackInv(st), NEW st2, Moves(st, st2),
         NEW s, s = st[1].scope, NEW n, n = st[1].iterating + 1, n \in DOMAIN instructions(s),
         NEW ins, ins = instructions(s)[n]
  PROVE  LiveGrows(st, st2, s, ins)
<1>1. /\ DOMAIN st2 = DOMAIN st /\ 1 \in DOMAIN st
      /\ st2[1].scope = s /\ st2[1].iterating = n
      /\ \A k \in DOMAIN st : k # 1 => st2[k] = st[k]
  BY MovesIs
<1>2. s \in DOMAIN scopes /\ st[1].iterating \in Nat /\ \A k \in DOMAIN st : k # 1 => st[k].scope # s
  BY <1>1, FrameIs
<1> DEFINE rest == UNION { Built(st[k].scope, st[k].iterating) : k \in DOMAIN st \ {1} }
<1>3. Live(st) = Built(s, st[1].iterating) \cup rest
  BY <1>1 DEF Live
<1>4. Live(st2) = Built(s, n) \cup rest
  <2>1. ASSUME NEW v PROVE v \in Live(st2) <=> v \in Built(s, n) \/ v \in rest
    BY <1>1 DEF Live
  <2> QED
    BY <2>1
<1>5. \A v \in rest : v[1] # s
  <2> SUFFICES ASSUME NEW k \in DOMAIN st \ {1}, NEW v \in Built(st[k].scope, st[k].iterating)
               PROVE  v[1] # s
    OBVIOUS
  <2>1. st[k].scope \in DOMAIN scopes /\ st[k].iterating \in Nat
    BY FrameIs
  <2>2. PICK x \in DOMAIN scopes, m \in Nat : x = st[k].scope /\ m = st[k].iterating
    BY <2>1
  <2>3. \A w \in Built(x, m) : w[1] = x
    BY DEF Built
  <2>4. x # s
    BY <1>2, <2>2
  <2> QED
    BY <2>2, <2>3, <2>4
<1>6. /\ ins.op # "construct" => Built(s, n) = Built(s, st[1].iterating)
      /\ ins.op = "construct" => /\ Built(s, n) = Built(s, st[1].iterating) \cup {<<s, ins.arg>>}
                                 /\ <<s, ins.arg>> \notin Built(s, st[1].iterating)
  <2>1. PICK m \in Nat : m = st[1].iterating /\ n = m + 1
    BY <1>2
  <2> QED
    BY <1>2, <2>1, BuiltAre
<1> HIDE DEF rest
<1>7. <<s, ins.arg>> \notin rest
  BY <1>5
<1> QED
  BY <1>3, <1>4, <1>6, <1>7 DEF LiveGrows

LEMMA LiveEnters ==
  ASSUME BuilderType, TreeInv, OnceInv, NEW st, StackInv(st), NEW c, NEW st2, Enters(st, c, st2),
         NEW s, s = st[1].scope, NEW n, n = st[1].iterating + 1, n \in DOMAIN instructions(s),
         instructions(s)[n].op \in Opening, instructions(s)[n].arg = c
  PROVE  /\ StackInv(st2) /\ Live(st2) = Live(st) /\ Around(c) = Live(st)
         /\ c \in DOMAIN scopes \ {main}
<1>1. /\ StackInv(st2) /\ c \in DOMAIN scopes \ {main} /\ scopes[c].parent_scope = s
      /\ scopes[c].opener = n
  BY EntersStack
<1>2. PICK st1 : st1 = <<Moved(Head(st))>> \o Tail(st)
  OBVIOUS
<1>3. Moves(st, st1) /\ st # <<>> /\ st \in Seq(Frame)
  BY <1>2 DEF Moves, Enters, StackInv
<1>4. Live(st1) = Live(st)
  <2>1. PICK ins : ins = instructions(s)[n]
    OBVIOUS
  <2>2. ins.op # "construct"
    BY <2>1 DEF Opening, Branch
  <2>3. LiveGrows(st, st1, s, ins)
    BY <1>3, <2>1, LiveMoves
  <2> QED
    BY <2>2, <2>3 DEF LiveGrows
<1>5. /\ DOMAIN st2 = 1 .. Len(st) + 1 /\ DOMAIN st = 1 .. Len(st) /\ Len(st) \in Nat \ {0}
      /\ st2[1].scope = c /\ st2[1].iterating = 0
      /\ st2[2].scope = st[1].scope /\ st2[2].iterating = st[1].iterating + 1
      /\ \A k \in 2 .. Len(st) : st2[k + 1] = st[k]
  BY <1>1, EntersIs
<1>6. /\ DOMAIN st1 = DOMAIN st /\ st1[1].scope = s /\ st1[1].iterating = n
      /\ \A k \in DOMAIN st : k # 1 => st1[k] = st[k]
  BY <1>3, MovesIs
<1>7. Built(c, 0) = {}
  BY <1>1, BuiltAre
<1>8. ASSUME NEW k \in DOMAIN st1
      PROVE  k + 1 \in DOMAIN st2 /\ st2[k + 1].scope = st1[k].scope
             /\ st2[k + 1].iterating = st1[k].iterating
  <2>1. CASE k = 1
    <3>1. k + 1 = 2 /\ 2 \in DOMAIN st2
      BY <1>5, <2>1
    <3> QED
      BY <1>5, <1>6, <2>1, <3>1
  <2>2. CASE k # 1
    <3>1. k \in 2 .. Len(st) /\ k + 1 \in DOMAIN st2 /\ k \in DOMAIN st
      BY <1>5, <1>6, <2>2
    <3>2. st2[k + 1] = st[k] /\ st1[k] = st[k]
      BY <1>5, <1>6, <2>2, <3>1
    <3> QED
      BY <3>1, <3>2
  <2> QED
    BY <2>1, <2>2
<1>9. ASSUME NEW k \in DOMAIN st2, k # 1 PROVE k - 1 \in DOMAIN st1 /\ (k - 1) + 1 = k
  <2>1. k \in 1 .. Len(st) + 1 /\ Len(st) \in Nat
    BY <1>5
  <2>2. k - 1 \in 1 .. Len(st) /\ (k - 1) + 1 = k
    BY <1>9, <2>1
  <2> QED
    BY <1>5, <1>6, <2>2
<1>10. ASSUME NEW v \in Live(st2) PROVE v \in Live(st1)
  <2>1. PICK k \in DOMAIN st2 : v \in Built(st2[k].scope, st2[k].iterating)
    BY DEF Live
  <2>2. k # 1
    BY <1>5, <1>7, <2>1
  <2>3. PICK j \in DOMAIN st1 : j + 1 = k
    BY <1>9, <2>2
  <2>4. v \in Built(st1[j].scope, st1[j].iterating)
    BY <1>8, <2>1, <2>3
  <2> QED
    BY <2>4 DEF Live
<1>11. ASSUME NEW v \in Live(st1) PROVE v \in Live(st2)
  <2>1. PICK j \in DOMAIN st1 : v \in Built(st1[j].scope, st1[j].iterating)
    BY DEF Live
  <2>2. j + 1 \in DOMAIN st2 /\ v \in Built(st2[j + 1].scope, st2[j + 1].iterating)
    BY <1>8, <2>1
  <2> QED
    BY <2>2 DEF Live
<1>12. Live(st2) = Live(st1)
  BY <1>10, <1>11
<1>13. Around(c) = Live(st)
  <2>1. PICK st3 : st3 = Tail(st2)
    OBVIOUS
  <2>2. st2 # <<>>
    BY <1>5
  <2>3. Ended(st2, st3)
    BY <2>1, <2>2 DEF Ended
  <2>4. Live(st2) = Built(c, 0) \cup Live(st3) /\ Live(st3) = Around(c)
    <3>1. /\ Live(st2) = Built(st2[1].scope, st2[1].iterating) \cup Live(st3)
          /\ Live(st3) = Around(st2[1].scope)
      BY <1>1, <2>3, LiveEnded
    <3> QED
      BY <1>5, <3>1
  <2> QED
    BY <1>4, <1>7, <1>12, <2>4
<1> QED
  BY <1>1, <1>4, <1>12, <1>13

-----------------------------------------------------------------------------
(* The code, instruction by instruction: a set of variables before each    *)
(* that holds those that may be alive there.                               *)

\* From an instruction before which a may be alive, b may be after it.
Flows(ins, a, b) ==
  CASE ins[1] = "construct" -> ins[2] \notin a /\ a \cup {ins[2]} \subseteq b
    [] ins[1] = "destruct" -> a \ {ins[2]} \subseteq b
    [] ins[1] = "eval" -> a \subseteq b
    [] ins[1] = "bind" -> AtLabel(ins[2]) \subseteq a /\ a \subseteq b
    [] ins[1] \in {"je", "jne"} -> a \subseteq AtLabel(ins[2]) /\ a \subseteq b
    [] ins[1] = "jmp" -> a \subseteq AtLabel(ins[2])

IsPath(alive, a, q, b) ==
  /\ alive \in [1 .. Len(q) + 1 -> Safe]
  /\ a \subseteq alive[1] /\ alive[Len(q) + 1] \subseteq b
  /\ \A k \in 1 .. Len(q) : Flows(q[k], alive[k], alive[k + 1])
Path(a, q, b) == \E alive : IsPath(alive, a, q, b)

LEMMA FlowsMore ==
  ASSUME NEW ins, NEW a, NEW b, NEW c, Flows(ins, a, b), b \subseteq c,
         ins[1] \in {"construct", "destruct", "eval", "bind", "je", "jne", "jmp"}
  PROVE  Flows(ins, a, c)
<1>1. CASE ins[1] = "construct"
  BY <1>1 DEF Flows
<1>2. CASE ins[1] = "destruct"
  BY <1>2 DEF Flows
<1>3. CASE ins[1] \in {"eval", "bind"}
  BY <1>3 DEF Flows
<1>4. CASE ins[1] \in {"je", "jne", "jmp"}
  BY <1>4 DEF Flows
<1> QED
  BY <1>1, <1>2, <1>3, <1>4

LEMMA PathNone ==
  ASSUME NEW a \in Safe
  PROVE  Path(a, <<>>, a)
<1> DEFINE alive == [k \in 1 .. 1 |-> a]
<1>1. Len(<<>>) = 0
  OBVIOUS
<1>2. alive \in [1 .. 1 -> Safe] /\ alive[1] = a /\ 0 + 1 = 1 /\ 1 .. 0 = {}
  OBVIOUS
<1>3. IsPath(alive, a, <<>>, a)
  BY <1>1, <1>2 DEF IsPath
<1> QED
  BY <1>3 DEF Path

LEMMA PathOne ==
  ASSUME NEW a \in Safe, NEW b \in Safe, NEW ins, Flows(ins, a, b)
  PROVE  Path(a, <<ins>>, b)
<1> DEFINE alive == [k \in 1 .. 2 |-> IF k = 1 THEN a ELSE b]
<1>1. Len(<<ins>>) = 1 /\ <<ins>>[1] = ins
  OBVIOUS
<1>2. alive \in [1 .. 2 -> Safe] /\ alive[1] = a /\ alive[2] = b /\ 1 + 1 = 2 /\ 1 .. 1 = {1}
  OBVIOUS
<1> HIDE DEF alive
<1>3. IsPath(alive, a, <<ins>>, b)
  BY <1>1, <1>2 DEF IsPath
<1> QED
  BY <1>3 DEF Path

Known(q) ==
  \A k \in 1 .. Len(q) : q[k][1] \in {"construct", "destruct", "eval", "bind", "je", "jne", "jmp"}

LEMMA PathJoined ==
  ASSUME NEW S, NEW q \in Seq(S), NEW r \in Seq(S), NEW a, NEW b, NEW c,
         Known(q), Path(a, q, b), Path(b, r, c)
  PROVE  Path(a, q \o r, c)
<1>1. PICK f : IsPath(f, a, q, b)
  BY DEF Path
<1>2. PICK g : IsPath(g, b, r, c)
  BY DEF Path
<1>3. PICK m \in Nat, n \in Nat : m = Len(q) /\ n = Len(r)
  OBVIOUS
<1>4. /\ f \in [1 .. m + 1 -> Safe] /\ a \subseteq f[1] /\ f[m + 1] \subseteq b
      /\ \A k \in 1 .. m : Flows(q[k], f[k], f[k + 1])
      /\ g \in [1 .. n + 1 -> Safe] /\ b \subseteq g[1] /\ g[n + 1] \subseteq c
      /\ \A k \in 1 .. n : Flows(r[k], g[k], g[k + 1])
  BY <1>1, <1>2, <1>3 DEF IsPath
<1> DEFINE h == [k \in 1 .. m + n + 1 |-> IF k <= m THEN f[k] ELSE g[k - m]]
<1>5. /\ Len(q \o r) = m + n
      /\ \A k \in 1 .. m : (q \o r)[k] = q[k]
      /\ \A k \in 1 .. n : (q \o r)[m + k] = r[k]
  BY <1>3, Concatenated
<1>6. h \in [1 .. m + n + 1 -> Safe]
  <2> SUFFICES ASSUME NEW k \in 1 .. m + n + 1 PROVE (IF k <= m THEN f[k] ELSE g[k - m]) \in Safe
    OBVIOUS
  <2>1. CASE k <= m
    <3>1. k \in 1 .. m + 1
      BY <1>3, <2>1
    <3> QED
      BY <1>4, <2>1, <3>1
  <2>2. CASE ~ (k <= m)
    <3>1. k - m \in 1 .. n + 1
      BY <1>3, <2>2
    <3> QED
      BY <1>4, <2>2, <3>1
  <2> QED
    BY <2>1, <2>2
<1>7. \A k \in 1 .. m : h[k] = f[k] /\ k \in 1 .. m + n + 1
  BY <1>3
<1>8. \A k \in 1 .. n + 1 : h[m + k] = g[k]
  <2> SUFFICES ASSUME NEW k \in 1 .. n + 1 PROVE h[m + k] = g[k]
    OBVIOUS
  <2>1. m + k \in 1 .. m + n + 1 /\ ~ (m + k <= m) /\ (m + k) - m = k
    BY <1>3
  <2> QED
    BY <2>1
<1> HIDE DEF h
<1>9. a \subseteq h[1]
  <2>1. CASE m = 0
    <3>1. 0 + 1 = 1 /\ 1 \in 1 .. n + 1
      BY <1>3
    <3>2. h[1] = g[1]
      BY <1>8, <2>1, <3>1
    <3>3. f[1] \subseteq b
      BY <1>4, <2>1, <3>1
    <3> QED
      BY <1>4, <3>2, <3>3
  <2>2. CASE m # 0
    <3>1. 1 \in 1 .. m
      BY <1>3, <2>2
    <3> QED
      BY <1>4, <1>7, <3>1
  <2> QED
    BY <2>1, <2>2
<1>10. h[m + n + 1] \subseteq c
  <2>1. n + 1 \in 1 .. n + 1 /\ m + (n + 1) = m + n + 1
    BY <1>3
  <2> QED
    BY <1>4, <1>8, <2>1
<1>11. ASSUME NEW k \in 1 .. m + n PROVE Flows((q \o r)[k], h[k], h[k + 1])
  <2>1. CASE k < m
    <3>1. k \in 1 .. m /\ k + 1 \in 1 .. m
      BY <1>3, <2>1
    <3> QED
      BY <1>4, <1>5, <1>7, <3>1
  <2>2. CASE k = m
    <3>1. k \in 1 .. m /\ 1 \in 1 .. n + 1
      BY <1>3, <2>2
    <3>2. h[k] = f[k] /\ h[k + 1] = g[1] /\ (q \o r)[k] = q[k]
      BY <1>5, <1>7, <1>8, <2>2, <3>1
    <3>3. Flows(q[k], f[k], f[k + 1]) /\ f[k + 1] \subseteq g[1]
      BY <1>4, <2>2, <3>1
    <3>4. q[k][1] \in {"construct", "destruct", "eval", "bind", "je", "jne", "jmp"}
      BY <1>3, <3>1 DEF Known
    <3>5. Flows(q[k], f[k], g[1])
      BY <3>3, <3>4, FlowsMore
    <3> QED
      BY <3>2, <3>5
  <2>3. CASE k > m
    <3>1. PICK j \in 1 .. n : k = m + j /\ k + 1 = m + (j + 1) /\ j + 1 \in 1 .. n + 1 /\ j \in 1 .. n + 1
      <4>1. k - m \in 1 .. n /\ k = m + (k - m) /\ k + 1 = m + ((k - m) + 1)
            /\ (k - m) + 1 \in 1 .. n + 1 /\ k - m \in 1 .. n + 1
        BY <1>3, <2>3
      <4> QED
        BY <4>1
    <3>2. h[k] = g[j] /\ h[k + 1] = g[j + 1] /\ (q \o r)[k] = r[j]
      BY <1>5, <1>8, <3>1
    <3> QED
      BY <1>4, <3>1, <3>2
  <2> QED
    BY <1>3, <2>1, <2>2, <2>3
<1>12. IsPath(h, a, q \o r, c)
  BY <1>5, <1>6, <1>9, <1>10, <1>11 DEF IsPath
<1> QED
  BY <1>12 DEF Path

\* Fewer before and more after do no harm.
LEMMA PathWider ==
  ASSUME NEW q, NEW a, NEW b, Path(a, q, b), NEW a2, NEW b2, a2 \subseteq a, b \subseteq b2
  PROVE  Path(a2, q, b2)
<1>1. PICK f : IsPath(f, a, q, b)
  BY DEF Path
<1>2. IsPath(f, a2, q, b2)
  BY <1>1 DEF IsPath
<1> QED
  BY <1>2 DEF Path

\* Destructors leave what they do not destroy.
LEMMA PathDestructs ==
  ASSUME NEW q \in Seq({"destruct"} \X (Nat \X Nat)), NEW a \in Safe
  PROVE  Path(a, q, { v \in a : <<"destruct", v>> \notin ToSet(q) }) /\ Known(q)
<1>1. PICK n \in Nat : n = Len(q)
  OBVIOUS
<1>2. /\ DOMAIN q = 1 .. n
      /\ \A k \in 1 .. n : q[k] \in {"destruct"} \X (Nat \X Nat)
  BY <1>1
<1>3. \A k \in 1 .. n : q[k][1] = "destruct" /\ q[k] = <<"destruct", q[k][2]>>
  BY <1>2
<1> DEFINE alive == [k \in 1 .. n + 1 |-> { v \in a : \A j \in 1 .. n : j < k => q[j] # <<"destruct", v>> }]
<1>4. \A k \in 1 .. n + 1 : alive[k] = { v \in a : \A j \in 1 .. n : j < k => q[j] # <<"destruct", v>> }
  OBVIOUS
<1>5. alive \in [1 .. n + 1 -> Safe]
  <2> SUFFICES ASSUME NEW k \in 1 .. n + 1
               PROVE  { v \in a : \A j \in 1 .. n : j < k => q[j] # <<"destruct", v>> } \in Safe
    OBVIOUS
  <2>1. PICK b : b = { v \in a : \A j \in 1 .. n : j < k => q[j] # <<"destruct", v>> }
    OBVIOUS
  <2>2. b \subseteq a
    BY <2>1
  <2>3. b \in Safe
    BY <2>2, SafeSubset
  <2> QED
    BY <2>1, <2>3
<1> HIDE DEF alive
<1>6. a \subseteq alive[1]
  <2>1. 1 \in 1 .. n + 1 /\ \A j \in 1 .. n : ~ (j < 1)
    BY <1>1
  <2> QED
    BY <1>4, <2>1
<1>7. alive[n + 1] \subseteq { v \in a : <<"destruct", v>> \notin ToSet(q) }
  <2>1. n + 1 \in 1 .. n + 1 /\ \A j \in 1 .. n : j < n + 1
    BY <1>1
  <2>2. \A e : e \in ToSet(q) => \E j \in 1 .. n : q[j] = e
    BY <1>2 DEF ToSet
  <2>3. ASSUME NEW v \in alive[n + 1] PROVE v \in a /\ <<"destruct", v>> \notin ToSet(q)
    <3>1. v \in a /\ \A j \in 1 .. n : j < n + 1 => q[j] # <<"destruct", v>>
      BY <1>4, <2>1
    <3> QED
      BY <2>1, <2>2, <3>1
  <2> QED
    BY <2>3
<1>8. ASSUME NEW k \in 1 .. n PROVE Flows(q[k], alive[k], alive[k + 1])
  <2>1. k \in 1 .. n + 1 /\ k + 1 \in 1 .. n + 1 /\ \A j \in 1 .. n : j < k + 1 => j < k \/ j = k
    BY <1>1
  <2>2. ASSUME NEW v \in alive[k] \ {q[k][2]} PROVE v \in alive[k + 1]
    <3>1. v \in a /\ \A j \in 1 .. n : j < k => q[j] # <<"destruct", v>>
      BY <1>4, <2>1
    <3>2. q[k] # <<"destruct", v>>
      BY <1>3
    <3> QED
      BY <1>4, <2>1, <3>1, <3>2
  <2>3. q[k][1] = "destruct" /\ alive[k] \ {q[k][2]} \subseteq alive[k + 1]
    BY <1>3, <2>2
  <2> QED
    BY <2>3 DEF Flows
<1>9. IsPath(alive, a, q, { v \in a : <<"destruct", v>> \notin ToSet(q) })
  BY <1>1, <1>5, <1>6, <1>7, <1>8 DEF IsPath
<1> QED
  BY <1>1, <1>3, <1>9 DEF Path, Known

\* Code that leaves alive what is.
LEMMA PathSame ==
  ASSUME NEW S, NEW q \in Seq(S), NEW a \in Safe, \A e \in ToSet(q) : Flows(e, a, a)
  PROVE  Path(a, q, a)
<1>1. PICK n \in Nat : n = Len(q) /\ DOMAIN q = 1 .. n
  OBVIOUS
<1> DEFINE alive == [k \in 1 .. n + 1 |-> a]
<1>2. alive \in [1 .. n + 1 -> Safe] /\ \A k \in 1 .. n + 1 : alive[k] = a
  OBVIOUS
<1> HIDE DEF alive
<1>3. \A k \in 1 .. n : k \in 1 .. n + 1 /\ k + 1 \in 1 .. n + 1
  BY <1>1
<1>4. 1 \in 1 .. n + 1 /\ n + 1 \in 1 .. n + 1
  BY <1>1
<1>5. \A k \in 1 .. n : Flows(q[k], a, a)
  BY <1>1 DEF ToSet
<1>6. IsPath(alive, a, q, a)
  BY <1>1, <1>2, <1>3, <1>4, <1>5 DEF IsPath
<1> QED
  BY <1>6 DEF Path

LEMMA EmittedKnown ==
  ASSUME NEW q \in Seq(Emitted)
  PROVE  Known(q)
<1>1. \A e \in Emitted : e[1] \in {"construct", "destruct", "eval", "bind", "je", "jne", "jmp"}
  BY DEF Emitted, Jumping
<1>2. \A k \in 1 .. Len(q) : q[k] \in Emitted
  <2> HIDE DEF Emitted
  <2> QED
    OBVIOUS
<1> QED
  BY <1>1, <1>2 DEF Known

LEMMA PathGrows ==
  ASSUME NEW q \in Seq(Emitted), NEW r \in Seq(Emitted), NEW a, NEW b, NEW c,
         Path(a, q, b), Path(b, r, c)
  PROVE  Path(a, q \o r, c)
<1>1. Known(q)
  BY EmittedKnown
<1> HIDE DEF Emitted
<1> QED
  BY <1>1, PathJoined

\* The scopes from a place of the stack on are the ancestors of the one there.
LEMMA StackAncestors ==
  ASSUME BuilderType, TreeInv, NEW st, StackInv(st), NEW k \in DOMAIN st
  PROVE  ancestors[st[k].scope] = { st[j].scope : j \in { m \in DOMAIN st : k <= m } }
<1> DEFINE Beyond(m) == { st[j].scope : j \in { l \in DOMAIN st : m <= l } }
           D == { d \in Nat : Len(st) - d \in DOMAIN st =>
                                ancestors[st[Len(st) - d].scope] = Beyond(Len(st) - d) }
<1>1. /\ Len(st) \in Nat /\ DOMAIN st = 1 .. Len(st)
      /\ \A m \in DOMAIN st : st[m].scope \in DOMAIN scopes
  BY FrameIs
<1>2. 0 \in D
  <2>1. Len(st) - 0 = Len(st)
    BY <1>1
  <2> SUFFICES ASSUME Len(st) \in DOMAIN st PROVE ancestors[st[Len(st)].scope] = Beyond(Len(st))
    BY <2>1
  <2>2. st # <<>>
    BY <1>1
  <2>3. st[Len(st)].scope = main
    BY <2>2 DEF StackInv
  <2>4. { l \in DOMAIN st : Len(st) <= l } = {Len(st)}
    BY <1>1
  <2>5. Beyond(Len(st)) = {main}
    BY <2>3, <2>4
  <2>6. main \in DOMAIN scopes /\ scopes[main].parent_scope = 0
    BY DEF TreeInv
  <2>7. ancestors[main] = {main}
    BY <2>6, AncestorsAre
  <2> QED
    BY <2>3, <2>5, <2>7
<1>3. ASSUME NEW d \in Nat, d \in D PROVE d + 1 \in D
  <2>1. PICK m : m = Len(st) - (d + 1)
    OBVIOUS
  <2> SUFFICES ASSUME m \in DOMAIN st PROVE ancestors[st[m].scope] = Beyond(m)
    BY <2>1
  <2>2. m + 1 = Len(st) - d /\ m + 1 \in DOMAIN st /\ m \in Nat
    BY <1>1, <2>1
  <2>3. ancestors[st[m + 1].scope] = Beyond(m + 1)
    BY <1>3, <2>2
  <2>4. OpenedAt(st[m].scope, st[m + 1]) /\ st[m].scope \in DOMAIN scopes
    BY <1>1, <2>2 DEF StackInv
  <2>5. ancestors[st[m].scope] = {st[m].scope} \cup Beyond(m + 1)
    <3>1. scopes[st[m].scope].parent_scope = st[m + 1].scope
      BY <2>4 DEF OpenedAt
    <3> HIDE DEF Beyond
    <3> QED
      BY <2>3, <2>4, <3>1, AncestorsAre
  <2>6. { l \in DOMAIN st : m <= l } = {m} \cup { l \in DOMAIN st : m + 1 <= l }
    BY <1>1, <2>2
  <2>7. Beyond(m) = {st[m].scope} \cup Beyond(m + 1)
    BY <2>6
  <2> QED
    BY <2>5, <2>7
<1>4. Nat \subseteq D
  <2> HIDE DEF D
  <2> QED
    BY <1>2, <1>3, Induction
<1>5. Len(st) - k \in Nat /\ Len(st) - (Len(st) - k) = k
  BY <1>1
<1>6. Len(st) - k \in D
  BY <1>4, <1>5
<1>7. ancestors[st[k].scope] = Beyond(k)
  BY <1>5, <1>6
<1> QED
  BY <1>7

\* The functions in which a break has no variables to leave behind but those it destroys.
Calm == \A s \in DOMAIN scopes : BreaksLeaveNothing(s)

\* A break leaves the scopes above the innermost loop on the stack; the variables declared before
\* they were opened are none.
LEMMA BreakLeaves ==
  ASSUME BuilderType, TreeInv, Calm, NEW st, StackInv(st), NEW lp, LoopInv(st, lp),
         st # <<>>, lp # <<>>, Has(st[1].scope, "break")
  PROVE  \E k \in DOMAIN st :
           /\ IsLoop(st[k].scope) /\ Head(lp) = st[k].scope
           /\ \A j \in DOMAIN st : j < k =>
                /\ ~ IsLoop(st[j].scope)
                /\ Variables(scopes[st[j].scope].parent_scope, scopes[st[j].scope].opener) = <<>>
<1>1. PICK place : Nesting(st, lp, place)
  BY DEF LoopInv
<1>2. /\ Len(st) \in Nat /\ DOMAIN st = 1 .. Len(st)
      /\ \A m \in DOMAIN st : st[m].scope \in DOMAIN scopes /\ st[m].iterating \in Nat /\ m \in Nat
      /\ \A j, k \in DOMAIN st : j # k => st[j].scope # st[k].scope
  BY FrameIs
<1>3. Head(lp) = lp[1] /\ 1 \in DOMAIN lp /\ \A n \in DOMAIN lp : n = 1 \/ 1 < n
  <2>1. lp \in Seq(DOMAIN scopes)
    BY DEF LoopInv
  <2> QED
    BY <2>1
<1>4. PICK k \in DOMAIN st : k = place[1] /\ IsLoop(st[k].scope) /\ Head(lp) = st[k].scope
  BY <1>1, <1>3 DEF Nesting, LoopsOf
<1>5. ASSUME NEW j \in DOMAIN st, IsLoop(st[j].scope) PROVE k <= j
  <2>1. PICK n \in DOMAIN lp : place[n] = j
    BY <1>1, <1>5 DEF Nesting, LoopsOf
  <2>2. n = 1 \/ 1 < n
    BY <1>3
  <2>3. n = 1 => j = k
    BY <1>4, <2>1
  <2>4. 1 < n => k < j
    BY <1>1, <1>3, <1>4, <2>1 DEF Nesting
  <2> QED
    BY <1>2, <2>2, <2>3, <2>4
<1>6. 1 \in DOMAIN st
  BY <1>2
<1> DEFINE s == st[1].scope
<1>7. s \in DOMAIN scopes /\ BreaksLeaveNothing(s)
  BY <1>2, <1>6 DEF Calm
<1>8. \A m \in DOMAIN st : ancestors[st[m].scope] = { st[j].scope : j \in { l \in DOMAIN st : m <= l } }
  BY StackAncestors
<1>9. ancestors[s] = { st[j].scope : j \in DOMAIN st }
  <2>1. { l \in DOMAIN st : 1 <= l } = DOMAIN st
    BY <1>2
  <2> QED
    BY <1>6, <1>8, <2>1
<1>10. InLoop(s)
  BY <1>4, <1>9 DEF InLoop
<1>11. ASSUME NEW j \in DOMAIN st, j < k PROVE st[j].scope \in LeftByBreak(s)
  <2>1. st[j].scope \in ancestors[s]
    BY <1>9
  <2>2. ASSUME NEW l \in ancestors[s], IsLoop(l) PROVE st[j].scope \notin ancestors[l]
    <3>1. PICK m \in DOMAIN st : l = st[m].scope
      BY <1>9
    <3>2. k <= m
      BY <1>5, <2>2, <3>1
    <3> SUFFICES ASSUME st[j].scope \in ancestors[l] PROVE FALSE
      OBVIOUS
    <3>3. PICK x \in DOMAIN st : m <= x /\ st[j].scope = st[x].scope
      <4>1. ancestors[st[m].scope] = { st[y].scope : y \in { z \in DOMAIN st : m <= z } }
        BY StackAncestors
      <4>2. PICK b : b = st[j].scope
        OBVIOUS
      <4>3. b \in { st[y].scope : y \in { z \in DOMAIN st : m <= z } }
        BY <3>1, <4>1, <4>2
      <4> QED
        BY <4>2, <4>3
    <3>4. x = j
      BY <1>2, <3>3
    <3> QED
      BY <1>2, <1>11, <3>2, <3>3, <3>4
  <2> QED
    BY <2>1, <2>2 DEF LeftByBreak
<1>12. ASSUME NEW j \in DOMAIN st, j < k
       PROVE  /\ ~ IsLoop(st[j].scope)
              /\ Variables(scopes[st[j].scope].parent_scope, scopes[st[j].scope].opener) = <<>>
  <2>1. PICK a : a = st[j].scope
    OBVIOUS
  <2>2. a \in LeftByBreak(s)
    BY <1>11, <1>12, <2>1
  <2>3. Variables(scopes[a].parent_scope, scopes[a].opener) = <<>>
    BY <1>7, <1>10, <2>2 DEF BreaksLeaveNothing
  <2> QED
    BY <1>2, <1>5, <1>12, <2>1, <2>3
<1> QED
  BY <1>4, <1>12

\* What a break leaves alive is alive at the end of the loop.
LEMMA BreakLands ==
  ASSUME BuilderType, TreeInv, OnceInv, Calm, NEW st, StackInv(st), NEW lp, LoopInv(st, lp),
         st # <<>>, lp # <<>>, Has(st[1].scope, "break")
  PROVE  Around(st[1].scope) \subseteq Around(Head(lp))
<1>1. PICK k \in DOMAIN st :
        /\ Head(lp) = st[k].scope
        /\ \A j \in DOMAIN st : j < k =>
             Variables(scopes[st[j].scope].parent_scope, scopes[st[j].scope].opener) = <<>>
  BY BreakLeaves
<1>2. /\ Len(st) \in Nat /\ DOMAIN st = 1 .. Len(st)
      /\ \A m \in DOMAIN st : st[m].scope \in DOMAIN scopes /\ st[m].iterating \in Nat /\ m \in Nat
  BY FrameIs
<1>3. 1 \in DOMAIN st
  BY <1>2
<1> DEFINE s == st[1].scope
<1>4. ASSUME NEW j \in DOMAIN st, 1 < j, j <= k PROVE Built(st[j].scope, st[j].iterating) = {}
  <2>1. PICK h \in DOMAIN st : j = h + 1 /\ h < k
    <3>1. j - 1 \in DOMAIN st /\ j = (j - 1) + 1 /\ j - 1 < k
      BY <1>2, <1>4
    <3> QED
      BY <3>1
  <2>2. PICK a : a = st[h].scope
    OBVIOUS
  <2>4. Variables(scopes[a].parent_scope, scopes[a].opener) = <<>>
    BY <1>1, <2>1, <2>2
  <2>5. OpenedAt(st[h].scope, st[j])
    BY <2>1 DEF StackInv
  <2>6. scopes[a].parent_scope = st[j].scope /\ scopes[a].opener = st[j].iterating
    BY <2>2, <2>5 DEF OpenedAt
  <2>7. PICK x \in DOMAIN scopes, n \in Nat : x = st[j].scope /\ n = st[j].iterating
    BY <1>2
  <2>8. Variables(x, n) = <<>> /\ ToSet(Variables(x, n)) = Declared(x, n)
    BY <2>4, <2>6, <2>7, VariablesAre
  <2>9. Declared(x, n) = {}
    BY <2>8 DEF ToSet
  <2> QED
    BY <2>7, <2>9, BuiltAre
<1>5. /\ Around(s) = UNION { Built(st[j].scope, st[j].iterating) : j \in { m \in DOMAIN st : 1 < m } }
       /\ Around(st[k].scope) = UNION { Built(st[j].scope, st[j].iterating) : j \in { m \in DOMAIN st : k < m } }
  BY <1>3, AroundTop
<1>6. ASSUME NEW v \in Around(s) PROVE v \in Around(st[k].scope)
  <2>1. PICK j \in DOMAIN st : 1 < j /\ v \in Built(st[j].scope, st[j].iterating)
    BY <1>5
  <2>2. ~ (j <= k)
    BY <1>4, <2>1
  <2>3. k < j
    BY <1>2, <2>2
  <2> QED
    BY <1>5, <2>1, <2>3
<1> QED
  BY <1>1, <1>6

LEMMA LabelsAround ==
  /\ AtLabel(exit_label) = {}
  /\ \A s : /\ AtLabel(begin_of_scope(s)) = Around(s) /\ AtLabel(end_of_scope(s)) = Around(s)
            /\ AtLabel(loop_end_of_scope(s)) = Around(s)
<1>1. AtLabel(exit_label) = {}
  BY DEF AtLabel
<1>2. ASSUME NEW s, NEW l, l \in {begin_of_scope(s), end_of_scope(s), loop_end_of_scope(s)}
      PROVE  AtLabel(l) = Around(s)
  <2>1. l # exit_label /\ l[2] = s
    BY <1>2 DEF begin_of_scope, end_of_scope, loop_end_of_scope, exit_label
  <2> QED
    BY <2>1 DEF AtLabel
<1> QED
  BY <1>1, <1>2

\* An instruction that constructs and destroys nothing, where a is alive.
LEMMA FlowsBind ==
  ASSUME NEW l, NEW a, AtLabel(l) \subseteq a
  PROVE  Flows(<<"bind", l>>, a, a)
  BY DEF Flows

LEMMA FlowsJump ==
  ASSUME NEW l, NEW a, a \subseteq AtLabel(l), NEW op \in {"je", "jne"}
  PROVE  Flows(<<op, l>>, a, a)
<1> PICK ins : ins = <<op, l>>
  OBVIOUS
<1>1. ins[1] = op /\ ins[2] = l
  OBVIOUS
<1> QED
  BY <1>1 DEF Flows

LEMMA FlowsAway ==
  ASSUME NEW l, NEW a, a \subseteq AtLabel(l), NEW b
  PROVE  Flows(<<"jmp", l>>, a, b)
  BY DEF Flows

LEMMA FlowsEval ==
  ASSUME NEW s, NEW a
  PROVE  Flows(<<"eval", s>>, a, a)
  BY DEF Flows

\* What an instruction of the function compiles to follows the code before it.
LEMMA EmitsPath ==
  ASSUME CompilingInv, OnceInv, scope_stack # <<>>, Path({}, code, Live(scope_stack)),
         NEW list \in Seq(Emitted), Emit(list), NEW b, Path(Live(scope_stack), list, b)
  PROVE  Path({}, code', b)
<1>1. BuilderType /\ TreeInv /\ StackInv(scope_stack) /\ code \in Seq(Emitted)
  BY DEF CompilingInv
<1>2. current.scope = TopScope /\ i = TopNext /\ Begin \in Seq(Emitted)
  BY TopSteps
<1> DEFINE live == Live(scope_stack)
<1>3. live \in Safe
  BY <1>1, LiveSafe
<1>4. Around(TopScope) \subseteq live
  <2>1. PICK st2 : st2 = Tail(scope_stack)
    OBVIOUS
  <2>2. Ended(scope_stack, st2)
    BY <2>1 DEF Ended
  <2> QED
    BY <1>1, <2>2, LiveEnded DEF TopScope
<1> HIDE DEF live
<1>5. Path(live, Begin, live)
  <2> DEFINE x == <<"bind", begin_of_scope(TopScope)>>
  <2>1. Flows(x, live, live)
    BY <1>4, FlowsBind, LabelsAround
  <2>2. Begin = <<x>> \/ Begin = <<>>
    BY <1>2 DEF Begin
  <2> HIDE DEF x
  <2> QED
    BY <1>3, <2>1, <2>2, PathOne, PathNone
<1>6. Path({}, code \o Begin, live)
  BY <1>1, <1>2, <1>5, PathGrows DEF live
<1>7. code \o Begin \in Seq(Emitted)
  <2> HIDE DEF Emitted
  <2> QED
    BY <1>1, <1>2
<1>8. Path({}, (code \o Begin) \o list, b)
  <2>1. PICK q \in Seq(Emitted) : q = code \o Begin
    BY <1>7
  <2> QED
    BY <1>6, <2>1, PathGrows DEF live
<1> QED
  BY <1>8 DEF Emit

\* The steps that move on within a scope.
LEMMA PathContinues ==
  ASSUME CompilingInv, OnceInv, Calm, Path({}, code, Live(scope_stack)),
         Declare \/ Construct \/ Break, NEW st2, st2 = scope_stack'
  PROVE  Path({}, code', Live(st2))
<1>1. /\ scope_stack # <<>> /\ Continue /\ ~ Ends
      /\ instruction.op \in {"declare", "construct", "break"}
      /\ Declare \/ Break => instruction.op # "construct"
      /\ Construct => instruction.op = "construct"
      /\ Break => instruction.op = "break"
  BY DEF Declare, Construct, Break, Visits
<1>2. /\ BuilderType /\ TreeInv /\ StackInv(scope_stack) /\ LoopInv(scope_stack, loop_stack)
  BY DEF CompilingInv
<1>3. /\ current.scope = TopScope /\ i = TopNext /\ instruction = TopIns
      /\ TopScope \in DOMAIN scopes /\ TopNext \in Nat
      /\ TopNext \in DOMAIN instructions(TopScope) /\ Moves(scope_stack, st2)
      /\ DOMAIN instructions(TopScope) = 1 .. Len(instructions(TopScope))
      /\ Len(instructions(TopScope)) \in Nat /\ scope_stack[1].iterating \in Nat
      /\ TopNext = scope_stack[1].iterating + 1
  BY <1>1, TopSteps
<1>4. StackInv(st2)
  <2>1. scope_stack[1].iterating < Len(instructions(scope_stack[1].scope))
    BY <1>3 DEF TopScope
  <2> QED
    BY <1>2, <1>3, <2>1, MovesStack
<1>5. LiveGrows(scope_stack, st2, TopScope, TopIns)
  <2>1. PICK s, n, ins : s = TopScope /\ n = TopNext /\ ins = TopIns
    OBVIOUS
  <2>2. /\ s = scope_stack[1].scope /\ n = scope_stack[1].iterating + 1
        /\ n \in DOMAIN instructions(s) /\ ins = instructions(s)[n]
    BY <1>3, <2>1 DEF TopScope, TopIns
  <2>3. LiveGrows(scope_stack, st2, s, ins)
    BY <1>2, <1>3, <2>2, LiveMoves
  <2> QED
    BY <2>1, <2>3
<1>6. PICK live, live2 : live = Live(scope_stack) /\ live2 = Live(st2)
  OBVIOUS
<1>7. live \in Safe /\ live2 \in Safe
  BY <1>2, <1>4, <1>6, LiveSafe
<1>8. ASSUME NEW list \in Seq(Emitted), Emit(list), Path(live, list, live2)
      PROVE  Path({}, code', live2)
  BY <1>1, <1>6, <1>8, EmitsPath
<1>9. ASSUME Emit(<<>>), live2 = live PROVE Path({}, code', live2)
  <2>1. <<>> \in Seq(Emitted)
    BY NoneEmitted
  <2>2. Path(live, <<>>, live2)
    BY <1>7, <1>9, PathNone
  <2> QED
    BY <1>8, <1>9, <2>1, <2>2
<1>10. CASE Declare
  <2>1. Emit(<<>>)
    BY <1>10 DEF Declare
  <2>2. live2 = live
    BY <1>1, <1>3, <1>5, <1>6, <1>10 DEF LiveGrows
  <2> QED
    BY <1>6, <1>9, <2>1, <2>2
<1>11. CASE Construct
  <2>1. PICK v : v = <<TopScope, TopIns.arg>>
    OBVIOUS
  <2>2. live2 = live \cup {v} /\ v \notin live
    BY <1>1, <1>3, <1>5, <1>6, <1>11, <2>1 DEF LiveGrows
  <2> DEFINE x == <<"construct", v>>
  <2>3. Flows(x, live, live2)
    BY <2>2 DEF Flows
  <2>4. Emit(<<x>>)
    BY <1>3, <1>11, <2>1 DEF Construct
  <2>5. x \in Emitted
    <3>1. TopIns.arg \in Nat /\ TopScope \in Nat
      BY <1>2, <1>3, ScopeTyped DEF BuilderType, TopIns
    <3> QED
      BY <2>1, <3>1 DEF Emitted
  <2> HIDE DEF x
  <2>6. Path(live, <<x>>, live2) /\ <<x>> \in Seq(Emitted)
    BY <1>7, <2>3, <2>5, PathOne, OneEmitted
  <2> QED
    BY <1>6, <1>8, <2>4, <2>6
<1>12. CASE Break
  <2>1. live2 = live
    BY <1>1, <1>3, <1>5, <1>6, <1>12 DEF LiveGrows
  <2>2. CASE loop_stack = <<>>
    BY <1>6, <1>9, <1>12, <2>1, <2>2 DEF Break
  <2>3. CASE loop_stack # <<>>
    <3> DEFINE d == Destructors(TopScope, TopNext)
               h == Head(loop_stack)
               x == <<"jmp", loop_end_of_scope(h)>>
               left == { v \in live : <<"destruct", v>> \notin ToSet(d) }
    <3>1. /\ d \in Seq({"destruct"} \X (Nat \X Nat))
          /\ ToSet(d) = Destructions(Declared(TopScope, TopNext))
      BY <1>2, <1>3, DestructorsAre
    <3>2. Path(live, d, left)
      BY <1>7, <3>1, PathDestructs
    <3>3. left \subseteq live
      OBVIOUS
    <3>4. left \subseteq Around(h)
      <4>1. Has(scope_stack[1].scope, "break")
        BY <1>1, <1>3, <1>12 DEF Has, TopIns, TopScope
      <4>2. Around(TopScope) \subseteq Around(h)
        BY <1>1, <1>2, <2>3, <4>1, BreakLands DEF TopScope
      <4>3. live2 = Built(TopScope, TopNext) \cup Around(TopScope)
        <5>1. PICK st3 : st3 = Tail(st2)
          OBVIOUS
        <5>2. st2[1].scope = TopScope /\ st2[1].iterating = TopNext
              /\ DOMAIN st2 = DOMAIN scope_stack /\ 1 \in DOMAIN scope_stack
          BY <1>2, <1>3, MovesIs DEF TopScope
        <5>3. st2 # <<>>
          BY <5>2
        <5>4. Ended(st2, st3)
          BY <5>1, <5>3 DEF Ended
        <5>5. /\ Live(st2) = Built(st2[1].scope, st2[1].iterating) \cup Live(st3)
              /\ Live(st3) = Around(st2[1].scope)
          BY <1>2, <1>4, <5>4, LiveEnded
        <5> QED
          BY <1>6, <5>2, <5>5
      <4>4. Built(TopScope, TopNext) \subseteq Declared(TopScope, TopNext)
        BY <1>2, <1>3, BuiltAre
      <4>5. ASSUME NEW v \in left PROVE v \in Around(TopScope)
        <5>1. v \notin Declared(TopScope, TopNext)
          BY <3>1 DEF Destructions
        <5> QED
          BY <2>1, <4>3, <4>4, <5>1
      <4> QED
        BY <4>2, <4>5
    <3>5. left \in Safe
      BY <1>7, <3>3, SafeSubset
    <3>6. Flows(x, left, live)
      <4>1. AtLabel(loop_end_of_scope(h)) = Around(h)
        BY LabelsAround
      <4> HIDE DEF left
      <4> QED
        BY <3>4, <4>1, FlowsAway
    <3>7. x \in Emitted
      <4>1. h \in DOMAIN scopes
        BY <1>2, <2>3 DEF LoopInv
      <4>2. PICK l \in Mark : l = loop_end_of_scope(h)
        BY <4>1, EmittedIs
      <4> QED
        BY <4>2, EmittedIs DEF Jumping
    <3>8. Emit(d \o <<x>>)
      BY <1>3, <1>12, <2>3 DEF Break
    <3> HIDE DEF d, x, left, h
    <3>9. d \in Seq(Emitted) /\ <<x>> \in Seq(Emitted)
      BY <3>1, <3>7, CallsEmitted, OneEmitted
    <3>10. Path(left, <<x>>, live)
      BY <1>7, <3>5, <3>6, PathOne
    <3>11. Path(live, d \o <<x>>, live2)
      BY <2>1, <3>2, <3>9, <3>10, PathGrows
    <3>12. d \o <<x>> \in Seq(Emitted)
      <4> HIDE DEF Emitted
      <4> QED
        BY <3>9
    <3>13. PICK list \in Seq(Emitted) : list = d \o <<x>>
      BY <3>12
    <3> QED
      BY <1>6, <1>8, <3>8, <3>11, <3>13
  <2> QED
    BY <2>2, <2>3
<1> QED
  BY <1>10, <1>11, <1>12

\* The else of an if is entered with what the if is entered with.
LEMMA ElseAround ==
  ASSUME BuilderType, TreeInv, OnceInv, NEW c \in DOMAIN scopes \ {main}, NEW e \in else_branch(c)
  PROVE  Around(e) = Around(c)
<1>1. /\ e \in DOMAIN scopes \ {main} /\ opener(e).op = "else"
      /\ scopes[e].parent_scope = scopes[c].parent_scope
      /\ scopes[e].opener = scopes[c].opener + 1
  BY ElseIs
<1>2. PICK p \in DOMAIN scopes : p = scopes[c].parent_scope /\ scopes[c].opener \in DOMAIN instructions(p)
  BY DEF TreeInv, ParentInv
<1>3. PICK n \in Nat : n = scopes[c].opener
  BY <1>2, ScopeTyped DEF BuilderType
<1>4. n + 1 \in DOMAIN instructions(p)
  BY <1>1, <1>2, <1>3 DEF TreeInv, ParentInv
<1>5. instructions(p)[n + 1].op # "construct"
  BY <1>1, <1>2, <1>3 DEF opener
<1>6. Built(p, n + 1) = Built(p, n)
  <2>1. PICK ins : ins = instructions(p)[n + 1]
    OBVIOUS
  <2>2. ins.op # "construct" => Built(p, n + 1) = Built(p, n)
    BY <1>4, <2>1, BuiltAre
  <2> QED
    BY <1>5, <2>1, <2>2
<1>7. Around(e) = Built(p, n + 1) \cup Around(p) /\ Around(c) = Built(p, n) \cup Around(p)
  BY <1>1, <1>2, <1>3, AroundIs
<1> QED
  BY <1>6, <1>7

\* The steps that open a scope.
LEMMA PathOpens ==
  ASSUME CompilingInv, OnceInv, Path({}, code, Live(scope_stack)),
         ScopeCreate \/ If \/ Else \/ While, NEW st2, st2 = scope_stack'
  PROVE  Path({}, code', Live(st2))
<1>1. /\ scope_stack # <<>> /\ ~ Ends /\ instruction.op \in Opening /\ Enter(instruction.arg)
  BY DEF ScopeCreate, If, Else, While, VisitsBranch, Visits, Opening, Branch
<1>2. BuilderType /\ TreeInv /\ StackInv(scope_stack)
  BY DEF CompilingInv
<1>3. /\ current.scope = TopScope /\ i = TopNext /\ instruction = TopIns
      /\ TopScope \in DOMAIN scopes /\ TopNext \in DOMAIN instructions(TopScope)
      /\ TopNext = scope_stack[1].iterating + 1
      /\ \A c : Enter(c) => Enters(scope_stack, c, scope_stack')
  BY <1>1, TopSteps
<1>4. PICK c, s, n : c = TopIns.arg /\ s = TopScope /\ n = TopNext
  OBVIOUS
<1>5. Live(st2) = Live(scope_stack) /\ Around(c) = Live(scope_stack) /\ c \in DOMAIN scopes \ {main}
  <2>1. /\ Enters(scope_stack, c, st2) /\ s = scope_stack[1].scope
        /\ n = scope_stack[1].iterating + 1 /\ n \in DOMAIN instructions(s)
        /\ instructions(s)[n].op \in Opening /\ instructions(s)[n].arg = c
    BY <1>1, <1>3, <1>4 DEF TopScope, TopIns
  <2> QED
    BY <1>2, <2>1, LiveEnters
<1>6. PICK live : live = Live(scope_stack)
  OBVIOUS
<1>7. live \in Safe /\ Live(st2) = live /\ Around(c) = live
  BY <1>2, <1>5, <1>6, LiveSafe
<1>8. ASSUME NEW list \in Seq(Emitted), Emit(list), Path(live, list, live)
      PROVE  Path({}, code', live)
  BY <1>1, <1>6, <1>8, EmitsPath
<1>9. CASE ScopeCreate \/ Else
  <2>1. Emit(<<>>)
    BY <1>9 DEF ScopeCreate, Else
  <2>2. <<>> \in Seq(Emitted) /\ Path(live, <<>>, live)
    BY <1>7, NoneEmitted, PathNone
  <2> QED
    BY <1>7, <1>8, <2>1, <2>2
<1>10. CASE If
  <2> DEFINE x == <<"eval", c>>
             y == <<"je", Unmet(c)>>
  <2>1. Emit(<<x, y>>)
    BY <1>3, <1>4, <1>10 DEF If
  <2>2. x \in Emitted /\ y \in Emitted
    BY <1>2, <1>5, EmittedIs, UnmetIs
  <2>3. Flows(x, live, live)
    BY FlowsEval
  <2>4. AtLabel(Unmet(c)) = live
    <3>1. CASE else_branch(c) = {} /\ Unmet(c) = end_of_scope(c)
      BY <1>7, <3>1, LabelsAround
    <3>2. CASE \E e \in else_branch(c) : Unmet(c) = begin_of_scope(e)
      <4>1. PICK e \in else_branch(c) : Unmet(c) = begin_of_scope(e)
        BY <3>2
      <4>2. Around(e) = Around(c)
        BY <1>2, <1>5, ElseAround
      <4> QED
        BY <1>7, <4>1, <4>2, LabelsAround
    <3> QED
      BY <1>2, <1>5, <3>1, <3>2, UnmetIs
  <2>5. Flows(y, live, live)
    BY <2>4, FlowsJump
  <2> HIDE DEF x, y
  <2>6. <<x, y>> \in Seq(Emitted) /\ ToSet(<<x, y>>) = {x, y}
    <3>1. <<x, y>> \in Seq(Emitted) /\ DOMAIN <<x, y>> = {1, 2}
          /\ <<x, y>>[1] = x /\ <<x, y>>[2] = y
      <4> HIDE DEF Emitted
      <4> QED
        BY <2>2
    <3> QED
      BY <3>1 DEF ToSet
  <2>7. Path(live, <<x, y>>, live)
    <3>1. PICK q \in Seq(Emitted) : q = <<x, y>>
      BY <2>6
    <3>2. \A e \in ToSet(q) : Flows(e, live, live)
      BY <2>3, <2>5, <2>6, <3>1
    <3>3. PICK E : E = Emitted
      OBVIOUS
    <3>4. q \in Seq(E)
      BY <3>1, <3>3
    <3> QED
      BY <1>7, <3>1, <3>2, <3>4, PathSame
  <2> QED
    BY <1>7, <1>8, <2>1, <2>6, <2>7
<1>11. CASE While
  <2> DEFINE x == <<"jmp", end_of_scope(c)>>
  <2>1. Emit(<<x>>)
    BY <1>3, <1>4, <1>11 DEF While
  <2>2. x \in Emitted
    BY <1>5, EmittedIs DEF Jumping
  <2>3. Flows(x, live, live)
    BY <1>7, FlowsAway, LabelsAround
  <2> HIDE DEF x
  <2>4. Path(live, <<x>>, live) /\ <<x>> \in Seq(Emitted)
    BY <1>7, <2>2, <2>3, PathOne, OneEmitted
  <2> QED
    BY <1>7, <1>8, <2>1, <2>4
<1> QED
  BY <1>9, <1>10, <1>11

\* A return leaves nothing alive behind it; what follows it is jumped to.
LEMMA PathReturns ==
  ASSUME CompilingInv, OnceInv, Path({}, code, Live(scope_stack)),
         Return, NEW st2, st2 = scope_stack'
  PROVE  Path({}, code', Live(st2))
<1> DEFINE d == AllDestructors
           x == <<"jmp", exit_label>>
           ends == <<"bind", end_of_scope(TopScope)>>
<1>1. /\ scope_stack # <<>> /\ ~ Ends /\ instruction.op = "return"
      /\ scope_stack' = Tail(scope_stack)
      /\ Emit(d \o <<x>> \o Skipped(current.scope))
  BY DEF Return, Visits
<1>2. BuilderType /\ TreeInv /\ StackInv(scope_stack)
  BY DEF CompilingInv
<1>3. /\ current.scope = TopScope /\ i = TopNext /\ instruction = TopIns
      /\ TopScope \in DOMAIN scopes /\ TopNext \in DOMAIN instructions(TopScope)
      /\ TopNext = scope_stack[1].iterating + 1
      /\ scope_stack[1].iterating < Len(instructions(TopScope))
  BY <1>1, TopSteps
<1>4. PICK moved : moved = <<Moved(Head(scope_stack))>> \o Tail(scope_stack)
  OBVIOUS
<1>5. Moves(scope_stack, moved) /\ StackInv(moved)
  <2>1. Moves(scope_stack, moved)
    BY <1>1, <1>4 DEF Moves
  <2>2. scope_stack[1].iterating < Len(instructions(scope_stack[1].scope))
    BY <1>3 DEF TopScope
  <2> QED
    BY <1>2, <2>1, <2>2, MovesStack
<1>6. PICK live, around : live = Live(scope_stack) /\ around = Around(TopScope)
  OBVIOUS
<1>7. live \in Safe /\ around \in Safe /\ Live(st2) = around /\ {} \in Safe
  <2>1. Ended(scope_stack, st2)
    BY <1>1 DEF Ended
  <2>2. Live(st2) = Around(scope_stack[1].scope)
    BY <1>2, <2>1, LiveEnded
  <2>3. StackInv(st2)
    BY <1>2, <2>1, EndsStack
  <2> QED
    BY <1>2, <1>6, <2>2, <2>3, LiveSafe DEF TopScope
<1>8. Live(moved) = live
  <2>1. PICK s, n, ins : s = TopScope /\ n = TopNext /\ ins = TopIns
    OBVIOUS
  <2>2. /\ s = scope_stack[1].scope /\ n = scope_stack[1].iterating + 1
        /\ n \in DOMAIN instructions(s) /\ ins = instructions(s)[n]
    BY <1>3, <2>1 DEF TopScope, TopIns
  <2>3. LiveGrows(scope_stack, moved, s, ins)
    BY <1>2, <1>5, <2>2, LiveMoves
  <2> QED
    BY <1>1, <1>3, <1>6, <2>1, <2>3 DEF LiveGrows
<1>9. /\ d \in Seq({"destruct"} \X (Nat \X Nat))
      /\ ToSet(d) = UNION { Destructions(Declared(moved[k].scope, moved[k].iterating)) : k \in DOMAIN moved }
  <2>1. scope_stack[1].iterating < Len(instructions(scope_stack[1].scope))
    BY <1>3 DEF TopScope
  <2> QED
    BY <1>2, <1>5, <2>1, AllDestructorsAre
<1>10. Path(live, d, {})
  <2>1. ASSUME NEW v \in live PROVE <<"destruct", v>> \in ToSet(d)
    <3>1. v \in DeclaredOn(moved)
      BY <1>2, <1>5, <1>8, LiveSafe
    <3>2. PICK k \in DOMAIN moved : v \in Declared(moved[k].scope, moved[k].iterating)
      BY <3>1 DEF DeclaredOn
    <3>3. <<"destruct", v>> \in Destructions(Declared(moved[k].scope, moved[k].iterating))
      BY <3>2 DEF Destructions
    <3> QED
      BY <1>9, <3>3
  <2>2. { v \in live : <<"destruct", v>> \notin ToSet(d) } = {}
    BY <2>1
  <2>3. Path(live, d, { v \in live : <<"destruct", v>> \notin ToSet(d) })
    BY <1>7, <1>9, PathDestructs
  <2> QED
    BY <2>2, <2>3
<1>11. Flows(x, {}, around)
  BY FlowsAway, LabelsAround
<1>12. x \in Emitted /\ ends \in Emitted
  BY <1>3, EmittedIs DEF Jumping
<1>13. Flows(ends, around, around)
  BY <1>6, FlowsBind, LabelsAround
<1>14. Skipped(TopScope) = <<ends>> \/ Skipped(TopScope) = <<>>
  BY DEF Skipped
<1> HIDE DEF d, x, ends
<1>15. d \in Seq(Emitted)
  BY <1>9, CallsEmitted
<1>16. Path({}, <<x>>, around) /\ <<x>> \in Seq(Emitted)
  BY <1>7, <1>11, <1>12, PathOne, OneEmitted
<1>17. PICK skipped \in Seq(Emitted) : skipped = Skipped(TopScope) /\ Path(around, skipped, around)
  <2>1. <<ends>> \in Seq(Emitted) /\ Path(around, <<ends>>, around)
    BY <1>7, <1>12, <1>13, PathOne, OneEmitted
  <2>2. <<>> \in Seq(Emitted) /\ Path(around, <<>>, around)
    BY <1>7, PathNone, NoneEmitted
  <2> QED
    BY <1>14, <2>1, <2>2
<1>18. PICK a : a = d \o <<x>>
  OBVIOUS
<1>19. a \in Seq(Emitted) /\ Path(live, a, around)
  <2>1. Path(live, d \o <<x>>, around)
    BY <1>10, <1>15, <1>16, PathGrows
  <2>2. d \o <<x>> \in Seq(Emitted)
    <3> HIDE DEF Emitted
    <3> QED
      BY <1>15, <1>16
  <2> QED
    BY <1>18, <2>1, <2>2
<1>20. PICK list : list = a \o skipped
  OBVIOUS
<1>21. list \in Seq(Emitted) /\ Path(live, list, around)
  <2>1. Path(live, a \o skipped, around)
    BY <1>17, <1>19, PathGrows
  <2>2. a \o skipped \in Seq(Emitted)
    <3> HIDE DEF Emitted
    <3> QED
      BY <1>17, <1>19
  <2> QED
    BY <1>20, <2>1, <2>2
<1>22. Emit(list)
  BY <1>1, <1>3, <1>17, <1>18, <1>20
<1> QED
  BY <1>1, <1>6, <1>7, <1>21, <1>22, EmitsPath

\* The end of a scope destroys what the scope has constructed.
LEMMA PathEnds ==
  ASSUME CompilingInv, OnceInv, Path({}, code, Live(scope_stack)),
         EndScope, NEW st2, st2 = scope_stack'
  PROVE  Path({}, code', Live(st2))
<1> DEFINE s == TopScope
           d == Destructors(s, Len(instructions(s)))
           ends == <<"bind", end_of_scope(s)>>
           b == IF IsBranch(s) THEN <<ends>> ELSE <<>>
           after == AfterEnd(s)
           live == Live(scope_stack)
           around == Around(s)
<1>1. /\ scope_stack # <<>> /\ Ends /\ scope_stack' = Tail(scope_stack)
      /\ code' = code \o ScopeEnd(current.scope) \o AfterEnd(current.scope)
  BY DEF EndScope
<1>2. BuilderType /\ TreeInv /\ StackInv(scope_stack) /\ code \in Seq(Emitted)
  BY DEF CompilingInv
<1>3. /\ current.scope = s /\ s \in DOMAIN scopes /\ Len(instructions(s)) \in Nat
      /\ scope_stack[1].iterating \in Nat
      /\ scope_stack[1].iterating <= Len(instructions(s))
  BY <1>1, <1>2, TopSteps, TopIs DEF TopScope
<1>4. code' = code \o (d \o b) \o after
  BY <1>1, <1>3 DEF ScopeEnd
<1>5. live \in Safe /\ around \in Safe /\ Live(st2) = around
      /\ live = Built(s, scope_stack[1].iterating) \cup around
  <2>1. Ended(scope_stack, st2)
    BY <1>1 DEF Ended
  <2>2. /\ Live(scope_stack) = Built(scope_stack[1].scope, scope_stack[1].iterating) \cup Live(st2)
        /\ Live(st2) = Around(scope_stack[1].scope)
    BY <1>2, <2>1, LiveEnded
  <2>3. StackInv(st2)
    BY <1>2, <2>1, EndsStack
  <2> QED
    BY <1>2, <2>2, <2>3, LiveSafe DEF TopScope
<1>6. /\ d \in Seq({"destruct"} \X (Nat \X Nat))
      /\ ToSet(d) = Destructions(Declared(s, Len(instructions(s))))
  BY <1>2, <1>3, DestructorsAre
<1>7. Path(live, d, around)
  <2> DEFINE left == { v \in live : <<"destruct", v>> \notin ToSet(d) }
  <2>1. Path(live, d, left)
    BY <1>5, <1>6, PathDestructs
  <2>2. ASSUME NEW v \in left PROVE v \in around
    <3>1. v \notin Declared(s, Len(instructions(s)))
      BY <1>6 DEF Destructions
    <3>2. PICK n \in Nat, m \in Nat :
            n = scope_stack[1].iterating /\ m = Len(instructions(s)) /\ n <= m
      BY <1>3
    <3>3. Built(s, n) \subseteq Declared(s, n)
      BY <1>2, <1>3, BuiltAre
    <3>4. Declared(s, n) \subseteq Declared(s, m)
      <4>1. \A k \in DOMAIN instructions(s) : k \in Nat
        BY <1>2, <1>3, ScopeTyped DEF BuilderType
      <4>2. \A k \in DOMAIN instructions(s) : k <= n => k <= m
        BY <3>2, <4>1
      <4> QED
        BY <4>2 DEF Declared
    <3> QED
      BY <1>5, <3>1, <3>2, <3>3, <3>4
  <2> HIDE DEF left
  <2>3. left \subseteq around /\ live \subseteq live
    BY <2>2
  <2> QED
    BY <2>1, <2>3, PathWider
<1>8. ends \in Emitted /\ Flows(ends, around, around)
  BY <1>3, EmittedIs, FlowsBind, LabelsAround
<1>9. /\ after \in Seq(Emitted)
      /\ \A e \in ToSet(after) : Flows(e, around, around)
  <2>1. \A e \in ToSet(after) :
          \/ e[1] = "eval"
          \/ /\ IsLoop(s)
             /\ e \in {<<"bind", loop_end_of_scope(s)>>, <<"jne", begin_of_scope(s)>>}
          \/ /\ s # main /\ opener(s).op = "if"
             /\ \E x \in else_branch(s) : e = <<"jmp", end_of_scope(x)>>
    BY <1>2, <1>3, AfterEndIs
  <2>2. ASSUME NEW e \in ToSet(after) PROVE Flows(e, around, around)
    <3>1. CASE e[1] = "eval"
      BY <3>1 DEF Flows
    <3>2. CASE e = <<"bind", loop_end_of_scope(s)>>
      BY <3>2, FlowsBind, LabelsAround
    <3>3. CASE e = <<"jne", begin_of_scope(s)>>
      BY <3>3, FlowsJump, LabelsAround
    <3>4. CASE s # main /\ \E x \in else_branch(s) : e = <<"jmp", end_of_scope(x)>>
      <4>1. PICK x \in else_branch(s) : e = <<"jmp", end_of_scope(x)>>
        BY <3>4
      <4>2. Around(x) = Around(s)
        BY <1>2, <1>3, <3>4, ElseAround
      <4> QED
        BY <4>1, <4>2, FlowsAway, LabelsAround
    <3> QED
      BY <2>1, <3>1, <3>2, <3>3, <3>4
  <2> QED
    BY <1>2, <1>3, <2>2, AfterEndIs
<1> HIDE DEF d, ends
<1>10. b \in Seq(Emitted) /\ Path(around, b, around)
  <2>1. <<ends>> \in Seq(Emitted) /\ Path(around, <<ends>>, around)
    BY <1>5, <1>8, PathOne, OneEmitted
  <2>2. <<>> \in Seq(Emitted) /\ Path(around, <<>>, around)
    BY <1>5, PathNone, NoneEmitted
  <2> QED
    BY <2>1, <2>2
<1>11. d \in Seq(Emitted)
  BY <1>6, CallsEmitted
<1> HIDE DEF b, after, live, around
<1>12. Path(around, after, around)
  <2>1. PICK E : E = Emitted
    OBVIOUS
  <2>2. after \in Seq(E)
    BY <1>9, <2>1
  <2> QED
    BY <1>5, <1>9, <2>2, PathSame
<1>13. PICK a : a = d \o b
  OBVIOUS
<1>14. a \in Seq(Emitted) /\ Path(live, a, around)
  <2>1. Path(live, d \o b, around)
    BY <1>7, <1>10, <1>11, PathGrows
  <2>2. d \o b \in Seq(Emitted)
    <3> HIDE DEF Emitted
    <3> QED
      BY <1>10, <1>11
  <2> QED
    BY <1>13, <2>1, <2>2
<1>15. PICK q : q = code \o a
  OBVIOUS
<1>16. q \in Seq(Emitted) /\ Path({}, q, around)
  <2>1. Path({}, code \o a, around)
    BY <1>2, <1>14, PathGrows DEF live
  <2>2. code \o a \in Seq(Emitted)
    <3> HIDE DEF Emitted
    <3> QED
      BY <1>2, <1>14
  <2> QED
    BY <1>15, <2>1, <2>2
<1>17. Path({}, q \o after, around)
  BY <1>9, <1>12, <1>16, PathGrows
<1> QED
  BY <1>4, <1>5, <1>13, <1>15, <1>17

-----------------------------------------------------------------------------
(* The run.                                                                *)

Event == ({"eval"} \X Nat) \cup ({"construct", "destruct"} \X (Nat \X Nat))
Count(t, e) == Cardinality({ k \in DOMAIN t : t[k] = e })

LEMMA Counted ==
  ASSUME NEW t \in Seq(Event), NEW x \in Event
  PROVE  /\ \A e : Count(t, e) \in Nat
         /\ \A e : Count(Append(t, x), e) = Count(t, e) + (IF e = x THEN 1 ELSE 0)
         /\ Append(t, x) \in Seq(Event)
<1>1. PICK n \in Nat : n = Len(t) /\ DOMAIN t = 1 .. n
  <2> HIDE DEF Event
  <2> QED
    OBVIOUS
<1>2. PICK r : r = Append(t, x)
  OBVIOUS
<1>3. /\ r \in Seq(Event) /\ DOMAIN r = 1 .. n + 1 /\ r[n + 1] = x
      /\ \A k \in 1 .. n : r[k] = t[k]
  <2> HIDE DEF Event
  <2> QED
    BY <1>1, <1>2
<1>4. ASSUME NEW e
      PROVE  Count(t, e) \in Nat /\ Count(r, e) = Count(t, e) + (IF e = x THEN 1 ELSE 0)
  <2> DEFINE T == { k \in DOMAIN t : t[k] = e }
             R == { k \in DOMAIN r : r[k] = e }
  <2>1. IsFiniteSet(T) /\ Cardinality(T) \in Nat
    <3>1. IsFiniteSet(1 .. n)
      BY FS_Interval
    <3>2. T \in SUBSET (1 .. n)
      BY <1>1
    <3>3. IsFiniteSet(T)
      BY <3>1, <3>2, FS_Subset
    <3> HIDE DEF T
    <3> QED
      BY <3>3, FS_CardinalityType
  <2>2. n + 1 \notin T /\ \A k \in 1 .. n : n + 1 # k
    BY <1>1
  <2>3. CASE e = x
    <3>1. R = T \cup {n + 1}
      BY <1>1, <1>3, <2>2, <2>3
    <3> HIDE DEF T, R
    <3>2. Cardinality(R) = Cardinality(T) + 1
      BY <2>1, <2>2, <3>1, FS_AddElement
    <3> QED
      BY <2>1, <2>3, <3>2 DEF Count, T, R
  <2>4. CASE e # x
    <3>1. R = T
      BY <1>1, <1>3, <2>2, <2>4
    <3>2. Cardinality(R) = Cardinality(T)
      BY <3>1
    <3> HIDE DEF T, R
    <3>3. Cardinality(R) = Cardinality(T) + 0
      BY <2>1, <3>2
    <3> QED
      BY <2>1, <2>4, <3>3 DEF Count, T, R
  <2> QED
    BY <2>3, <2>4
<1> QED
  BY <1>2, <1>3, <1>4

\* Of the variables, only those of a have been constructed once more than destroyed.
InBalance(t, a, v) ==
  Count(t, <<"construct", v>>) <= Count(t, <<"destruct", v>>) + (IF v \in a THEN 1 ELSE 0)
Balanced(t, a) == \A v \in Nat \X Nat : InBalance(t, a, v)

LEMMA BalancedMore ==
  ASSUME NEW t \in Seq(Event), NEW a, NEW b, Balanced(t, a), a \subseteq b
  PROVE  Balanced(t, b)
<1>1. ASSUME NEW v \in Nat \X Nat PROVE InBalance(t, b, v)
  <2>1. PICK x \in Event : x = <<"construct", v>>
    BY DEF Event
  <2>2. PICK c \in Nat, d \in Nat :
          c = Count(t, <<"construct", v>>) /\ d = Count(t, <<"destruct", v>>)
    BY Counted, <2>1
  <2>3. InBalance(t, a, v)
    BY DEF Balanced
  <2>4. c <= d + (IF v \in a THEN 1 ELSE 0)
    BY <2>2, <2>3 DEF InBalance
  <2>5. c <= d + (IF v \in b THEN 1 ELSE 0)
    <3>1. CASE v \in a
      BY <2>4, <3>1
    <3>2. CASE v \notin a
      BY <2>4, <3>2
    <3> QED
      BY <3>1, <3>2
  <2> QED
    BY <2>2, <2>5 DEF InBalance
<1> QED
  BY <1>1 DEF Balanced

LEMMA BalancedCall ==
  ASSUME NEW t \in Seq(Event), NEW a, NEW b, Balanced(t, a), NEW x \in Event, Flows(x, a, b)
  PROVE  Append(t, x) \in Seq(Event) /\ Balanced(Append(t, x), b)
<1>1. PICK r : r = Append(t, x)
  OBVIOUS
<1>2. /\ r \in Seq(Event)
      /\ \A e : Count(t, e) \in Nat
      /\ \A e : Count(r, e) = Count(t, e) + (IF e = x THEN 1 ELSE 0)
  BY <1>1, Counted
<1>3. ASSUME NEW v \in Nat \X Nat PROVE InBalance(r, b, v)
  <2>1. PICK e, f : e = <<"construct", v>> /\ f = <<"destruct", v>>
    OBVIOUS
  <2>2. PICK c \in Nat, d \in Nat : c = Count(t, e) /\ d = Count(t, f)
    BY <1>2
  <2>3. /\ Count(r, e) = c + (IF e = x THEN 1 ELSE 0)
        /\ Count(r, f) = d + (IF f = x THEN 1 ELSE 0)
    BY <1>2, <2>2
  <2>4. c <= d + (IF v \in a THEN 1 ELSE 0)
    BY <2>1, <2>2 DEF Balanced, InBalance
  <2>5. e # f
    BY <2>1
  <2>6. CASE x = e
    <3>1. v \notin a /\ v \in b
      BY <2>1, <2>6 DEF Flows
    <3>2. c + 1 <= d + 0 + 1
      BY <2>4, <3>1
    <3> QED
      BY <2>1, <2>3, <2>5, <2>6, <3>1, <3>2 DEF InBalance
  <2>7. CASE x = f
    <3>1. c <= d + 1
      BY <2>4
    <3> QED
      BY <2>1, <2>3, <2>5, <2>7, <3>1 DEF InBalance
  <2>8. CASE x # e /\ x # f
    <3>1. v \in a => v \in b
      <4>1. CASE x[1] = "eval"
        BY <4>1 DEF Flows
      <4>2. CASE x[1] = "construct"
        BY <4>2 DEF Flows
      <4>3. CASE x[1] = "destruct"
        <5>1. x = <<"destruct", x[2]>>
          BY <4>3 DEF Event
        <5>2. x[2] # v
          BY <2>1, <2>8, <5>1
        <5> QED
          BY <4>3, <5>2 DEF Flows
      <4> QED
        BY <4>1, <4>2, <4>3 DEF Event
    <3>2. CASE v \in a
      BY <2>1, <2>3, <2>4, <2>8, <3>1, <3>2 DEF InBalance
    <3>3. CASE v \notin a
      <4>1. c <= d
        BY <2>4, <3>3
      <4> QED
        BY <2>1, <2>3, <2>8, <4>1 DEF InBalance
    <3> QED
      BY <3>2, <3>3
  <2> QED
    BY <2>6, <2>7, <2>8
<1> QED
  BY <1>1, <1>2, <1>3 DEF Balanced

\* The variables alive between two instructions of the code are among those of the set there.
Runs(alive) == IsPath(alive, {}, code, {}) /\ Balanced(trace, alive[pc])
FlowInv ==
  /\ OnceInv
  /\ trace \in Seq(Event) /\ (phase \in {"building", "compiling"} => trace = <<>>)
  /\ Calm /\ phase = "compiling" => Path({}, code, Live(scope_stack))
  /\ Calm /\ phase = "running" => \E alive : Runs(alive)

LEMMA SamePaths ==
  ASSUME UNCHANGED builderVars
  PROVE  /\ OnceInv' <=> OnceInv
         /\ Calm' <=> Calm
         /\ \A st2, q2 : st2 = scope_stack' /\ q2 = code' /\ Path({}, q2, Live(st2))
                           => Path({}, code, Live(scope_stack))'
         /\ \A f, q2 : q2 = code' /\ IsPath(f, {}, q2, {}) => IsPath(f, {}, code, {})'
<1>1. scopes' = scopes
  BY DEF builderVars
<1>2. ancestors' = ancestors
  BY <1>1 DEF ancestors
<1>3. OnceInv' <=> OnceInv
  BY <1>1 DEF OnceInv, ConstructedOnce, instructions
<1>4. Calm' <=> Calm
  BY <1>1, <1>2 DEF Calm, BreaksLeaveNothing, Has, InLoop, IsLoop, LeftByBreak, Variables, opener,
     instructions
<1>5. \A s, n : Built(s, n)' = Built(s, n)
  BY <1>1 DEF Built, instructions
<1>6. \A s : Around(s)' = Around(s)
  BY <1>1, <1>2, <1>5 DEF Around
<1>7. \A ins, a, b : Flows(ins, a, b)' <=> Flows(ins, a, b)
  BY <1>6 DEF Flows, AtLabel
<1>8. Safe' = Safe
  <2>1. current_size' = current_size
    BY <1>1 DEF current_size, Positions, instructions
  <2>2. Declarations' = Declarations
    BY <1>1 DEF Declarations, Variables, instructions
  <2>3. max_frame_size' = max_frame_size
    BY <2>1, <2>2 DEF max_frame_size
  <2>4. \A v : Bytes(v)' = Bytes(v)
    BY <2>1 DEF Bytes
  <2>5. \A a : Together(a)' <=> Together(a)
    BY <2>3, <2>4 DEF Together
  <2> QED
    BY <2>5 DEF Safe
<1>9. ASSUME NEW f, NEW q2, NEW b, q2 = code', IsPath(f, {}, q2, b)
      PROVE  IsPath(f, {}, code, b)'
  BY <1>7, <1>8, <1>9 DEF IsPath
<1>10. ASSUME NEW st2, NEW q2, st2 = scope_stack', q2 = code', Path({}, q2, Live(st2))
       PROVE  Path({}, code, Live(scope_stack))'
  <2>1. PICK b : b = Live(st2)
    OBVIOUS
  <2>2. Live(scope_stack)' = b
    BY <1>5, <1>10, <2>1 DEF Live
  <2>3. PICK f : IsPath(f, {}, q2, b)
    BY <1>10, <2>1 DEF Path
  <2>4. IsPath(f, {}, code, b)'
    BY <1>9, <1>10, <2>3
  <2>5. IsPath(f, {}, code, Live(scope_stack))'
    BY <2>2, <2>4 DEF IsPath
  <2> QED
    BY <2>5 DEF Path
<1> QED
  BY <1>3, <1>4, <1>9, <1>10

LEMMA InitFlow == Init => FlowInv
<1> SUFFICES ASSUME Init PROVE FlowInv
  OBVIOUS
<1>1. phase = "building" /\ trace = <<>>
  BY DEF Init, CompilerInit
<1>2. \A s \in DOMAIN scopes : DOMAIN instructions(s) = {}
  <2> DEFINE first == [parent_scope |-> 0, opener |-> 0, instructions |-> <<>>]
  <2>1. scopes = <<first>>
    BY DEF Init, BuilderInit
  <2>2. first.instructions = <<>>
    OBVIOUS
  <2> HIDE DEF first
  <2>3. DOMAIN scopes = {1} /\ scopes[1] = first
    BY <2>1
  <2> QED
    BY <2>2, <2>3 DEF instructions
<1>3. OnceInv
  BY <1>2 DEF OnceInv, ConstructedOnce
<1>4. trace \in Seq(Event)
  <2>1. <<>> \in Seq(Event)
    <3> HIDE DEF Event
    <3> QED
      OBVIOUS
  <2> QED
    BY <1>1, <2>1
<1> QED
  BY <1>1, <1>3, <1>4 DEF FlowInv

\* The code is complete when the stack of scopes is empty: a return jumps to its end, where
\* nothing is alive.
LEMMA FlowCompile ==
  ASSUME TypeInv, FlowInv, Compile, UNCHANGED runVars
  PROVE  FlowInv'
<1>1. /\ UNCHANGED builderVars /\ pc' = pc /\ trace' = trace
  BY DEF Compile, compile, Declare, Construct, Return, ScopeCreate, NotReported, If, Else,
         While, Break, EndScope, Epilogue, runVars
<1>2. phase \in {"building", "compiling"} /\ pc = 1
  BY DEF TypeInv, Compile, compile, Declare, Construct, Return, ScopeCreate, NotReported, If, Else,
         While, Break, EndScope, Epilogue, Visits, VisitsBranch
<1>3. trace' = <<>> /\ trace' \in Seq(Event) /\ OnceInv /\ OnceInv'
  BY <1>1, <1>2, SamePaths DEF FlowInv
<1> SUFFICES ASSUME Calm'
             PROVE  /\ phase' = "compiling" => Path({}, code, Live(scope_stack))'
                    /\ phase' = "running" => \E alive : Runs(alive)'
  BY <1>3 DEF FlowInv
<1>4. Calm
  BY <1>1, SamePaths
<1>5. BuilderType /\ TreeInv /\ StackInv(scope_stack) /\ code \in Seq(Emitted)
  BY DEF TypeInv
<1>6. PICK st2, q2 : st2 = scope_stack' /\ q2 = code'
  OBVIOUS
<1>7. /\ Live(<<>>) = {} /\ {} \in Safe /\ StackInv(<<>>)
  <2>1. DOMAIN <<>> = {}
    OBVIOUS
  <2>2. Live(<<>>) = {}
    BY <2>1 DEF Live
  <2>3. StackInv(<<>>)
    BY EmptyStacks
  <2> QED
    BY <1>3, <1>5, <2>2, <2>3, LiveSafe
<1>8. ASSUME Path({}, q2, Live(st2)) PROVE Path({}, code, Live(scope_stack))'
  BY <1>1, <1>6, <1>8, SamePaths
<1>9. CASE compile
  <2> DEFINE f == [scope |-> main, iterating |-> 0]
  <2>1. phase' = "compiling" /\ st2 = <<f>> /\ q2 = code /\ code = <<>>
    BY <1>6, <1>9 DEF compile, TypeInv
  <2>2. Live(st2) = {}
    <3>1. Built(main, 0) = {}
      BY <1>3, <1>5, BuiltAre DEF TreeInv
    <3>2. f.scope = main /\ f.iterating = 0
      OBVIOUS
    <3> HIDE DEF f
    <3>3. DOMAIN st2 = {1} /\ st2[1] = f
      BY <2>1
    <3> QED
      BY <3>1, <3>2, <3>3 DEF Live
  <2>3. Path({}, q2, Live(st2))
    BY <1>7, <2>1, <2>2, PathNone
  <2> QED
    BY <1>8, <2>1, <2>3
<1>10. CASE ~ compile
  <2>1. CompilingInv
    BY <1>10 DEF TypeInv, CompilingInv, Compile, Declare, Construct, Return, ScopeCreate,
       NotReported, If, Else, While, Break, EndScope, Epilogue, Visits, VisitsBranch
  <2>2. Path({}, code, Live(scope_stack))
    BY <1>4, <2>1 DEF FlowInv, CompilingInv
  <2>3. ASSUME phase' = phase, Path({}, q2, Live(st2))
        PROVE  /\ phase' = "compiling" => Path({}, code, Live(scope_stack))'
               /\ phase' = "running" => \E alive : Runs(alive)'
    <3>1. phase' = "compiling"
      BY <2>1, <2>3 DEF CompilingInv
    <3> QED
      BY <1>8, <2>3, <3>1
  <2>4. CASE Declare \/ Construct \/ Break
    <3>1. Path({}, code', Live(st2))
      BY <1>3, <1>4, <1>6, <2>1, <2>2, <2>4, PathContinues
    <3> QED
      BY <1>6, <2>3, <2>4, <3>1 DEF Declare, Construct, Break
  <2>5. CASE ScopeCreate \/ If \/ Else \/ While
    <3>1. Path({}, code', Live(st2))
      BY <1>3, <1>6, <2>1, <2>2, <2>5, PathOpens
    <3> QED
      BY <1>6, <2>3, <2>5, <3>1 DEF ScopeCreate, If, Else, While
  <2>6. CASE Return
    <3>1. Path({}, code', Live(st2))
      BY <1>3, <1>6, <2>1, <2>2, <2>6, PathReturns
    <3> QED
      BY <1>6, <2>3, <2>6, <3>1 DEF Return
  <2>7. CASE EndScope
    <3>1. Path({}, code', Live(st2))
      BY <1>3, <1>6, <2>1, <2>2, <2>7, PathEnds
    <3> QED
      BY <1>6, <2>3, <2>7, <3>1 DEF EndScope
  <2>8. CASE NotReported
    BY <2>8 DEF NotReported
  <2>9. CASE Epilogue
    <3> DEFINE x == <<"bind", exit_label>>
    <3>1. phase' = "running" /\ q2 = code \o <<x>> /\ scope_stack = <<>>
      BY <1>6, <2>9 DEF Epilogue
    <3>2. Path({}, code, {})
      BY <1>7, <2>2, <3>1
    <3>3. x \in Emitted /\ Flows(x, {}, {})
      BY EmittedIs, FlowsBind, LabelsAround
    <3> HIDE DEF x
    <3>4. <<x>> \in Seq(Emitted) /\ Path({}, <<x>>, {})
      BY <1>7, <3>3, OneEmitted, PathOne
    <3>5. Path({}, q2, {})
      BY <1>5, <3>1, <3>2, <3>4, PathGrows
    <3>6. PICK alive : IsPath(alive, {}, q2, {})
      BY <3>5 DEF Path
    <3>7. IsPath(alive, {}, code, {})'
      BY <1>1, <1>6, <3>6, SamePaths
    <3>8. Balanced(<<>>, {})
      <4>1. ASSUME NEW v \in Nat \X Nat PROVE InBalance(<<>>, {}, v)
        <5>1. \A e : { k \in DOMAIN <<>> : <<>>[k] = e } = {}
          OBVIOUS
        <5>2. \A e : Count(<<>>, e) = 0
          BY <5>1, FS_EmptySet DEF Count
        <5>3. Count(<<>>, <<"construct", v>>) = 0 /\ Count(<<>>, <<"destruct", v>>) = 0
          BY <5>2
        <5> QED
          BY <5>3 DEF InBalance
      <4> QED
        BY <4>1 DEF Balanced
    <3>9. Balanced(<<>>, alive[1])
      <4>1. <<>> \in Seq(Event)
        BY <1>3
      <4> QED
        BY <3>8, <4>1, BalancedMore
    <3>10. Balanced(trace', alive[pc'])
      <4>1. trace' = <<>> /\ pc' = 1
        BY <1>1, <1>2, <1>3
      <4> QED
        BY <3>9, <4>1
    <3>11. Runs(alive)'
      BY <3>7, <3>10 DEF Runs
    <3> QED
      BY <3>1, <3>11
  <2> QED
    BY <1>10, <2>4, <2>5, <2>6, <2>7, <2>8, <2>9 DEF Compile
<1> QED
  BY <1>9, <1>10

\* Each instruction of the code leads to a place where no more is alive than may be.
LEMMA FlowExecute ==
  ASSUME TypeInv, FlowInv, Execute, UNCHANGED <<builderVars, scope_stack, loop_stack, code>>
  PROVE  FlowInv'
<1>1. phase = "running" /\ phase' \in {"running", "lost"}
  BY DEF Execute, Call, Label, Eval, JumpIf, JumpAlways, At, Advance, Jump
<1>2. PICK n \in Nat : n = Len(code) /\ DOMAIN code = 1 .. n
  <2>1. code \in Seq(Emitted)
    BY DEF TypeInv
  <2> HIDE DEF Emitted
  <2> QED
    BY <2>1
<1>3. PICK k \in 1 .. n : k = pc
  <2>1. pc <= Len(code) /\ pc \in 1 .. Len(code) + 1
    BY DEF TypeInv, Execute, Call, Label, Eval, JumpIf, JumpAlways, At
  <2> QED
    BY <1>2, <2>1
<1>4. PICK ins \in Emitted : ins = code[k]
  <2>1. code \in Seq(Emitted)
    BY DEF TypeInv
  <2>2. code[k] \in Emitted
    <3> HIDE DEF Emitted
    <3> QED
      BY <1>2, <2>1
  <2> QED
    BY <2>2
<1>5. ins[1] \in {"construct", "destruct", "eval"} => ins \in Event
  <2>1. DOMAIN scopes \subseteq Nat
    BY ScopeTyped DEF TypeInv, BuilderType
  <2> QED
    BY <2>1 DEF Emitted, Jumping, Event
<1>6. \/ trace' = trace
      \/ trace' = Append(trace, ins) /\ ins[1] \in {"construct", "destruct", "eval"}
  BY <1>3, <1>4 DEF Execute, Call, Label, Eval, JumpIf, JumpAlways, At
<1>7. trace' \in Seq(Event) /\ trace \in Seq(Event)
  BY <1>5, <1>6, Counted DEF FlowInv
<1>8. OnceInv'
  BY SamePaths DEF FlowInv
<1> SUFFICES ASSUME Calm', phase' = "running" PROVE \E alive : Runs(alive)'
  BY <1>1, <1>7, <1>8 DEF FlowInv
<1>9. Calm
  BY SamePaths
<1>10. PICK alive : Runs(alive)
  BY <1>1, <1>9 DEF FlowInv
<1>11. /\ alive \in [1 .. n + 1 -> Safe]
       /\ \A j \in 1 .. n : Flows(code[j], alive[j], alive[j + 1])
       /\ Balanced(trace, alive[k])
  BY <1>2, <1>3, <1>10 DEF Runs, IsPath
<1>12. Flows(ins, alive[k], alive[k + 1])
  BY <1>4, <1>11
<1>13. ASSUME ins[1] \in {"construct", "destruct", "eval"}, trace' = Append(trace, ins), Advance
       PROVE  Balanced(trace', alive[pc'])
  <2>1. pc' = k + 1
    BY <1>3, <1>13 DEF Advance
  <2>2. PICK a, b, t : a = alive[k] /\ b = alive[k + 1] /\ t = trace
    OBVIOUS
  <2>3. Balanced(Append(t, ins), b)
    BY <1>5, <1>7, <1>11, <1>12, <1>13, <2>2, BalancedCall
  <2> QED
    BY <1>13, <2>1, <2>2, <2>3
<1>14. ASSUME NEW j \in Nat, pc' = j, trace' = trace, alive[k] \subseteq alive[j]
       PROVE  Balanced(trace', alive[pc'])
  <2>1. PICK a, b, t : a = alive[k] /\ b = alive[j] /\ t = trace
    OBVIOUS
  <2>2. Balanced(t, b)
    BY <1>7, <1>11, <1>14, <2>1, BalancedMore
  <2> QED
    BY <1>14, <2>1, <2>2
<1>15. ASSUME Advance, trace' = trace, ins[1] \in {"bind", "je", "jne"}
       PROVE  Balanced(trace', alive[pc'])
  <2>1. pc' = k + 1 /\ k + 1 \in Nat
    BY <1>3, <1>15 DEF Advance
  <2>2. alive[k] \subseteq alive[k + 1]
    BY <1>12, <1>15 DEF Flows
  <2> QED
    BY <1>14, <1>15, <2>1, <2>2
<1>16. ASSUME Jump(operand), trace' = trace, ins[1] \in {"je", "jne", "jmp"}
       PROVE  Balanced(trace', alive[pc'])
  <2>1. operand = ins[2]
    BY <1>3, <1>4 DEF operand
  <2>2. PICK j \in DOMAIN code : pc' = j /\ code[j] = <<"bind", ins[2]>>
    BY <1>1, <1>16, <2>1 DEF Jump
  <2>3. j \in Nat /\ j \in 1 .. n
    BY <1>2
  <2>4. AtLabel(ins[2]) \subseteq alive[j]
    <3>1. Flows(code[j], alive[j], alive[j + 1])
      BY <1>11, <2>3
    <3> QED
      BY <2>2, <3>1 DEF Flows
  <2>5. alive[k] \subseteq AtLabel(ins[2])
    BY <1>12, <1>16 DEF Flows
  <2>6. alive[k] \subseteq alive[j]
    BY <2>4, <2>5
  <2> QED
    BY <1>14, <1>16, <2>2, <2>3, <2>6
<1>17. Balanced(trace', alive[pc'])
  <2>1. CASE Call
    <3>1. ins[1] \in {"construct", "destruct"} /\ trace' = Append(trace, ins) /\ Advance
      BY <1>3, <1>4, <2>1 DEF Call, At
    <3> QED
      BY <1>13, <3>1
  <2>2. CASE Eval
    <3>1. ins[1] = "eval" /\ trace' = Append(trace, ins) /\ Advance
      BY <1>3, <1>4, <2>2 DEF Eval, At
    <3> QED
      BY <1>13, <3>1
  <2>3. CASE Label
    <3>1. ins[1] = "bind" /\ trace' = trace /\ Advance
      BY <1>3, <1>4, <2>3 DEF Label, At
    <3> QED
      BY <1>15, <3>1
  <2>4. CASE JumpIf
    <3>1. ins[1] \in {"je", "jne"} /\ trace' = trace /\ (Jump(operand) \/ Advance)
      BY <1>3, <1>4, <2>4 DEF JumpIf, At
    <3> QED
      BY <1>15, <1>16, <3>1
  <2>5. CASE JumpAlways
    <3>1. ins[1] = "jmp" /\ trace' = trace /\ Jump(operand)
      BY <1>3, <1>4, <2>5 DEF JumpAlways, At
    <3> QED
      BY <1>16, <3>1
  <2> QED
    BY <2>1, <2>2, <2>3, <2>4, <2>5 DEF Execute
<1>18. IsPath(alive, {}, code, {})'
  <2>1. PICK q2 : q2 = code'
    OBVIOUS
  <2>2. IsPath(alive, {}, q2, {})
    BY <1>10, <2>1 DEF Runs
  <2> QED
    BY <2>1, <2>2, SamePaths
<1>19. Runs(alive)'
  BY <1>17, <1>18 DEF Runs
<1> QED
  BY <1>19

\* The steps that do not run the code leave what is alive.
LEMMA FlowKeeps ==
  ASSUME FlowInv, UNCHANGED <<builderVars, scope_stack, loop_stack, code>>,
         pc' = pc, trace' = trace, phase' = phase \/ phase' = "returned"
  PROVE  FlowInv'
<1>1. UNCHANGED builderVars
  OBVIOUS
<1>2. OnceInv' /\ trace' \in Seq(Event) /\ (Calm' => Calm)
  BY <1>1, SamePaths DEF FlowInv
<1>3. phase' \in {"building", "compiling"} => trace' = <<>>
  BY DEF FlowInv
<1>4. PICK st2, q2 : st2 = scope_stack' /\ q2 = code'
  OBVIOUS
<1>5. ASSUME Calm', phase' = "compiling" PROVE Path({}, code, Live(scope_stack))'
  <2>1. Path({}, q2, Live(st2))
    BY <1>2, <1>4, <1>5 DEF FlowInv
  <2> QED
    BY <1>1, <1>4, <2>1, SamePaths
<1>6. ASSUME Calm', phase' = "running" PROVE \E alive : Runs(alive)'
  <2>1. PICK alive : Runs(alive)
    BY <1>2, <1>6 DEF FlowInv
  <2>2. IsPath(alive, {}, q2, {}) /\ Balanced(trace, alive[pc])
    BY <1>4, <2>1 DEF Runs
  <2>3. IsPath(alive, {}, code, {})'
    BY <1>1, <1>4, <2>2, SamePaths
  <2>4. Runs(alive)'
    BY <2>2, <2>3 DEF Runs
  <2> QED
    BY <2>4
<1> QED
  BY <1>2, <1>3, <1>5, <1>6 DEF FlowInv

LEMMA FlowNext == TypeInv /\ FlowInv /\ [Next]_vars => FlowInv'
<1> SUFFICES ASSUME TypeInv, FlowInv, [Next]_vars PROVE FlowInv'
  OBVIOUS
<1>1. CASE phase = "building" /\ Build /\ UNCHANGED <<compilerVars, runVars>>
  <2>1. phase' = "building" /\ trace' = trace
    BY <1>1 DEF compilerVars, runVars
  <2>2. OnceInv'
    BY <1>1, OnceBuild DEF FlowInv, TypeInv
  <2>3. trace' \in Seq(Event) /\ trace' = <<>>
    BY <1>1, <2>1 DEF FlowInv
  <2> QED
    BY <2>1, <2>2, <2>3 DEF FlowInv
<1>2. CASE Compile /\ UNCHANGED runVars
  BY <1>2, FlowCompile
<1>3. CASE Execute /\ UNCHANGED <<builderVars, scope_stack, loop_stack, code>>
  BY <1>3, FlowExecute
<1>4. CASE Leave /\ UNCHANGED <<builderVars, scope_stack, loop_stack, code>>
  <2>1. phase' = "returned" /\ pc' = pc /\ trace' = trace
    BY <1>4 DEF Leave, runVars
  <2> QED
    BY <1>4, <2>1, FlowKeeps
<1>5. CASE UNCHANGED vars
  <2>1. /\ UNCHANGED <<builderVars, scope_stack, loop_stack, code>>
        /\ phase' = phase /\ pc' = pc /\ trace' = trace
    BY <1>5 DEF vars, compilerVars, runVars
  <2> QED
    BY <2>1, FlowKeeps
<1> QED
  BY <1>1, <1>2, <1>3, <1>4, <1>5 DEF Next

\* For each instruction of the compiled code there is a set of variables, no two of which share
\* a byte, that holds what is alive there whatever way the run came: a variable is constructed
\* where it is not alive, and destroyed on every way out of its scope, as long as a break leaves
\* behind no scope in which variables were declared.
THEOREM FlowHolds == Spec => []FlowInv
<1>1. Init => FlowInv
  BY InitFlow
<1>2. TypeInv /\ FlowInv /\ [Next]_vars => FlowInv'
  BY FlowNext
<1> QED
  BY <1>1, <1>2, TypesHold, PTL DEF Spec

\* Variables alive at the same time share no byte of the frame create_frame_report lays out,
\* leave the pointer to the arguments alone and lie above the stack pointer (SlotsDisjoint of
\* CompiledCode.tla), whatever the sizes of the types and however the scopes are nested.
THEOREM SlotsAreDisjoint == Spec => []SlotsDisjoint
<1>1. TypeInv /\ FlowInv => SlotsDisjoint
  <2> SUFFICES ASSUME TypeInv, FlowInv, Regular, phase = "running"
               PROVE  \A v \in Alive :
                        /\ Bytes(v) \subseteq stack_reserve + 1 .. max_frame_size
                        /\ \A w \in Alive \ {v} : Bytes(v) \cap Bytes(w) = {}
    BY DEF SlotsDisjoint
  <2>1. Calm
    BY DEF Regular, Calm
  <2>2. PICK alive : Runs(alive)
    BY <2>1 DEF FlowInv
  <2>3. alive[pc] \in Safe
    <3>1. alive \in [1 .. Len(code) + 1 -> Safe] /\ pc \in 1 .. Len(code) + 1
      BY <2>2 DEF Runs, IsPath, TypeInv
    <3> QED
      BY <3>1
  <2>4. ASSUME NEW v \in Alive PROVE v \in alive[pc]
    <3>1. v \in Nat \X Nat
      <4>1. PICK s \in DOMAIN scopes : v \in ToSet(Variables(s, Len(instructions(s))))
        BY DEF Alive, Declarations
      <4>2. Len(instructions(s)) \in Nat
        BY ScopeTyped DEF TypeInv, BuilderType
      <4>3. Variables(s, Len(instructions(s))) \in Seq(Nat \X Nat)
        BY <4>2, VariablesAre DEF TypeInv
      <4> QED
        BY <4>1, <4>3 DEF ToSet
    <3>2. PICK c, d : c = Count(trace, <<"construct", v>>) /\ d = Count(trace, <<"destruct", v>>)
      OBVIOUS
    <3>3. c \in Nat /\ d \in Nat
      <4>1. trace \in Seq(Event)
        BY DEF FlowInv
      <4>2. PICK x \in Event : x = <<"construct", v>>
        BY <3>1 DEF Event
      <4> QED
        BY <3>2, <4>1, <4>2, Counted
    <3>4. c > d
      BY <3>2 DEF Alive, Happened, Count
    <3>5. InBalance(trace, alive[pc], v)
      BY <2>2, <3>1 DEF Runs, Balanced
    <3>6. c <= d + (IF v \in alive[pc] THEN 1 ELSE 0)
      BY <3>2, <3>5 DEF InBalance
    <3> QED
      BY <3>3, <3>4, <3>6
  <2>5. Together(alive[pc])
    BY <2>3 DEF Safe
  <2> QED
    BY <2>4, <2>5 DEF Together
<1> QED
  BY <1>1, TypesHold, FlowHolds, PTL

\* Every variable constructed has been destroyed when the function returns.
LeavesNothing == Calm /\ phase = "returned" => Balanced(trace, {})

LEMMA LeavesNext == TypeInv /\ FlowInv /\ LeavesNothing /\ [Next]_vars => LeavesNothing'
<1> SUFFICES ASSUME TypeInv, FlowInv, LeavesNothing, [Next]_vars, Calm', phase' = "returned"
             PROVE  Balanced(trace', {})
  BY DEF LeavesNothing
<1>1. CASE phase = "building" /\ Build /\ UNCHANGED <<compilerVars, runVars>>
  BY <1>1 DEF compilerVars
<1>2. CASE Compile /\ UNCHANGED runVars
  BY <1>2 DEF Compile, compile, Declare, Construct, Return, ScopeCreate, NotReported, If, Else,
     While, Break, EndScope, Epilogue, Visits, VisitsBranch
<1>3. CASE Execute /\ UNCHANGED <<builderVars, scope_stack, loop_stack, code>>
  BY <1>3 DEF Execute, Call, Label, Eval, JumpIf, JumpAlways, At, Advance, Jump
<1>4. CASE Leave /\ UNCHANGED <<builderVars, scope_stack, loop_stack, code>>
  <2>1. phase = "running" /\ pc > Len(code) /\ trace' = trace
    BY <1>4 DEF Leave, runVars
  <2>2. Calm
    BY <1>4, SamePaths
  <2>3. PICK alive : Runs(alive)
    BY <2>1, <2>2 DEF FlowInv
  <2>4. pc = Len(code) + 1
    <3>1. code \in Seq(Emitted) /\ pc \in 1 .. Len(code) + 1
      BY DEF TypeInv
    <3>2. Len(code) \in Nat
      <4> HIDE DEF Emitted
      <4> QED
        BY <3>1
    <3> QED
      BY <2>1, <3>1, <3>2
  <2>5. alive[pc] \subseteq {}
    BY <2>3, <2>4 DEF Runs, IsPath
  <2>6. PICK a, t : a = alive[pc] /\ t = trace
    OBVIOUS
  <2>7. Balanced(t, a) /\ t \in Seq(Event)
    BY <2>3, <2>6 DEF Runs, FlowInv
  <2>8. Balanced(t, {})
    BY <2>5, <2>6, <2>7, BalancedMore
  <2> QED
    BY <2>1, <2>6, <2>8
<1>5. CASE UNCHANGED vars
  <2>1. UNCHANGED builderVars /\ phase' = phase /\ trace' = trace
    BY <1>5 DEF vars, compilerVars, runVars
  <2>2. Calm
    BY <2>1, SamePaths
  <2> QED
    BY <2>1, <2>2 DEF LeavesNothing
<1> QED
  BY <1>1, <1>2, <1>3, <1>4, <1>5 DEF Next

\* The code calls the destructor of every variable it has constructed before it returns, on
\* whatever way it leaves the scopes: at their end, by return (AllDestructors) or by break.
THEOREM NothingIsLeft == Spec => []LeavesNothing
<1>1. Init => LeavesNothing
  BY DEF Init, CompilerInit, LeavesNothing
<1>2. TypeInv /\ FlowInv /\ LeavesNothing /\ [Next]_vars => LeavesNothing'
  BY LeavesNext
<1> QED
  BY <1>1, <1>2, TypesHold, FlowHolds, PTL DEF Spec
=============================================================================
