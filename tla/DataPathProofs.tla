--------------------------- MODULE DataPathProofs ---------------------------
(***************************************************************************)
(* What the builder's instructions evaluate, for every function, every     *)
(* size of types and all values: first what the emitted code computes,     *)
(* for integers of any width and floating point types, then the variables  *)
(* and conditions of a function.  Then calls: where the arguments of any   *)
(* signature lie, by the sums of their sizes, what a call keeps of its     *)
(* space as long as the register that walks it is sure, and the function   *)
(* with the calls it makes.                                                *)
(***************************************************************************)
EXTENDS DataPath, FiniteSetTheorems, FunctionTheorems, SequenceTheorems, TLAPS

-----------------------------------------------------------------------------
(* Induction, and recursive functions.  That a function defined by         *)
(* recursion exists has to be shown: only then does the CHOOSE behind the  *)
(* definition of one say anything about its values.                        *)

\* If S left out k, adding 1 would map its members below k into themselves
\* without 0, which are fewer.
LEMMA Induction ==
  ASSUME NEW S, 0 \in S, \A n \in Nat : n \in S => n + 1 \in S
  PROVE  Nat \subseteq S
<1> SUFFICES ASSUME NEW k \in Nat, k \notin S PROVE FALSE
  OBVIOUS
<1> DEFINE A == (0 .. k) \cap S
           B == A \ {0}
           f == [i \in A |-> i + 1]
<1>1. IsFiniteSet(A)
  <2>1. IsFiniteSet(0 .. k)
    BY FS_Interval
  <2> QED
    BY <2>1, FS_Subset
<1>2. IsFiniteSet(B) /\ Cardinality(B) = Cardinality(A) - 1
  <2>1. 0 \in A
    OBVIOUS
  <2> HIDE DEF A
  <2> QED
    BY <1>1, <2>1, FS_RemoveElement
<1>3. \A i \in A : i + 1 \in B
  OBVIOUS
<1>4. f \in Injection(A, B)
  BY <1>3 DEF Injection, IsInjective
<1> HIDE DEF A, B, f
<1>5. Cardinality(A) <= Cardinality(B)
  BY <1>2, <1>4, FS_Injection
<1>6. Cardinality(A) \in Nat
  BY <1>1, FS_CardinalityType
<1> QED
  BY <1>2, <1>5, <1>6

\* f takes s to out[s], or to what step[s] makes of the value at the next of s.
Unfolds(f, S, done, out, next, step) ==
  f = [s \in S |-> IF s \in done THEN out[s] ELSE step[s][f[next[s]]]]

\* A function that is given by its value at something smaller exists: on what is smaller
\* than n it exists for every n, and where two of these meet they agree.
LEMMA Unfolding ==
  ASSUME NEW S, NEW size \in [S -> Nat], NEW done, NEW out, NEW next, NEW step,
         \A s \in S : s \notin done => next[s] \in S /\ size[next[s]] < size[s]
  PROVE  \E f : Unfolds(f, S, done, out, next, step)
<1> DEFINE Under(n) == { s \in S : size[s] < n }
           Solves(n, g) == \A s \in Under(n) :
                             g[s] = IF s \in done THEN out[s] ELSE step[s][g[next[s]]]
           Solved == { n \in Nat : \E g : Solves(n, g) }
<1>1. Nat \subseteq Solved
  <2>1. 0 \in Solved
    <3>1. Solves(0, out)
      OBVIOUS
    <3> QED
      BY <3>1
  <2>2. ASSUME NEW n \in Nat, n \in Solved PROVE n + 1 \in Solved
    <3>1. PICK g : Solves(n, g)
      BY <2>2
    <3> DEFINE h == [s \in S |-> IF s \in done THEN out[s] ELSE step[s][g[next[s]]]]
    <3>2. ASSUME NEW s \in Under(n + 1), s \notin done PROVE h[s] = step[s][h[next[s]]]
      <4>1. s \in S /\ next[s] \in S /\ next[s] \in Under(n) /\ h[s] = step[s][g[next[s]]]
        BY <3>2
      <4>2. g[next[s]] = IF next[s] \in done THEN out[next[s]]
                        ELSE step[next[s]][g[next[next[s]]]]
        BY <3>1, <4>1
      <4> QED
        BY <4>1, <4>2
    <3>3. \A s \in Under(n + 1) : s \in done => h[s] = out[s]
      OBVIOUS
    <3>4. Solves(n + 1, h)
      BY <3>2, <3>3
    <3> HIDE DEF h, Solves
    <3> QED
      BY <3>4
  <2> HIDE DEF Solved
  <2> QED
    BY <2>1, <2>2, Induction
<1> DEFINE Agreeing == { n \in Nat : \A i, j \in Nat : \A g, h : Solves(i, g) /\ Solves(j, h) =>
                           \A s \in Under(n) : s \in Under(i) /\ s \in Under(j) => g[s] = h[s] }
<1>2. Nat \subseteq Agreeing
  <2>1. 0 \in Agreeing
    OBVIOUS
  <2>2. ASSUME NEW n \in Nat, n \in Agreeing PROVE n + 1 \in Agreeing
    <3> SUFFICES ASSUME NEW i \in Nat, NEW j \in Nat, NEW g, NEW h, Solves(i, g), Solves(j, h),
                        NEW s \in Under(n + 1), s \in Under(i), s \in Under(j)
                 PROVE  g[s] = h[s]
      OBVIOUS
    <3>1. CASE s \in done
      BY <3>1
    <3>2. CASE s \notin done
      <4>1. next[s] \in Under(n) /\ next[s] \in Under(i) /\ next[s] \in Under(j)
        BY <3>2
      <4>2. g[next[s]] = h[next[s]]
        BY <2>2, <4>1
      <4> QED
        BY <3>2, <4>2
    <3> QED
      BY <3>1, <3>2
  <2> HIDE DEF Agreeing
  <2> QED
    BY <2>1, <2>2, Induction
<1> DEFINE part(n) == CHOOSE g : Solves(n, g)
           f == [s \in S |-> part(size[s] + 1)[s]]
<1>3. \A n \in Nat : Solves(n, part(n))
  BY <1>1
<1>4. ASSUME NEW s \in S, s \notin done PROVE f[s] = step[s][f[next[s]]]
  <2> DEFINE n == size[s] + 1
             k == size[next[s]] + 1
  <2>1. n \in Nat /\ k \in Nat /\ next[s] \in S /\ size[next[s]] \in Nat /\ size[s] \in Nat
    BY <1>4
  <2>2. s \in Under(n) /\ next[s] \in Under(n) /\ next[s] \in Under(k)
    BY <1>4, <2>1
  <2>3. Solves(n, part(n)) /\ Solves(k, part(k))
    BY <1>3, <2>1
  <2>4. part(n)[s] = step[s][part(n)[next[s]]]
    BY <1>4, <2>2, <2>3
  <2>5. k \in Agreeing
    BY <1>2, <2>1
  <2>6. part(n)[next[s]] = part(k)[next[s]]
    <3> HIDE DEF part, Solves, Under, n, k
    <3> QED
      BY <2>1, <2>2, <2>3, <2>5
  <2>7. f[s] = part(n)[s] /\ f[next[s]] = part(k)[next[s]]
    BY <2>1
  <2> HIDE DEF part, f, n, k
  <2> QED
    BY <2>4, <2>6, <2>7
<1>5. ASSUME NEW s \in S, s \in done PROVE f[s] = out[s]
  <2>1. size[s] + 1 \in Nat /\ s \in Under(size[s] + 1)
    OBVIOUS
  <2>2. Solves(size[s] + 1, part(size[s] + 1))
    BY <1>3, <2>1
  <2> QED
    BY <1>5, <2>1, <2>2
<1> HIDE DEF part
<1>6. f = [s \in S |-> f[s]]
  OBVIOUS
<1>7. f = [s \in S |-> IF s \in done THEN out[s] ELSE step[s][f[next[s]]]]
  BY <1>4, <1>5
<1> HIDE DEF f
<1> QED
  BY <1>7 DEF Unfolds

-----------------------------------------------------------------------------
(* What the emitted code computes.                                         *)

\* A remainder is the only number in its range that differs by a multiple.
LEMMA RemainderUnique ==
  ASSUME NEW m \in Nat \ {0}, NEW q \in Int, NEW p \in Int,
         NEW r \in 0 .. m - 1, NEW t \in 0 .. m - 1,
         m * q + r = m * p + t
  PROVE  r = t
<1>1. m * (q - p) = t - r
  OBVIOUS
<1>2. CASE q > p
  <2>1. m * (q - p) >= m
    BY <1>2
  <2> QED BY <1>1, <2>1
<1>3. CASE q < p
  <2>1. m * (p - q) >= m
    BY <1>3
  <2>2. m * (q - p) = -(m * (p - q))
    OBVIOUS
  <2> QED BY <1>1, <2>1, <2>2
<1>4. CASE q = p
  BY <1>4
<1> QED BY <1>2, <1>3, <1>4

LEMMA Division ==
  ASSUME NEW m \in Nat \ {0}, NEW a \in Int
  PROVE  /\ a \div m \in Int /\ a % m \in 0 .. m - 1
         /\ a = m * (a \div m) + (a % m)
  OBVIOUS

\* Adding a multiple of the modulus changes nothing.
LEMMA ModuloShift ==
  ASSUME NEW m \in Nat \ {0}, NEW a \in Int, NEW k \in Int
  PROVE  (a + m * k) % m = a % m
<1> DEFINE b == a + m * k
<1>1. b \in Int
  OBVIOUS
<1>2. b = m * (b \div m) + (b % m) /\ b \div m \in Int /\ b % m \in 0 .. m - 1
  BY <1>1, Division
<1>3. a = m * (a \div m) + (a % m) /\ a \div m \in Int /\ a % m \in 0 .. m - 1
  BY Division
<1>4. m * (a \div m) + m * k = m * ((a \div m) + k)
  BY <1>3
<1>5. m * (b \div m) + (b % m) = m * ((a \div m) + k) + (a % m)
  BY <1>2, <1>3, <1>4
<1>6. (a \div m) + k \in Int
  BY <1>3
<1> HIDE DEF b
<1>7. b % m = a % m
  BY <1>2, <1>3, <1>5, <1>6, RemainderUnique
<1> QED BY <1>7 DEF b

LEMMA ModuloSmall ==
  ASSUME NEW m \in Nat \ {0}, NEW a \in 0 .. m - 1
  PROVE  a % m = a
  OBVIOUS

LEMMA Sizes ==
  ASSUME NEW s \in Size
  PROVE  half[s] \in Nat \ {0} /\ modulus(s) \in Nat \ {0} /\ modulus(s) = 2 * half[s]
  BY SizesAssumption DEF modulus

\* The signed reading of a register differs from the unsigned by a multiple of the modulus.
LEMMA SignedReading ==
  ASSUME NEW s \in Size, NEW x \in 0 .. modulus(s) - 1
  PROVE  /\ Signed(s, x) \in -half[s] .. half[s] - 1
         /\ \E k \in {0, -1} : Signed(s, x) = x + modulus(s) * k
  BY Sizes DEF Signed

LEMMA Difference ==
  ASSUME NEW m \in Nat \ {0}, NEW x \in 0 .. m - 1, NEW y \in 0 .. m - 1
  PROVE  (x - y) % m = IF x >= y THEN x - y ELSE x - y + m
<1>1. CASE x >= y
  <2>1. x - y \in 0 .. m - 1
    BY <1>1
  <2> QED BY <1>1, <2>1, ModuloSmall
<1>2. CASE x < y
  <2>1. x - y + m \in 0 .. m - 1 /\ x - y \in Int
    BY <1>2
  <2> DEFINE a == x - y
  <2>2. \A k \in Int : (a + m * k) % m = a % m
    BY <2>1, ModuloShift
  <2>3. (a + m * 1) % m = a % m /\ a + m * 1 = x - y + m
    BY <2>2
  <2> QED BY <1>2, <2>1, <2>2, <2>3, ModuloSmall
<1> QED BY <1>1, <1>2

\* What each condition looks at.
LEMMA Conditions ==
  ASSUME NEW f
  PROVE  /\ set("e", f) <=> f.ZF
         /\ set("ne", f) <=> ~ f.ZF
         /\ set("a", f) <=> ~ f.CF /\ ~ f.ZF
         /\ set("nb", f) <=> ~ f.CF
         /\ set("b", f) <=> f.CF
         /\ set("na", f) <=> f.CF \/ f.ZF
         /\ set("g", f) <=> ~ f.ZF /\ f.SF = f.OF
         /\ set("ge", f) <=> f.SF = f.OF
         /\ set("l", f) <=> f.SF # f.OF
         /\ set("le", f) <=> f.ZF \/ f.SF # f.OF
  BY DEF set

\* The conditions set from the flags of cmp are the orders of the readings, each of
\* its own: above and below of the unsigned, greater and less of the signed one.
LEMMA UnsignedFlags ==
  ASSUME NEW s \in Size, NEW x \in 0 .. modulus(s) - 1, NEW y \in 0 .. modulus(s) - 1
  PROVE  /\ set("e", cmp(s, x, y)) <=> x = y
         /\ set("ne", cmp(s, x, y)) <=> x # y
         /\ set("a", cmp(s, x, y)) <=> x > y
         /\ set("nb", cmp(s, x, y)) <=> x >= y
         /\ set("b", cmp(s, x, y)) <=> x < y
         /\ set("na", cmp(s, x, y)) <=> x <= y
<1> DEFINE f == cmp(s, x, y)
           d == (x - y) % modulus(s)
<1>1. d = 0 <=> x = y
  <2>1. d = IF x >= y THEN x - y ELSE x - y + modulus(s)
    BY Sizes, Difference
  <2> QED BY <2>1, Sizes
<1>2. f.ZF = (d = 0) /\ f.CF = (x < y)
  BY DEF cmp
<1>3. (f.ZF <=> x = y) /\ (f.CF <=> x < y)
  BY <1>1, <1>2
<1> HIDE DEF f, d
<1>4. /\ set("e", f) <=> x = y
      /\ set("ne", f) <=> x # y
      /\ set("a", f) <=> x > y
      /\ set("nb", f) <=> x >= y
      /\ set("b", f) <=> x < y
      /\ set("na", f) <=> x <= y
  BY <1>3, Sizes, Conditions
<1> QED BY <1>4 DEF f

LEMMA SignedFlags ==
  ASSUME NEW s \in Size, NEW x \in 0 .. modulus(s) - 1, NEW y \in 0 .. modulus(s) - 1
  PROVE  LET a == Signed(s, x)
             b == Signed(s, y)
         IN  /\ set("g", cmp(s, x, y)) <=> a > b
             /\ set("ge", cmp(s, x, y)) <=> a >= b
             /\ set("l", cmp(s, x, y)) <=> a < b
             /\ set("le", cmp(s, x, y)) <=> a <= b
             /\ x = y <=> a = b
<1> DEFINE f == cmp(s, x, y)
           a == Signed(s, x)
           b == Signed(s, y)
           d == (x - y) % modulus(s)
<1>1. d = IF x >= y THEN x - y ELSE x - y + modulus(s)
  BY Sizes, Difference
<1>2. /\ f.ZF = (d = 0)
      /\ f.SF = (d >= half[s])
      /\ f.OF = (a - b # Signed(s, d))
  BY DEF cmp
<1>3. d \in 0 .. modulus(s) - 1
  BY <1>1, Sizes
<1>4. a \in Int /\ b \in Int /\ (x = y <=> a = b) /\ (d = 0 <=> x = y)
  BY <1>1, Sizes DEF Signed
<1> HIDE DEF d
<1>5. ((d >= half[s]) <=> (a - b # Signed(s, d))) <=> a >= b
  BY <1>1, <1>3, Sizes DEF Signed
<1> HIDE DEF f, a, b
<1>6. (f.SF = f.OF) <=> a >= b
  BY <1>2, <1>5
<1>7. f.ZF <=> a = b
  BY <1>2, <1>4
<1>8. /\ set("g", f) <=> a > b
      /\ set("ge", f) <=> a >= b
      /\ set("l", f) <=> a < b
      /\ set("le", f) <=> a <= b
  BY <1>4, <1>6, <1>7, Conditions
<1> QED BY <1>4, <1>8 DEF f, a, b

\* The comparisons of integers: when the type is known to be signed, or unsigned,
\* or the comparison is for equality, the truth value is the one of C++.
LEMMA IntegerComparisons ==
  ASSUME NEW op \in Comparison, NEW ty \in Type,
         ty.kind \in Integer \cup {"bool"}, ty.size \in Size,
         NEW x \in Values(ty), NEW y \in Values(ty), Regular(op, ty, x, y)
  PROVE  integer_comparison(op, ty, x, y) <=> MeantComparison(op, ty, x, y)
<1> DEFINE s == ty.size
<1>1. x \in 0 .. modulus(s) - 1 /\ y \in 0 .. modulus(s) - 1 /\ ~ is_floating_point(ty)
  BY DEF Values, is_floating_point, Integer
<1>2. MeantComparison(op, ty, x, y) <=> Holds(op, Number(ty, x), Number(ty, y))
  BY <1>1 DEF MeantComparison
<1>3. x \in Int /\ y \in Int
  BY <1>1
<1>4. CASE ty.kind = "signed"
  <2>1. Number(ty, x) = Signed(s, x) /\ Number(ty, y) = Signed(s, y)
    BY <1>4 DEF Number
  <2>2. integer_comparison(op, ty, x, y) <=> set(SignedCondition[op], cmp(s, x, y))
    BY <1>4 DEF integer_comparison, is_signed_integer
  <2>3. set(SignedCondition[op], cmp(s, x, y)) <=> Holds(op, Signed(s, x), Signed(s, y))
    <3>1. CASE op \in {"EQUAL", "NOT_EQUAL"}
      BY <1>1, <3>1, UnsignedFlags, SignedFlags DEF SignedCondition, Holds
    <3>2. CASE op \in {"GREATER", "GREATER_OR_EQUAL"}
      BY <1>1, <3>2, SignedFlags DEF SignedCondition, Holds
    <3>3. CASE op \in {"LESSER", "LESSER_OR_EQUAL"}
      BY <1>1, <3>3, SignedFlags DEF SignedCondition, Holds
    <3> QED BY <3>1, <3>2, <3>3 DEF Comparison, Ordering
  <2> QED BY <1>2, <2>1, <2>2, <2>3
<1>5. CASE ty.kind \in {"unsigned", "bool"}
  <2>1. Number(ty, x) = x /\ Number(ty, y) = y
    BY <1>5 DEF Number
  <2>2. integer_comparison(op, ty, x, y) <=> set(UnsignedCondition[op], cmp(s, x, y))
    BY <1>5 DEF integer_comparison, is_signed_integer
  <2>3. set(UnsignedCondition[op], cmp(s, x, y)) <=> Holds(op, x, y)
    <3>1. CASE op \in {"EQUAL", "NOT_EQUAL"}
      BY <1>1, <3>1, UnsignedFlags DEF UnsignedCondition, Holds
    <3>2. CASE op \in {"GREATER", "GREATER_OR_EQUAL"}
      BY <1>1, <3>2, UnsignedFlags DEF UnsignedCondition, Holds
    <3>3. CASE op \in {"LESSER", "LESSER_OR_EQUAL"}
      BY <1>1, <3>3, UnsignedFlags DEF UnsignedCondition, Holds
    <3> QED BY <3>1, <3>2, <3>3 DEF Comparison, Ordering
  <2> QED BY <1>2, <2>1, <2>2, <2>3
<1>6. CASE ty.kind = "unlisted"
  <2>1. op \in {"EQUAL", "NOT_EQUAL"}
    BY <1>6 DEF Regular, Comparison, Arithmetical, Ordering
  <2>2. Number(ty, x) = Signed(s, x) /\ Number(ty, y) = Signed(s, y)
    BY <1>6 DEF Number
  <2>3. integer_comparison(op, ty, x, y) <=> set(UnsignedCondition[op], cmp(s, x, y))
    BY <1>6 DEF integer_comparison, is_signed_integer
  <2>4. set(UnsignedCondition[op], cmp(s, x, y)) <=> Holds(op, Signed(s, x), Signed(s, y))
    BY <1>1, <2>1, UnsignedFlags, SignedFlags DEF UnsignedCondition, Holds
  <2> QED BY <1>2, <2>2, <2>3, <2>4
<1> QED BY <1>4, <1>5, <1>6 DEF Integer

\* The comparisons of floating point: with an unordered value, above and not below
\* are false as they should be, below and not above are not.
LEMMA FloatingComparisons ==
  ASSUME NEW op \in Comparison, NEW ty \in Type, is_floating_point(ty),
         NEW x \in Values(ty), NEW y \in Values(ty), Regular(op, ty, x, y)
  PROVE  floating_point_comparison(op, x, y) <=> MeantComparison(op, ty, x, y)
<1> DEFINE f == comi(x, y)
           unordered == NaN \in {x, y}
<1>1. x \in Nat /\ y \in Nat
  BY FloatsAssumption DEF Values
<1>2. /\ f.ZF = (unordered \/ x = y)
      /\ f.CF = (unordered \/ x < y)
      /\ f.PF = unordered
  BY DEF comi
<1>3. Number(ty, x) = x /\ Number(ty, y) = y
  BY DEF Number, is_floating_point
<1>4. MeantComparison(op, ty, x, y)
        <=> IF unordered THEN op = "NOT_EQUAL" ELSE Holds(op, x, y)
  BY <1>3 DEF MeantComparison
<1>5. floating_point_comparison(op, x, y)
        <=> \/ op = "EQUAL" /\ f.ZF /\ ~ f.PF
            \/ op = "NOT_EQUAL" /\ (~ f.ZF \/ f.PF)
            \/ op \in Ordering /\ set(UnsignedCondition[op], f)
  BY DEF floating_point_comparison
<1>6. op \in Ordering /\ unordered => op \in {"GREATER", "GREATER_OR_EQUAL"}
  BY DEF Regular, Ordering, Arithmetical
<1>7. /\ set("a", f) <=> ~ unordered /\ x > y
      /\ set("nb", f) <=> ~ unordered /\ x >= y
      /\ set("b", f) <=> unordered \/ x < y
      /\ set("na", f) <=> unordered \/ x <= y
  <2>1. (f.ZF <=> unordered \/ x = y) /\ (f.CF <=> unordered \/ x < y)
    BY <1>2
  <2> HIDE DEF f, unordered
  <2> QED BY <1>1, <2>1, Conditions
<1> HIDE DEF f, unordered
<1>8. CASE op = "EQUAL"
  BY <1>1, <1>2, <1>4, <1>5, <1>8 DEF Ordering, Holds
<1>9. CASE op = "NOT_EQUAL"
  BY <1>1, <1>2, <1>4, <1>5, <1>9 DEF Ordering, Holds
<1>10. CASE op \in Ordering
  <2>1. floating_point_comparison(op, x, y) <=> set(UnsignedCondition[op], f)
    BY <1>5, <1>10 DEF Ordering
  <2>2. CASE op = "GREATER"
    BY <1>4, <1>7, <2>1, <2>2 DEF Holds, UnsignedCondition
  <2>3. CASE op = "GREATER_OR_EQUAL"
    BY <1>4, <1>7, <2>1, <2>3 DEF Holds, UnsignedCondition
  <2>4. CASE op \in {"LESSER", "LESSER_OR_EQUAL"}
    <3>1. ~ unordered
      BY <1>6, <1>10, <2>4
    <3> QED BY <1>4, <1>7, <2>1, <2>4, <3>1 DEF Holds, UnsignedCondition
  <2> QED BY <1>10, <2>2, <2>3, <2>4 DEF Ordering
<1> QED BY <1>8, <1>9, <1>10 DEF Comparison

\* The truth value the code computes for a regular comparison is the one it has in C++
\* (integer_comparison, floating_point_comparison of jit_x86_64.cpp).
THEOREM ComparisonsMean ==
  ASSUME NEW op \in Comparison, NEW ty \in Type,
         ty.kind \in Integer \cup {"bool", "floating"},
         ~ is_floating_point(ty) => ty.size \in Size,
         NEW x \in Values(ty), NEW y \in Values(ty), Regular(op, ty, x, y)
  PROVE  compare(op, ty, x, y) <=> MeantComparison(op, ty, x, y)
<1>1. CASE is_floating_point(ty)
  BY <1>1, FloatingComparisons DEF compare
<1>2. CASE ~ is_floating_point(ty)
  <2>1. ty.kind \in Integer \cup {"bool"}
    BY <1>2 DEF is_floating_point
  <2> QED BY <1>2, <2>1, IntegerComparisons DEF compare
<1> QED BY <1>1, <1>2

LEMMA NaturalQuotient ==
  ASSUME NEW a \in Nat, NEW c \in Nat \ {0}
  PROVE  a \div c \in 0 .. a
  OBVIOUS

LEMMA QuotientBound ==
  ASSUME NEW a \in Nat, NEW b \in Int \ {0}
  PROVE  /\ Quotient(a, b) \in -a .. a
         /\ b > 0 => Quotient(a, b) \in 0 .. a
<1>1. Abs(a) = a /\ Abs(b) \in Nat \ {0}
  BY DEF Abs
<1> DEFINE q == a \div Abs(b)
<1>2. q \in 0 .. a
  BY <1>1, NaturalQuotient
<1>3. Quotient(a, b) = IF (a < 0) = (b < 0) THEN q ELSE -q
  BY <1>1 DEF Quotient
<1> HIDE DEF q
<1> QED BY <1>2, <1>3

\* Sums, differences and products may be computed of the readings that do not regard
\* the sign: they differ from those that do by multiples of the modulus.
LEMMA RingOperations ==
  ASSUME NEW ty \in Type, ty.kind \in Integer, ty.size \in Size,
         NEW x \in Values(ty), NEW y \in Values(ty)
  PROVE  LET m == modulus(ty.size)
             a == Number(ty, x)
             b == Number(ty, y)
         IN  /\ a \in Int /\ b \in Int
             /\ (a + b) % m = (x + y) % m
             /\ (a - b) % m = (x - y) % m
             /\ (a * b) % m = (x * y) % m
<1> DEFINE m == modulus(ty.size)
           a == Number(ty, x)
           b == Number(ty, y)
<1>1. m \in Nat \ {0} /\ x \in 0 .. m - 1 /\ y \in 0 .. m - 1
  BY Sizes DEF Values, is_floating_point, Integer
<1>2. /\ \E k \in {0, -1} : a = x + m * k
      /\ \E l \in {0, -1} : b = y + m * l
  <2>1. CASE ty.kind = "unsigned"
    <3>1. a = x /\ b = y
      BY <2>1 DEF Number
    <3>2. x = x + m * 0 /\ y = y + m * 0
      BY <1>1
    <3> QED BY <3>1, <3>2
  <2>2. CASE ty.kind # "unsigned"
    <3>1. a = Signed(ty.size, x) /\ b = Signed(ty.size, y)
      BY <2>2 DEF Number, Integer
    <3> QED BY <1>1, <3>1, SignedReading
  <2> QED BY <2>1, <2>2
<1>3. PICK k \in {0, -1} : a = x + m * k
  BY <1>2
<1>4. PICK l \in {0, -1} : b = y + m * l
  BY <1>2
<1> HIDE DEF m, a, b
<1>5. a \in Int /\ b \in Int /\ k \in Int /\ l \in Int /\ x \in Int /\ y \in Int /\ m \in Int
  BY <1>1, <1>3, <1>4
<1>6. /\ a + b = (x + y) + m * (k + l)
      /\ a - b = (x - y) + m * (k - l)
      /\ a * b = (x * y) + m * (x * l + y * k + m * k * l)
  BY <1>3, <1>4, <1>5
<1>7. /\ x + y \in Int /\ x - y \in Int /\ x * y \in Int
      /\ k + l \in Int /\ k - l \in Int /\ x * l + y * k + m * k * l \in Int
  BY <1>5
<1>8. /\ ((x + y) + m * (k + l)) % m = (x + y) % m
      /\ ((x - y) + m * (k - l)) % m = (x - y) % m
      /\ ((x * y) + m * (x * l + y * k + m * k * l)) % m = (x * y) % m
  BY <1>1, <1>7, ModuloShift
<1>9. (a + b) % m = (x + y) % m /\ (a - b) % m = (x - y) % m /\ (a * b) % m = (x * y) % m
  BY <1>6, <1>8
<1> QED BY <1>5, <1>9 DEF m, a, b

\* When the dividend is not negative and wider than a byte, clearing rdx extends it
\* as it should be, the quotient has a place, and the division does not trap.
LEMMA RegularDivision ==
  ASSUME NEW op \in {"DIV", "MOD"}, NEW ty \in Type, ty.size \in Size,
         NEW x \in Values(ty), NEW y \in Values(ty), Regular(op, ty, x, y)
  PROVE  LET b == Number(ty, y)
         IN  /\ Number(ty, x) = x
             /\ INTEGER_DIV(ty, x, y)
                  = {[quotient |-> Quotient(x, b) % modulus(ty.size),
                      remainder |-> Remainder(x, b) % modulus(ty.size)]}
<1> DEFINE s == ty.size
           m == modulus(s)
           b == Number(ty, y)
           signed == is_signed_integer(ty)
           fits(q) == IF signed THEN -half[s] <= q /\ q < half[s] ELSE q < m
           res == [quotient |-> Quotient(x, b) % m, remainder |-> Remainder(x, b) % m]
<1>1. /\ ty.kind \in {"signed", "unsigned"} /\ s # 1 /\ y # 0
      /\ ty.kind = "signed" => x < half[s]
  BY DEF Regular, Ordering, Integer
<1>2. x \in 0 .. m - 1 /\ y \in 0 .. m - 1 /\ m = 2 * half[s] /\ half[s] \in Nat \ {0}
  BY <1>1, Sizes DEF Values, is_floating_point
<1>3. b = IF signed THEN Signed(s, y) ELSE y
  BY <1>1 DEF Number, is_signed_integer
<1>4. Number(ty, x) = x
  BY <1>1 DEF Number, Signed
<1>5. b \in Int \ {0} /\ (~ signed => b > 0) /\ (signed => x < half[s])
  BY <1>1, <1>2, <1>3 DEF Signed, is_signed_integer
<1>6. fits(Quotient(x, b))
  <2>1. x \in Nat
    BY <1>2
  <2>2. Quotient(x, b) \in -x .. x /\ (b > 0 => Quotient(x, b) \in 0 .. x)
    BY <1>5, <2>1, QuotientBound
  <2> HIDE DEF b, signed
  <2> QED BY <1>2, <1>5, <2>1, <2>2
<1>7. Divide(signed, s, x, y) = res
  BY <1>3, <1>5, <1>6 DEF Divide
<1>8. INTEGER_DIV(ty, x, y) = { Divide(signed, s, h * m + x, y) : h \in {0} }
  BY <1>1 DEF INTEGER_DIV
<1>9. 0 * m + x = x
  BY <1>2
<1> HIDE DEF res, signed, m, s
<1>10. INTEGER_DIV(ty, x, y) = {res}
  BY <1>7, <1>8, <1>9
<1> QED BY <1>4, <1>10 DEF res, m, s

\* The number the code computes for a regular integer operation is the one it has in
\* C++, wrapped around at the size of its type (integer_arithmetic of jit_x86_64.cpp).
THEOREM ArithmeticMeans ==
  ASSUME NEW op \in Arithmetical, NEW ty \in Type, ty.kind \in Integer, ty.size \in Size,
         NEW x \in Values(ty), NEW y \in Values(ty), Regular(op, ty, x, y)
  PROVE  assigned(op, ty, x, y) = {MeantNumber(op, ty, x, y)}
<1> DEFINE m == modulus(ty.size)
           a == Number(ty, x)
           b == Number(ty, y)
<1>1. assigned(op, ty, x, y) = integer_arithmetic(op, ty, x, y)
  BY DEF assigned, arithmetic, is_floating_point, Integer
<1>2. MeantNumber(op, ty, x, y) = Exact(op, a, b) % m
  BY DEF MeantNumber, Integer
<1>3. CASE op = "ADD"
  <2>1. integer_arithmetic(op, ty, x, y) = {(x + y) % m} /\ Exact(op, a, b) = a + b
    BY <1>3 DEF integer_arithmetic, Exact
  <2> QED BY <1>1, <1>2, <2>1, RingOperations
<1>4. CASE op = "SUB"
  <2>1. integer_arithmetic(op, ty, x, y) = {(x - y) % m} /\ Exact(op, a, b) = a - b
    BY <1>4 DEF integer_arithmetic, Exact
  <2> QED BY <1>1, <1>2, <2>1, RingOperations
<1>5. CASE op = "MUL"
  <2>1. ty.size # 1
    BY <1>5 DEF Regular, Ordering
  <2>2. integer_arithmetic(op, ty, x, y) = {(x * y) % m} /\ Exact(op, a, b) = a * b
    BY <1>5, <2>1 DEF integer_arithmetic, Exact
  <2> QED BY <1>1, <1>2, <2>2, RingOperations
<1>6. CASE op = "DIV"
  <2>1. integer_arithmetic(op, ty, x, y) = { d.quotient : d \in INTEGER_DIV(ty, x, y) }
    BY <1>6 DEF integer_arithmetic
  <2>2. Exact(op, a, b) = Quotient(a, b)
    BY <1>6 DEF Exact
  <2>3. /\ a = x
        /\ INTEGER_DIV(ty, x, y) = {[quotient |-> Quotient(x, b) % m,
                                       remainder |-> Remainder(x, b) % m]}
    BY <1>6, RegularDivision
  <2> HIDE DEF m, a, b
  <2> QED BY <1>1, <1>2, <2>1, <2>2, <2>3
<1>7. CASE op = "MOD"
  <2>1. ty.size # 1
    BY <1>7 DEF Regular, Ordering
  <2>2. integer_arithmetic(op, ty, x, y) = { d.remainder : d \in INTEGER_DIV(ty, x, y) }
    BY <1>7, <2>1 DEF integer_arithmetic
  <2>3. Exact(op, a, b) = Remainder(a, b)
    BY <1>7 DEF Exact
  <2>4. /\ a = x
        /\ INTEGER_DIV(ty, x, y) = {[quotient |-> Quotient(x, b) % m,
                                       remainder |-> Remainder(x, b) % m]}
    BY <1>7, RegularDivision
  <2> HIDE DEF m, a, b
  <2> QED BY <1>1, <1>2, <2>2, <2>3, <2>4
<1> QED BY <1>3, <1>4, <1>5, <1>6, <1>7 DEF Arithmetical

\* What a regular operation means is a value of its type.
LEMMA MeantInRange ==
  ASSUME NEW op \in Arithmetical, NEW ty \in Type, ty.kind \in Integer, ty.size \in Size,
         NEW x \in Values(ty), NEW y \in Values(ty), Regular(op, ty, x, y)
  PROVE  MeantNumber(op, ty, x, y) \in 0 .. modulus(ty.size) - 1
<1> DEFINE a == Number(ty, x)
           b == Number(ty, y)
           n == Exact(op, a, b)
<1>1. MeantNumber(op, ty, x, y) = n % modulus(ty.size)
  BY DEF MeantNumber, Integer
<1>2. a \in Int /\ b \in Int
  BY RingOperations
<1> HIDE DEF a, b
<1>3. n \in Int
  <2>1. CASE op \in {"ADD", "SUB", "MUL"}
    BY <1>2, <2>1 DEF Exact
  <2>2. CASE op \in {"DIV", "MOD"}
    <3>1. a = x /\ y # 0 /\ x \in Nat
      BY <2>2, RegularDivision, Sizes DEF a, Regular, Ordering, Values, is_floating_point, Integer
    <3>2. b # 0
      BY <2>2, Sizes DEF b, Number, Signed, Regular, Ordering, Values, is_floating_point, Integer
    <3>3. Quotient(a, b) \in Int
      BY <1>2, <3>1, <3>2, QuotientBound
    <3>4. Remainder(a, b) \in Int
      BY <1>2, <3>3 DEF Remainder
    <3> QED BY <2>2, <3>3, <3>4 DEF Exact
  <2> QED BY <2>1, <2>2 DEF Arithmetical
<1> HIDE DEF n
<1>4. n % modulus(ty.size) \in 0 .. modulus(ty.size) - 1
  BY <1>3, Sizes, Division
<1> QED BY <1>1, <1>4

-----------------------------------------------------------------------------
(* What instructions evaluate.                                             *)

\* An operand whose value the program determines is read as that value.
LEMMA OperandRead ==
  ASSUME TypeOK, MeansWhatItSays,
         NEW t \in DOMAIN Immediates, t.kind # "object",
         NEW o \in Readable(t), o.meant # Unset
  PROVE  o.type = t /\ o.values = {o.meant} /\ o.meant \in Values(t)
<1>1. CASE o \in { Pushed(t, x) : x \in Immediates[t] }
  <2>1. PICK x \in Immediates[t] : o = Pushed(t, x)
    BY <1>1
  <2>2. x \in Values(t)
    BY ImmediatesAssumption DEF Contents, IsObject, is_primitive
  <2>3. o = Immediate(t, x)
    BY <2>1 DEF Pushed
  <2> QED BY <2>2, <2>3 DEF Immediate
<1>2. CASE o \in Variables(t)
  <2>1. PICK v \in DOMAIN locals : TypeOf(v) = t /\ o = Variable(v)
    BY <1>2 DEF Variables
  <2>2. /\ o.type = TypeOf(v) /\ o.meant = meant[v]
        /\ o.values = IF locals[v] = Unset THEN Immediates[TypeOf(v)] ELSE {locals[v]}
    BY <2>1 DEF Variable
  <2>3. meant[v] # Unset /\ v \in DOMAIN meant /\ v \in DOMAIN function.locals
    BY <2>1, <2>2 DEF TypeOK
  <2>4. locals[v] = meant[v] /\ meant[v] \in Values(TypeOf(v))
    BY <2>3 DEF MeansWhatItSays, TypeOK
  <2> QED BY <2>1, <2>2, <2>3, <2>4
<1> QED BY <1>1, <1>2 DEF Readable

\* Writing to a variable what it is to hold keeps the variables as they are meant.
LEMMA WriteMeans ==
  ASSUME TypeOK, MeansWhatItSays, NEW v \in DOMAIN locals, NEW x, NEW m, Write(v, x, m),
         m # Unset => x = m, UNCHANGED <<condition, result>>
  PROVE  MeansWhatItSays'
<1>1. DOMAIN locals = DOMAIN meant
  BY DEF TypeOK
<1>2. ASSUME NEW w \in DOMAIN meant', meant'[w] # Unset
      PROVE  locals'[w] = meant'[w]
  BY <1>1, <1>2 DEF MeansWhatItSays, Write
<1> QED BY <1>2 DEF MeansWhatItSays

\* The types of the operands an expression is formed of, and what they are read as.
LEMMA ExpressionRead ==
  ASSUME TypeOK, MeansWhatItSays, NEW op \in Operation, NEW e \in Expressions(op),
         Known(op, e[1], e[2])
  PROVE  LET t == e[1].type
         IN  /\ t \in Type /\ t.kind \in Integer \cup {"bool", "floating"}
             /\ ~ is_floating_point(t) => t.size \in Size
             /\ e[1].meant \in Values(t) /\ e[1].values = {e[1].meant}
             /\ e[2].meant \in Values(t) /\ e[2].values = {e[2].meant}
             /\ Regular(op, t, e[1].meant, e[2].meant)
<1>1. PICK t \in DOMAIN Immediates : Parses(op, t, t) /\ e \in Readable(t) \X Readable(t)
  BY DEF Expressions
<1>2. e[1] \in Readable(t) /\ e[2] \in Readable(t)
  BY <1>1
<1>3. /\ t \in Type /\ t.kind \in Integer \cup {"bool", "floating"} /\ t.kind # "object"
      /\ ~ is_floating_point(t) => t.size \in Size
  BY <1>1, ImmediatesAssumption DEF Parses, is_primitive, is_floating_point, Type
<1>4. e[1].meant # Unset /\ e[2].meant # Unset /\ Regular(op, e[1].type, e[1].meant, e[2].meant)
  BY DEF Known
<1>5. e[1].type = t /\ e[1].values = {e[1].meant} /\ e[1].meant \in Values(t)
  BY <1>2, <1>3, <1>4, OperandRead
<1>6. e[2].values = {e[2].meant} /\ e[2].meant \in Values(t)
  BY <1>2, <1>3, <1>4, OperandRead
<1> QED BY <1>3, <1>4, <1>5, <1>6

\* A regular arithmetical operation is one of integers.
LEMMA RegularArithmetic ==
  ASSUME NEW op \in Arithmetical, NEW t \in Type, NEW x, NEW y, Regular(op, t, x, y)
  PROVE  t.kind \in Integer
  BY DEF Regular, Arithmetical, Ordering, Integer

\* Constructing a variable from an expression, or assigning one, with operands the
\* program determines and an operation that is regular saves what the expression is
\* in C++ (assign_primitive_binary_atomic_expression).
THEOREM ExpressionsMean ==
  ASSUME TypeOK, MeansWhatItSays, NEW v \in DOMAIN locals, NEW op \in Operation,
         NEW e \in Expressions(op), FromExpression(v, op, e[1], e[2]), UNCHANGED result
  PROVE  MeansWhatItSays'
<1> DEFINE l == e[1]
           r == e[2]
           t == l.type
           meaning == IF ~ Known(op, l, r) THEN Unset
                      ELSE IF op \in Comparison THEN Bit(MeantComparison(op, t, l.meant, r.meant))
                      ELSE MeantNumber(op, t, l.meant, r.meant)
<1>1. PICK x \in l.values, y \in r.values : \E z \in assigned(op, t, x, y) : Write(v, z, meaning)
  BY DEF FromExpression
<1>2. PICK z \in assigned(op, t, x, y) : Write(v, z, meaning)
  BY <1>1
<1>3. ASSUME Known(op, l, r)
      PROVE  z = meaning
  <2>1. /\ t \in Type /\ t.kind \in Integer \cup {"bool", "floating"}
        /\ ~ is_floating_point(t) => t.size \in Size
        /\ x = l.meant /\ y = r.meant /\ x \in Values(t) /\ y \in Values(t)
        /\ Regular(op, t, x, y)
    BY <1>3, ExpressionRead
  <2> HIDE DEF t
  <2>2. CASE op \in Comparison
    <3>1. assigned(op, t, x, y) = {Bit(compare(op, t, x, y))}
      BY <2>2 DEF assigned, Comparison, Ordering, Arithmetical
    <3>2. compare(op, t, x, y) <=> MeantComparison(op, t, x, y)
      BY <2>1, <2>2, ComparisonsMean
    <3>3. meaning = Bit(MeantComparison(op, t, x, y))
      BY <1>3, <2>1, <2>2
    <3>4. z = Bit(compare(op, t, x, y))
      BY <3>1
    <3> QED BY <3>2, <3>3, <3>4 DEF Bit
  <2>3. CASE op \in Arithmetical
    <3>1. t.kind \in Integer /\ t.size \in Size
      BY <2>1, <2>3, RegularArithmetic DEF is_floating_point, Integer
    <3>2. assigned(op, t, x, y) = {MeantNumber(op, t, x, y)}
      BY <2>1, <2>3, <3>1, ArithmeticMeans
    <3>3. meaning = MeantNumber(op, t, x, y)
      BY <1>3, <2>1, <2>3 DEF Arithmetical, Comparison, Ordering
    <3> QED BY <3>2, <3>3
  <2> QED BY <2>2, <2>3 DEF Operation
<1>4. meaning # Unset => z = meaning
  BY <1>3
<1>5. UNCHANGED condition
  BY DEF FromExpression
<1> QED BY <1>2, <1>4, <1>5, WriteMeans

\* A comparison taken as a condition, or an integer operation of bytes, branches as it
\* does in C++ (branch_eval_primitive_binary_atomic_expression, and the cmp after it).
THEOREM ConditionsMean ==
  ASSUME TypeOK, MeansWhatItSays, NEW op \in Operation, NEW e \in Expressions(op),
         Test(op, e[1], e[2]), UNCHANGED result
  PROVE  MeansWhatItSays'
<1> DEFINE l == e[1]
           r == e[2]
           t == l.type
           meaning == IF ~ Known(op, l, r) \/ (op \in Arithmetical /\ t.size # 1) THEN Unset
                      ELSE IF op \in Comparison THEN Bit(MeantComparison(op, t, l.meant, r.meant))
                      ELSE Bit(MeantNumber(op, t, l.meant, r.meant) # 0)
<1>1. PICK x \in l.values, y \in r.values : \E b \in branches(op, t, x, y) :
             condition' = [taken |-> Bit(b), meant |-> meaning]
  BY DEF Test
<1>2. PICK b \in branches(op, t, x, y) : condition' = [taken |-> Bit(b), meant |-> meaning]
  BY <1>1
<1>3. ASSUME Known(op, l, r), ~ (op \in Arithmetical /\ t.size # 1)
      PROVE  Bit(b) = meaning
  <2>1. /\ t \in Type /\ t.kind \in Integer \cup {"bool", "floating"}
        /\ ~ is_floating_point(t) => t.size \in Size
        /\ x = l.meant /\ y = r.meant /\ x \in Values(t) /\ y \in Values(t)
        /\ Regular(op, t, x, y)
    BY <1>3, ExpressionRead
  <2> HIDE DEF t
  <2>2. CASE op \in Comparison
    <3>1. b = compare(op, t, x, y)
      BY <2>2 DEF branches
    <3>2. compare(op, t, x, y) <=> MeantComparison(op, t, x, y)
      BY <2>1, <2>2, ComparisonsMean
    <3>3. meaning = Bit(MeantComparison(op, t, x, y))
      BY <1>3, <2>1, <2>2 DEF Arithmetical, Comparison, Ordering
    <3> QED BY <3>1, <3>2, <3>3 DEF Bit
  <2>3. CASE op \in Arithmetical
    <3>1. t.kind \in Integer /\ t.size \in Size /\ t.size = 1
      BY <1>3, <2>1, <2>3, RegularArithmetic DEF is_floating_point, Integer
    <3>2. arithmetic(op, t, x, y) = {MeantNumber(op, t, x, y)}
      BY <2>1, <2>3, <3>1, ArithmeticMeans DEF assigned
    <3>3. op \notin Comparison /\ ~ is_floating_point(t)
      BY <2>3, <3>1 DEF Arithmetical, Comparison, Ordering, is_floating_point, Integer
    <3>4. b \in { n % modulus(1) # 0 : n \in {MeantNumber(op, t, x, y)} \ {Trap} }
      BY <3>2, <3>3 DEF branches
    <3>5. b = (MeantNumber(op, t, x, y) % modulus(1) # 0)
      BY <3>4
    <3>6. MeantNumber(op, t, x, y) \in 0 .. modulus(1) - 1
      BY <2>1, <2>3, <3>1, MeantInRange
    <3>7. MeantNumber(op, t, x, y) % modulus(1) = MeantNumber(op, t, x, y)
      BY <3>1, <3>6, Sizes, ModuloSmall
    <3>8. meaning = Bit(MeantNumber(op, t, x, y) # 0)
      BY <1>3, <2>1, <2>3, <3>3
    <3> QED BY <3>5, <3>7, <3>8 DEF Bit
  <2> QED BY <2>2, <2>3 DEF Operation
<1>4. meaning # Unset => Bit(b) = meaning
  BY <1>3
<1>5. condition'.meant = meaning /\ condition'.taken = Bit(b)
  BY <1>2
<1>6. UNCHANGED <<locals, meant>>
  BY DEF Test
<1> HIDE DEF meaning
<1> QED BY <1>4, <1>5, <1>6 DEF MeansWhatItSays

-----------------------------------------------------------------------------
(* Sums of sizes.                                                          *)

\* A set of numbers up to n has a greatest.
LEMMA Greatest ==
  ASSUME NEW n \in Nat, NEW S, S \subseteq 1 .. n, S # {}
  PROVE  Max(S) \in S /\ \A y \in S : Max(S) >= y
<1> DEFINE HasOne(T) == \E x \in T : \A y \in T : x >= y
           Bounded == { m \in Nat : \A T : T \subseteq 1 .. m /\ T # {} => HasOne(T) }
<1>1. Nat \subseteq Bounded
  <2>1. 0 \in Bounded
    <3>1. 1 .. 0 = {}
      OBVIOUS
    <3> HIDE DEF HasOne
    <3> QED
      BY <3>1
  <2>2. ASSUME NEW m \in Nat, m \in Bounded PROVE m + 1 \in Bounded
    <3> SUFFICES ASSUME NEW T, T \subseteq 1 .. m + 1, T # {} PROVE HasOne(T)
      OBVIOUS
    <3>1. CASE m + 1 \in T
      BY <3>1
    <3>2. CASE m + 1 \notin T
      <4>1. T \subseteq 1 .. m
        BY <3>2
      <4> HIDE DEF HasOne
      <4> QED
        BY <2>2, <4>1
    <3> QED
      BY <3>1, <3>2
  <2> HIDE DEF Bounded
  <2> QED
    BY <2>1, <2>2, Induction
<1>2. HasOne(S)
  <2> HIDE DEF HasOne
  <2> QED
    BY <1>1
<1> QED
  BY <1>2 DEF Max

LEMMA TypeSizes ==
  ASSUME NEW t \in DOMAIN Immediates
  PROVE  t.size \in Nat \ {0} /\ t \in Type /\ t # void
  BY ImmediatesAssumption DEF Type, void

LEMMA GreatestRemoved ==
  ASSUME NEW n \in Nat, NEW S, S \subseteq 1 .. n
  PROVE  /\ Cardinality(S) \in Nat
         /\ S # {} => /\ Max(S) \in 1 .. n /\ S \ {Max(S)} \subseteq 1 .. n
                      /\ Cardinality(S \ {Max(S)}) = Cardinality(S) - 1
<1>1. IsFiniteSet(S)
  <2>1. IsFiniteSet(1 .. n)
    BY FS_Interval
  <2> QED
    BY <2>1, FS_Subset
<1>2. ASSUME S # {} PROVE Max(S) \in S
  BY <1>2, Greatest
<1>3. ASSUME S # {} PROVE Cardinality(S \ {Max(S)}) = Cardinality(S) - 1
  BY <1>1, <1>2, <1>3, FS_RemoveElement
<1> QED
  BY <1>1, <1>2, <1>3, FS_CardinalityType

IsTotal(f, q) ==
  f = [S \in SUBSET DOMAIN q |-> IF S = {} THEN 0 ELSE f[S \ {Max(S)}] + q[Max(S)].size]

LEMMA TotalsExist ==
  ASSUME NEW q \in Seq(DOMAIN Immediates)
  PROVE  \E f : IsTotal(f, q)
<1>1. Len(q) \in Nat /\ DOMAIN q = 1 .. Len(q) /\ \A k \in 1 .. Len(q) : q[k] \in DOMAIN Immediates
  OBVIOUS
<1>2. PICK n, T : n = Len(q) /\ T = SUBSET (1 .. n)
  OBVIOUS
<1>3. n \in Nat /\ T = SUBSET DOMAIN q /\ \A S : S \in T <=> S \subseteq 1 .. n
  BY <1>1, <1>2
<1> DEFINE size == [S \in T |-> Cardinality(S)]
           done == { {} }
           out == [S \in T |-> 0]
           next == [S \in T |-> S \ {Max(S)}]
           step == [S \in T |-> [v \in Nat |-> v + q[Max(S)].size]]
<1>4. ASSUME NEW S \in T
      PROVE  /\ size[S] = Cardinality(S) /\ size[S] \in Nat
             /\ S # {} => /\ next[S] = S \ {Max(S)} /\ next[S] \in T /\ size[next[S]] = size[S] - 1
                          /\ q[Max(S)].size \in Nat
  <2>1. size[S] = Cardinality(S) /\ next[S] = S \ {Max(S)}
    OBVIOUS
  <2>2. S \subseteq 1 .. n
    BY <1>3
  <2>3. size[S] \in Nat
    BY <1>3, <2>1, <2>2, GreatestRemoved
  <2>4. ASSUME S # {}
        PROVE  next[S] \in T /\ size[next[S]] = size[S] - 1 /\ q[Max(S)].size \in Nat
    <3>1. /\ Max(S) \in 1 .. n /\ S \ {Max(S)} \subseteq 1 .. n
          /\ Cardinality(S \ {Max(S)}) = Cardinality(S) - 1
      BY <1>3, <2>2, <2>4, GreatestRemoved
    <3>2. S \ {Max(S)} \in T
      BY <1>3, <3>1
    <3>3. size[S \ {Max(S)}] = Cardinality(S \ {Max(S)})
      BY <3>2
    <3>4. q[Max(S)].size \in Nat
      BY <1>1, <1>2, <3>1, TypeSizes
    <3> QED
      BY <2>1, <3>1, <3>2, <3>3, <3>4
  <2> QED
    BY <2>1, <2>3, <2>4
<1>5. size \in [T -> Nat]
  BY <1>4
<1> HIDE DEF size
<1>6. ASSUME NEW S \in T, S \notin done PROVE next[S] \in T /\ size[next[S]] < size[S]
  BY <1>4, <1>6
<1>7. PICK f : Unfolds(f, T, done, out, next, step)
  <2> HIDE DEF done, out, next, step
  <2> QED
    BY <1>5, <1>6, Unfolding
<1>8. ASSUME NEW S \in T PROVE f[S] = IF S = {} THEN 0 ELSE step[S][f[next[S]]]
  BY <1>7 DEF Unfolds
<1>9. ASSUME NEW S \in T, S # {}, f[next[S]] \in Nat
      PROVE  f[S] = f[next[S]] + q[Max(S)].size /\ f[S] \in Nat
  <2>1. step[S][f[next[S]]] = f[next[S]] + q[Max(S)].size
    BY <1>9
  <2> HIDE DEF step, next
  <2>2. f[S] = step[S][f[next[S]]]
    BY <1>8, <1>9
  <2>3. q[Max(S)].size \in Nat
    BY <1>4, <1>9
  <2> QED
    BY <1>9, <2>1, <2>2, <2>3
<1> HIDE DEF step, next
<1> DEFINE Fine == { m \in Nat : \A S \in T : size[S] < m => f[S] \in Nat }
<1>10. Nat \subseteq Fine
  <2>1. 0 \in Fine
    BY <1>5
  <2>2. ASSUME NEW m \in Nat, m \in Fine PROVE m + 1 \in Fine
    <3> SUFFICES ASSUME NEW S \in T, size[S] < m + 1 PROVE f[S] \in Nat
      OBVIOUS
    <3>1. CASE S = {}
      BY <1>8, <3>1
    <3>2. CASE S # {}
      <4>1. next[S] \in T /\ size[next[S]] < m
        BY <1>4, <3>2
      <4>2. f[next[S]] \in Nat
        BY <2>2, <4>1
      <4> QED
        BY <1>9, <3>2, <4>2
    <3> QED
      BY <3>1, <3>2
  <2> HIDE DEF Fine
  <2> QED
    BY <2>1, <2>2, Induction
<1>11. ASSUME NEW S \in T PROVE f[S] \in Nat
  <2>1. size[S] + 1 \in Nat /\ size[S] < size[S] + 1
    BY <1>4
  <2> QED
    BY <1>10, <2>1
<1>12. ASSUME NEW S \in T
       PROVE  f[S] = IF S = {} THEN 0 ELSE f[S \ {Max(S)}] + q[Max(S)].size
  BY <1>4, <1>8, <1>9, <1>11
<1>13. f = [S \in T |-> f[S]]
  BY <1>7 DEF Unfolds
<1>14. f = [S \in T |-> IF S = {} THEN 0 ELSE f[S \ {Max(S)}] + q[Max(S)].size]
  BY <1>12, <1>13
<1> QED
  BY <1>3, <1>14, Zenon DEF IsTotal

\* t[k] is the size of the first k types.
Sums(q, t) ==
  /\ t \in [0 .. Len(q) -> Nat] /\ t[0] = 0
  /\ \A k \in 1 .. Len(q) : t[k] = t[k - 1] + q[k].size

LEMMA SumsExist ==
  ASSUME NEW q \in Seq(DOMAIN Immediates)
  PROVE  \E t : Sums(q, t) /\ SizeOf(q) = t[Len(q)]
<1> DEFINE g == CHOOSE f : f = [S \in SUBSET DOMAIN q |->
                                  IF S = {} THEN 0 ELSE f[S \ {Max(S)}] + q[Max(S)].size]
<1>1. IsTotal(g, q)
  BY TotalsExist, Zenon DEF IsTotal
<1>2. SizeOf(q) = g[DOMAIN q]
  BY DEF SizeOf, FoldLeft, MapThenFoldSet
<1> HIDE DEF g
<1>3. Len(q) \in Nat /\ DOMAIN q = 1 .. Len(q) /\ \A k \in 1 .. Len(q) : q[k] \in DOMAIN Immediates
  OBVIOUS
<1>4. PICK n : n = Len(q)
  OBVIOUS
<1>5. \A S : S \subseteq 1 .. n => g[S] = IF S = {} THEN 0 ELSE g[S \ {Max(S)}] + q[Max(S)].size
  <2>1. g = [S \in SUBSET (1 .. n) |-> IF S = {} THEN 0 ELSE g[S \ {Max(S)}] + q[Max(S)].size]
    BY <1>1, <1>3, <1>4 DEF IsTotal
  <2> SUFFICES ASSUME NEW S, S \subseteq 1 .. n
               PROVE  g[S] = IF S = {} THEN 0 ELSE g[S \ {Max(S)}] + q[Max(S)].size
    OBVIOUS
  <2>2. S \in SUBSET (1 .. n)
    OBVIOUS
  <2> QED
    BY <2>1, <2>2, Zenon
<1>6. n \in Nat
  BY <1>3, <1>4
<1>7. ASSUME NEW k \in 1 .. n PROVE g[1 .. k] = g[1 .. k - 1] + q[k].size
  <2>1. 1 .. k \subseteq 1 .. n /\ 1 .. k # {} /\ (1 .. k) \ {k} = 1 .. k - 1
    <3>1. k \in Nat /\ 1 <= k /\ k <= n
      BY <1>6
    <3>2. 1 .. k \subseteq 1 .. n
      BY <1>6, <3>1
    <3>3. k \in 1 .. k
      BY <3>1
    <3>4. (1 .. k) \ {k} = 1 .. k - 1
      BY <3>1
    <3> QED
      BY <3>2, <3>3, <3>4
  <2>2. Max(1 .. k) = k
    <3>1. Max(1 .. k) \in 1 .. k /\ \A y \in 1 .. k : Max(1 .. k) >= y
      BY <1>6, <2>1, Greatest
    <3> QED
      BY <1>6, <3>1
  <2> QED
    BY <1>5, <2>1, <2>2
<1>8. g[{}] = 0
  BY <1>5
<1> DEFINE t == [k \in 0 .. n |-> g[1 .. k]]
           Natural == { k \in Nat : k <= n => g[1 .. k] \in Nat }
<1>9. 1 .. 0 = {}
  OBVIOUS
<1>10. Nat \subseteq Natural
  <2>1. 0 \in Natural
    BY <1>8, <1>9
  <2>2. ASSUME NEW k \in Nat, k \in Natural PROVE k + 1 \in Natural
    <3> SUFFICES ASSUME k + 1 <= n PROVE g[1 .. k + 1] \in Nat
      OBVIOUS
    <3>1. k + 1 \in 1 .. n /\ (k + 1) - 1 = k
      BY <1>6
    <3>2. g[1 .. k] \in Nat
      BY <1>6, <2>2
    <3>3. g[1 .. k + 1] = g[1 .. k] + q[k + 1].size
      BY <1>7, <3>1
    <3>4. q[k + 1].size \in Nat
      BY <1>3, <1>4, <3>1, TypeSizes
    <3> QED
      BY <3>2, <3>3, <3>4
  <2> HIDE DEF Natural
  <2> QED
    BY <2>1, <2>2, Induction
<1>11. t \in [0 .. n -> Nat]
  BY <1>6, <1>10
<1>12. t[0] = 0
  BY <1>6, <1>8, <1>9
<1>13. ASSUME NEW k \in 1 .. n PROVE t[k] = t[k - 1] + q[k].size
  <2>1. k \in 0 .. n /\ k - 1 \in 0 .. n
    BY <1>6
  <2> QED
    BY <1>7, <2>1
<1>14. t[n] = g[1 .. n]
  BY <1>6
<1> HIDE DEF t
<1>15. Sums(q, t)
  BY <1>4, <1>11, <1>12, <1>13 DEF Sums
<1>16. SizeOf(q) = t[Len(q)]
  BY <1>2, <1>3, <1>4, <1>14
<1> QED
  BY <1>15, <1>16

\* The sums over a part of a sequence.
LEMMA PartOfSum ==
  ASSUME NEW q \in Seq(DOMAIN Immediates), NEW t, Sums(q, t),
         NEW m \in 0 .. Len(q), NEW k \in m .. Len(q)
  PROVE  SizeOf(SubSeq(q, m + 1, k)) = t[k] - t[m]
<1> DEFINE p == SubSeq(q, m + 1, k)
<1>1. /\ Len(q) \in Nat /\ m \in Nat /\ k \in Nat /\ m <= k /\ k <= Len(q)
      /\ \A j \in 1 .. Len(q) : q[j] \in DOMAIN Immediates
  OBVIOUS
<1>2. /\ p \in Seq(DOMAIN Immediates) /\ Len(p) = k - m /\ k - m \in Nat
      /\ \A j \in 1 .. k - m : p[j] = q[m + j]
  BY <1>1
<1> HIDE DEF p
<1>3. PICK u : Sums(p, u) /\ SizeOf(p) = u[Len(p)]
  BY <1>2, SumsExist
<1>4. \A j \in 0 .. Len(q) : t[j] \in Nat
  BY DEF Sums
<1> DEFINE Agrees == { j \in Nat : j <= k - m => u[j] = t[m + j] - t[m] }
<1>5. Nat \subseteq Agrees
  <2>1. 0 \in Agrees
    <3>1. u[0] = 0 /\ m + 0 = m /\ t[m] \in Nat
      BY <1>1, <1>3, <1>4 DEF Sums
    <3> QED
      BY <3>1
  <2>2. ASSUME NEW j \in Nat, j \in Agrees PROVE j + 1 \in Agrees
    <3> SUFFICES ASSUME j + 1 <= k - m PROVE u[j + 1] = t[m + (j + 1)] - t[m]
      OBVIOUS
    <3>1. /\ j + 1 \in 1 .. k - m /\ (j + 1) - 1 = j /\ m + (j + 1) \in 1 .. Len(q)
          /\ (m + (j + 1)) - 1 = m + j /\ m + j \in 0 .. Len(q)
      <4>1. PICK l : l = Len(q)
        OBVIOUS
      <4>2. l \in Nat /\ k <= l /\ j + 1 <= k - m
        BY <1>1, <4>1
      <4>3. /\ j + 1 \in 1 .. k - m /\ (j + 1) - 1 = j /\ m + (j + 1) \in 1 .. l
            /\ (m + (j + 1)) - 1 = m + j /\ m + j \in 0 .. l
        BY <1>1, <4>2
      <4> QED
        BY <4>1, <4>3
    <3>2. u[j] = t[m + j] - t[m]
      BY <1>1, <1>2, <2>2
    <3>3. u[j + 1] = u[j] + p[j + 1].size
      BY <1>2, <1>3, <3>1 DEF Sums
    <3>4. t[m + (j + 1)] = t[m + j] + q[m + (j + 1)].size
      BY <3>1 DEF Sums
    <3>5. p[j + 1].size = q[m + (j + 1)].size /\ q[m + (j + 1)].size \in Nat
      BY <1>1, <1>2, <3>1, TypeSizes
    <3>6. t[m + j] \in Nat /\ t[m] \in Nat
      <4>1. m \in 0 .. Len(q)
        OBVIOUS
      <4> QED
        BY <1>4, <3>1, <4>1
    <3>7. PICK a, b, z : a = t[m + j] /\ b = t[m] /\ z = q[m + (j + 1)].size
      OBVIOUS
    <3>8. a \in Nat /\ b \in Nat /\ z \in Nat
      BY <3>5, <3>6, <3>7
    <3>9. u[j + 1] = (a - b) + z /\ t[m + (j + 1)] = a + z
      BY <3>2, <3>3, <3>4, <3>5, <3>7
    <3>10. (a - b) + z = (a + z) - b
      BY <3>8
    <3> QED
      BY <3>7, <3>9, <3>10, Zenon
  <2> HIDE DEF Agrees
  <2> QED
    BY <2>1, <2>2, Induction
<1>6. u[k - m] = t[m + (k - m)] - t[m]
  BY <1>2, <1>5
<1>7. m + (k - m) = k
  BY <1>1
<1> QED
  BY <1>2, <1>3, <1>6, <1>7 DEF p

LEMMA Aligned ==
  ASSUME NEW n \in Nat
  PROVE  simple_16_bit_align(n) \in Nat /\ simple_16_bit_align(n) >= n
<1> DEFINE k == (n + 15) \div 16
           r == (n + 15) % 16
<1>1. n + 15 = 16 * k + r /\ r \in 0 .. 15 /\ k \in Nat
  OBVIOUS
<1>2. simple_16_bit_align(n) = k * 16
  BY DEF simple_16_bit_align
<1> HIDE DEF k, r
<1> QED
  BY <1>1, <1>2

IsSignature(sig) ==
  sig.ret \in DOMAIN Immediates \cup {void} /\ sig.args \in Seq(DOMAIN Immediates)

\* The arguments lie next to each other, below the top of the space and above the return
\* value, the first one on top.
LEMMA Places ==
  ASSUME NEW sig, IsSignature(sig)
  PROVE  LET n == Len(sig.args)
             S == calculate_args_space(sig)
         IN  /\ n \in Nat /\ DOMAIN sig.args = 1 .. n /\ S \in Nat /\ sig.ret.size \in Nat
             /\ args_map(sig, 0) = S
             /\ \A j \in 1 .. n : /\ sig.args[j] \in DOMAIN Immediates
                                  /\ sig.args[j].size \in Nat \ {0}
                                  /\ args_map(sig, j - 1) = args_map(sig, j) + sig.args[j].size
             /\ \A j \in 0 .. n : /\ args_map(sig, j) \in Nat /\ args_map(sig, j) <= S
                                  /\ sig.ret.size <= args_map(sig, j)
             /\ args_map(sig, n) = S - SizeOf(sig.args) /\ SizeOf(sig.args) \in Nat
<1> DEFINE S == calculate_args_space(sig)
<1>1. PICK q, n, R : q = sig.args /\ n = Len(q) /\ R = sig.ret.size
  OBVIOUS
<1>2. q \in Seq(DOMAIN Immediates) /\ n \in Nat /\ DOMAIN q = 1 .. n
  BY <1>1 DEF IsSignature
<1>3. R \in Nat
  BY <1>1, TypeSizes DEF IsSignature, void
<1>4. \A j \in 1 .. n : q[j] \in DOMAIN Immediates /\ q[j].size \in Nat \ {0}
  BY <1>1, <1>2, TypeSizes
<1>5. PICK t : Sums(q, t) /\ SizeOf(q) = t[n]
  BY <1>1, <1>2, SumsExist
<1>6. /\ \A j \in 0 .. n : t[j] \in Nat
      /\ t[0] = 0 /\ \A j \in 1 .. n : t[j] = t[j - 1] + q[j].size
  BY <1>1, <1>5 DEF Sums
<1>7. ASSUME NEW j \in 0 .. n PROVE UpTo(q, j) = t[j]
  <2>1. 0 \in 0 .. Len(q) /\ j \in 0 .. Len(q) /\ 0 + 1 = 1
    BY <1>1, <1>2
  <2>2. SizeOf(SubSeq(q, 0 + 1, j)) = t[j] - t[0]
    BY <1>2, <1>5, <2>1, PartOfSum
  <2>3. t[j] - t[0] = t[j]
    BY <1>6
  <2> QED
    BY <2>1, <2>2, <2>3 DEF UpTo
<1> DEFINE Rising == { j \in Nat : \A m \in 0 .. n : j \in 0 .. n /\ m <= j => t[m] <= t[j] }
<1>8. Nat \subseteq Rising
  <2>1. 0 \in Rising
    BY <1>6
  <2>2. ASSUME NEW j \in Nat, j \in Rising PROVE j + 1 \in Rising
    <3> SUFFICES ASSUME NEW m \in 0 .. n, j + 1 \in 0 .. n, m <= j + 1 PROVE t[m] <= t[j + 1]
      OBVIOUS
    <3>1. CASE m = j + 1
      BY <1>6, <3>1
    <3>2. CASE m # j + 1
      <4>1. m <= j /\ j \in 0 .. n /\ j + 1 \in 1 .. n /\ (j + 1) - 1 = j
        BY <1>2, <3>2
      <4>2. t[m] <= t[j]
        BY <2>2, <4>1
      <4>3. t[j + 1] = t[j] + q[j + 1].size /\ q[j + 1].size \in Nat
        BY <1>4, <1>6, <4>1
      <4>4. t[m] \in Nat /\ t[j] \in Nat
        BY <1>6, <4>1
      <4> QED
        BY <4>2, <4>3, <4>4
    <3> QED
      BY <3>1, <3>2
  <2> HIDE DEF Rising
  <2> QED
    BY <2>1, <2>2, Induction
<1>9. \A j \in 0 .. n : t[j] <= t[n]
  BY <1>2, <1>8
<1>10. t[n] \in Nat
  BY <1>2, <1>6
<1>11. S = simple_16_bit_align(R + t[n])
  BY <1>1, <1>5 DEF calculate_args_space
<1>12. S \in Nat /\ S >= R + t[n]
  BY <1>3, <1>10, <1>11, Aligned
<1> HIDE DEF S
<1>13. ASSUME NEW j \in 0 .. n PROVE args_map(sig, j) = S - t[j]
  BY <1>1, <1>7 DEF args_map, S
<1>14. args_map(sig, 0) = S
  <2>1. 0 \in 0 .. n
    BY <1>2
  <2> QED
    BY <1>6, <1>12, <1>13, <2>1
<1>15. ASSUME NEW j \in 1 .. n PROVE args_map(sig, j - 1) = args_map(sig, j) + q[j].size
  <2>1. j \in 0 .. n /\ j - 1 \in 0 .. n
    BY <1>2
  <2>2. args_map(sig, j) = S - t[j] /\ args_map(sig, j - 1) = S - t[j - 1]
    BY <1>13, <2>1
  <2>3. t[j] = t[j - 1] + q[j].size /\ t[j - 1] \in Nat /\ q[j].size \in Nat
    BY <1>4, <1>6, <2>1
  <2> QED
    BY <1>12, <2>2, <2>3
<1>16. ASSUME NEW j \in 0 .. n
       PROVE  args_map(sig, j) \in Nat /\ args_map(sig, j) <= S /\ R <= args_map(sig, j)
  <2>1. args_map(sig, j) = S - t[j] /\ t[j] \in Nat /\ t[j] <= t[n]
    BY <1>6, <1>9, <1>13
  <2> QED
    BY <1>3, <1>10, <1>12, <2>1
<1>17. args_map(sig, n) = S - t[n]
  BY <1>2, <1>13
<1> QED
  BY <1>1, <1>2, <1>3, <1>4, <1>5, <1>10, <1>12, <1>14, <1>15, <1>16, <1>17 DEF S

\* Of two arguments the later one ends where the earlier one begins, or below.
LEMMA Apart ==
  ASSUME NEW sig, IsSignature(sig),
         NEW j \in 1 .. Len(sig.args), NEW k \in 0 .. Len(sig.args), k < j
  PROVE  /\ args_map(sig, j) + sig.args[j].size <= args_map(sig, k)
         /\ args_map(sig, j) < args_map(sig, k)
<1>1. PICK n, P : n = Len(sig.args) /\ P = [m \in 0 .. n |-> args_map(sig, m)]
  OBVIOUS
<1>2. n \in Nat /\ \A m \in 0 .. n : args_map(sig, m) = P[m]
  BY <1>1, Places
<1>3. /\ \A m \in 0 .. n : P[m] \in Nat
      /\ \A m \in 1 .. n : sig.args[m].size \in Nat \ {0} /\ P[m - 1] = P[m] + sig.args[m].size
  <2>1. \A m \in 1 .. n : m \in 0 .. n /\ m - 1 \in 0 .. n
    BY <1>2
  <2> QED
    BY <1>1, <1>2, <2>1, Places
<1> DEFINE Lower == { m \in Nat : \A l \in 0 .. n : m \in 1 .. n /\ l < m =>
                        P[m] + sig.args[m].size <= P[l] }
<1>4. Nat \subseteq Lower
  <2>1. 0 \in Lower
    OBVIOUS
  <2>2. ASSUME NEW m \in Nat, m \in Lower PROVE m + 1 \in Lower
    <3> SUFFICES ASSUME NEW l \in 0 .. n, m + 1 \in 1 .. n, l < m + 1
                 PROVE  P[m + 1] + sig.args[m + 1].size <= P[l]
      OBVIOUS
    <3>1. (m + 1) - 1 = m /\ m \in 0 .. n
      BY <1>2
    <3>2. P[m] = P[m + 1] + sig.args[m + 1].size /\ P[m] \in Nat /\ P[l] \in Nat
      BY <1>3, <3>1
    <3>3. CASE l = m
      BY <3>2, <3>3
    <3>4. CASE l # m
      <4>1. l < m /\ m \in 1 .. n
        BY <1>2, <3>4
      <4>2. P[m] + sig.args[m].size <= P[l] /\ sig.args[m].size \in Nat
        BY <1>3, <2>2, <4>1
      <4>3. PICK a, w, c : a = P[m] /\ w = sig.args[m].size /\ c = P[l]
        OBVIOUS
      <4>4. a \in Nat /\ w \in Nat /\ c \in Nat /\ a + w <= c
        BY <3>2, <4>2, <4>3
      <4>5. a <= c
        BY <4>4
      <4> QED
        BY <3>2, <4>3, <4>5
    <3> QED
      BY <3>3, <3>4
  <2> HIDE DEF Lower
  <2> QED
    BY <2>1, <2>2, Induction
<1>5. j \in Nat /\ j \in 1 .. n /\ j \in 0 .. n /\ k \in 0 .. n
  BY <1>1, <1>2
<1>6. P[j] + sig.args[j].size <= P[k]
  BY <1>4, <1>5
<1>7. P[j] \in Nat /\ P[k] \in Nat /\ sig.args[j].size \in Nat \ {0}
  BY <1>3, <1>5
<1>8. P[j] < P[k]
  <2>1. PICK a, w, c : a = P[j] /\ w = sig.args[j].size /\ c = P[k]
    OBVIOUS
  <2>2. a \in Nat /\ w \in Nat \ {0} /\ c \in Nat /\ a + w <= c
    BY <1>6, <1>7, <2>1
  <2>3. a < c
    BY <2>2
  <2> QED
    BY <2>1, <2>3
<1> QED
  BY <1>2, <1>5, <1>6, <1>8

\* A callee of any kind looks for its arguments where they are (create_frame_report;
\* NativeTrampoline::pass_arg, which walks up under gcc and down under clang).
LEMMA FoundThere ==
  ASSUME NEW sig, IsSignature(sig), NEW j \in 1 .. Len(sig.args),
         NEW callee \in {"compiled", "gcc", "clang"}
  PROVE  Found(callee, sig, j) = args_map(sig, j)
<1>1. PICK q, n, S : q = sig.args /\ n = Len(q) /\ S = calculate_args_space(sig)
  OBVIOUS
<1>2. q \in Seq(DOMAIN Immediates) /\ n \in Nat /\ S \in Nat /\ j \in 1 .. n
  BY <1>1, Places DEF IsSignature
<1>3. PICK t : Sums(q, t) /\ SizeOf(q) = t[n]
  BY <1>1, <1>2, SumsExist
<1>4. /\ \A k \in 0 .. n : t[k] \in Nat
      /\ t[0] = 0 /\ \A k \in 1 .. n : t[k] = t[k - 1] + q[k].size
  BY <1>1, <1>3 DEF Sums
<1>5. j \in 0 .. n /\ j - 1 \in 0 .. n /\ 0 \in 0 .. n /\ n \in j .. n /\ n \in 0 .. n
  BY <1>2
<1>6. ASSUME NEW k \in 0 .. n PROVE UpTo(q, k) = t[k]
  <2>1. SizeOf(SubSeq(q, 0 + 1, k)) = t[k] - t[0]
    BY <1>1, <1>2, <1>3, <1>5, PartOfSum
  <2>2. t[k] - t[0] = t[k] /\ 0 + 1 = 1
    BY <1>4
  <2> QED
    BY <2>1, <2>2 DEF UpTo
<1>7. SizeOf(SubSeq(q, j + 1, n)) = t[n] - t[j]
  BY <1>1, <1>2, <1>3, <1>5, PartOfSum
<1>8. args_map(sig, j) = S - t[j]
  BY <1>1, <1>5, <1>6 DEF args_map
<1>9. PICK a, b, c, z : a = t[j] /\ b = t[j - 1] /\ c = t[n] /\ z = q[j].size
  OBVIOUS
<1>10. a \in Nat /\ b \in Nat /\ c \in Nat /\ z \in Nat /\ a = b + z
  <2>1. q[j] \in DOMAIN Immediates
    BY <1>1, <1>2, Places
  <2>2. z \in Nat
    BY <1>9, <2>1, TypeSizes
  <2> QED
    BY <1>2, <1>4, <1>5, <1>9, <2>2
<1>11. CASE callee = "compiled"
  BY <1>11 DEF Found
<1>12. CASE callee = "gcc"
  <2>1. Found(callee, sig, j) = (S - c) + (c - a)
    BY <1>1, <1>3, <1>7, <1>9, <1>12 DEF Found, RightToLeft
  <2>2. (S - c) + (c - a) = S - a
    BY <1>2, <1>10
  <2> QED
    BY <1>8, <1>9, <2>1, <2>2
<1>13. CASE callee = "clang"
  <2>1. Found(callee, sig, j) = (S - b) - z
    BY <1>1, <1>5, <1>6, <1>9, <1>13 DEF Found, LeftToRight
  <2>2. (S - b) - z = S - a
    BY <1>2, <1>10
  <2> QED
    BY <1>8, <1>9, <2>1, <2>2
<1> QED
  BY <1>11, <1>12, <1>13

-----------------------------------------------------------------------------
(* A call.  What is in its space is known as long as nothing has changed   *)
(* the register that walks through it.                                     *)

IsShaped(c) ==
  c = [caller |-> c.caller, sig |-> c.sig, values |-> c.values, step |-> c.step, i |-> c.i,
       walk |-> c.walk, r11 |-> c.r11, cells |-> c.cells, alive |-> c.alive,
       astray |-> c.astray, spoiled |-> c.spoiled]

IsCall(c) ==
  /\ IsShaped(c) /\ c.caller \in {"native", "compiled"} /\ IsSignature(c.sig)
  /\ DOMAIN c.values = DOMAIN c.sig.args
  /\ \A j \in DOMAIN c.sig.args :
       /\ c.values[j].given \in Contents(c.sig.args[j])
       /\ c.values[j].meant \in {Unset, c.values[j].given}
  /\ c.i \in 1 .. Len(c.sig.args) + 1

\* What is in the space is of the types of the signature, and within it.
CellsInv(c) ==
  \A a \in DOMAIN c.cells :
    /\ a \in Nat /\ c.cells[a].type \in DOMAIN Immediates
    /\ c.cells[a].value \in Contents(c.cells[a].type)
    /\ a + c.cells[a].type.size <= calculate_args_space(c.sig)

\* No object is among the first j arguments compiled code has called something for.
Sure(c, j) == c.caller = "compiled" => \A k \in 1 .. j : ~ IsObject(c.sig.args[k])

Place(c, j) == args_map(c.sig, j)
ObjectsAt(c, J) == { Place(c, j) : j \in { j \in J : IsObject(c.sig.args[j]) } }
ReturnAt(c) == IF IsObject(c.sig.ret) THEN {0} ELSE {}

Arrived(c, j) ==
  /\ Holding(c, Place(c, j), c.sig.args[j])
  /\ c.cells[Place(c, j)].value = c.values[j].given
  /\ IsObject(c.sig.args[j]) => Place(c, j) \in c.alive

\* The first k arguments are passed.
Passed(c, k) ==
  /\ c.walk \in {Place(c, k), Wild} /\ (Sure(c, k) => c.walk = Place(c, k))
  /\ \A j \in 1 .. k : Sure(c, j - 1) => Arrived(c, j)
  /\ c.alive \subseteq ObjectsAt(c, 1 .. k)
  /\ ~ c.astray /\ ~ c.spoiled

\* Destroying the arguments writes over nothing in the space.
Untouched(c) == c.caller = "native" \/ Objects(c) = {}

\* The callee has returned: what is there to be taken and to be destroyed.
Returned(c) ==
  Untouched(c) =>
    /\ c.sig.ret # void => Holding(c, 0, c.sig.ret)
    /\ PassesRight(c) => \A j \in DOMAIN c.sig.args : Holding(c, Place(c, j), c.sig.args[j])

Right(c) == PassesRight(c) /\ CleansUpRight(c)

ToTake(c) ==
  /\ c.caller = "native" /\ c.walk = 0 /\ ~ c.astray /\ ~ c.spoiled
  /\ c.alive = ObjectsAt(c, 1 .. Len(c.sig.args)) \cup ReturnAt(c)

ToDropUp(c) ==
  LET left == Len(c.sig.args) + 1 - c.i
  IN  Right(c) => /\ ~ c.astray /\ ~ c.spoiled /\ c.alive = ObjectsAt(c, 1 .. left)
                  /\ Objects(c) # {} => c.walk = Place(c, left)

ToDropDown(c) ==
  /\ c.r11 \in {0, Wild} /\ (Objects(c) = {} => c.r11 = 0)
  /\ c.walk \in {Place(c, c.i - 1), Wild} /\ (Sure(c, c.i - 1) => c.walk = Place(c, c.i - 1))
  /\ Right(c) =>
       ~ c.astray /\ c.alive = ObjectsAt(c, c.i .. Len(c.sig.args)) \cup ReturnAt(c)

CallInv(c) ==
  /\ IsCall(c) /\ CellsInv(c)
  /\ c.step \in {"pass", "callee", "take", "drop", "done"}
  /\ c.step = "pass" => Passed(c, c.i - 1)
  /\ c.step = "callee" => Passed(c, Len(c.sig.args))
  /\ c.step \in {"take", "drop"} => Returned(c)
  /\ c.step = "take" => ToTake(c)
  /\ c.step = "drop" => IF c.caller = "native" THEN ToDropUp(c) ELSE ToDropDown(c)
  /\ c.step = "done" => (Right(c) => /\ ~ c.astray /\ c.alive = {}
                                     /\ c.caller = "native" => ~ c.spoiled)

\* d is c with x stored at a.
Stored(c, d, a, t, x) ==
  /\ d.caller = c.caller /\ d.sig = c.sig /\ d.values = c.values /\ d.step = c.step
  /\ d.i = c.i /\ d.walk = c.walk /\ d.r11 = c.r11 /\ d.astray = c.astray
  /\ d.spoiled = c.spoiled
  /\ Holding(d, a, t) /\ d.cells[a].value = x
  /\ \A b, u : Holding(c, b, u) /\ b # a /\ (b + u.size <= a \/ a + t.size <= b)
                 => Holding(d, b, u) /\ d.cells[b].value = c.cells[b].value
  /\ d.alive = IF IsObject(t) THEN c.alive \cup {a} ELSE c.alive

LEMMA StoreKeeps ==
  ASSUME NEW c, IsCall(c), CellsInv(c), NEW a \in Nat, NEW t \in DOMAIN Immediates,
         NEW x \in Contents(t), a + t.size <= calculate_args_space(c.sig),
         NEW d, d = Store(c, a, t, x)
  PROVE  IsCall(d) /\ CellsInv(d) /\ Stored(c, d, a, t, x)
<1> DEFINE apart(b) == b + c.cells[b].type.size <= a \/ a + t.size <= b
           kept == { b \in DOMAIN c.cells : apart(b) }
           cells2 == [b \in kept \cup {a} |->
                        IF b = a THEN [type |-> t, value |-> x] ELSE c.cells[b]]
           alive2 == IF IsObject(t) THEN c.alive \cup {a} ELSE c.alive
<1>1. a # Wild
  BY DEF Wild
<1>2. d = [c EXCEPT !.cells = cells2, !.alive = alive2]
  BY <1>1 DEF Store
<1>3. /\ DOMAIN cells2 = kept \cup {a} /\ cells2[a] = [type |-> t, value |-> x]
      /\ \A b \in kept \ {a} : cells2[b] = c.cells[b]
  OBVIOUS
<1>4. \A b : b \in kept <=> b \in DOMAIN c.cells /\ apart(b)
  OBVIOUS
<1> HIDE DEF cells2, alive2, kept
<1>5. /\ d.caller = c.caller /\ d.sig = c.sig /\ d.values = c.values /\ d.step = c.step
      /\ d.i = c.i /\ d.walk = c.walk /\ d.r11 = c.r11 /\ d.astray = c.astray
      /\ d.spoiled = c.spoiled /\ d.cells = cells2 /\ d.alive = alive2 /\ IsShaped(d)
  BY <1>2 DEF IsCall, IsShaped
<1>6. IsCall(d)
  BY <1>5 DEF IsCall
<1>7. CellsInv(d)
  <2> SUFFICES ASSUME NEW b \in DOMAIN cells2
               PROVE  /\ b \in Nat /\ cells2[b].type \in DOMAIN Immediates
                      /\ cells2[b].value \in Contents(cells2[b].type)
                      /\ b + cells2[b].type.size <= calculate_args_space(c.sig)
    BY <1>5 DEF CellsInv
  <2>1. CASE b = a
    BY <1>3, <2>1
  <2>2. CASE b # a
    <3>1. b \in DOMAIN c.cells /\ cells2[b] = c.cells[b]
      BY <1>3, <1>4, <2>2
    <3> QED
      BY <3>1 DEF CellsInv
  <2> QED
    BY <2>1, <2>2
<1>8. Holding(d, a, t) /\ d.cells[a].value = x
  BY <1>3, <1>5 DEF Holding
<1>9. ASSUME NEW b, NEW u, Holding(c, b, u), b # a, b + u.size <= a \/ a + t.size <= b
      PROVE  Holding(d, b, u) /\ d.cells[b].value = c.cells[b].value
  <2>1. b \in kept
    BY <1>4, <1>9 DEF Holding
  <2> QED
    BY <1>3, <1>5, <1>9, <2>1 DEF Holding
<1> QED
  BY <1>5, <1>6, <1>7, <1>8, <1>9 DEF alive2, Stored

\* What the claims about a call depend on of it.
LEMMA SameCall ==
  ASSUME NEW c, NEW d, d.caller = c.caller, d.sig = c.sig
  PROVE  /\ \A j : (Sure(d, j) <=> Sure(c, j)) /\ Place(d, j) = Place(c, j)
         /\ \A J : ObjectsAt(d, J) = ObjectsAt(c, J)
         /\ ReturnAt(d) = ReturnAt(c) /\ Objects(d) = Objects(c)
         /\ (PassesRight(d) <=> PassesRight(c)) /\ (Right(d) <=> Right(c))
         /\ Untouched(d) <=> Untouched(c)
<1>1. Objects(d) = Objects(c) /\ \A j : (Sure(d, j) <=> Sure(c, j)) /\ Place(d, j) = Place(c, j)
  BY DEF Objects, Sure, Place
<1>2. PassesRight(d) <=> PassesRight(c)
  BY <1>1 DEF PassesRight
<1>3. CleansUpRight(d) <=> CleansUpRight(c)
  BY <1>1 DEF CleansUpRight
<1> QED
  BY <1>1, <1>2, <1>3 DEF ObjectsAt, ReturnAt, Right, Untouched

LEMMA NewCallPasses ==
  ASSUME NEW caller \in {"native", "compiled"}, NEW sig, IsSignature(sig), NEW values,
         DOMAIN values = DOMAIN sig.args,
         \A j \in DOMAIN sig.args : /\ values[j].given \in Contents(sig.args[j])
                                    /\ values[j].meant \in {Unset, values[j].given}
  PROVE  LET c == NewCall(caller, sig, values)
         IN  /\ CallInv(c) /\ c.caller = caller /\ c.sig = sig /\ c.values = values
             /\ c.step = "pass"
<1> DEFINE c == NewCall(caller, sig, values)
<1>1. /\ c.caller = caller /\ c.sig = sig /\ c.values = values /\ c.step = "pass" /\ c.i = 1
      /\ c.walk = calculate_args_space(sig) /\ c.cells = <<>> /\ c.alive = {} /\ c.astray = FALSE
      /\ c.spoiled = FALSE /\ IsShaped(c)
  BY DEF NewCall, IsShaped
<1> HIDE DEF c
<1>2. Len(sig.args) \in Nat /\ args_map(sig, 0) = calculate_args_space(sig)
  BY Places
<1>3. IsCall(c)
  BY <1>1, <1>2 DEF IsCall
<1>4. CellsInv(c)
  BY <1>1 DEF CellsInv
<1>5. Passed(c, 0)
  BY <1>1, <1>2 DEF Passed, Place
<1>6. CallInv(c)
  BY <1>1, <1>3, <1>4, <1>5 DEF CallInv
<1> QED
  BY <1>1, <1>6 DEF c

\* The register after one more argument: at its place, unless something has changed it.
Walked(c, k, h, a, r) ==
  /\ a = IF c.walk = Wild THEN Wild ELSE Place(c, k)
  /\ r \in {Place(c, k), Wild} /\ (Sure(c, k) => r = Place(c, k))
  /\ Sure(c, k) => Sure(c, h)

LEMMA WalksDown ==
  ASSUME NEW c, IsCall(c), NEW k \in 1 .. Len(c.sig.args), NEW t, t = c.sig.args[k],
         NEW h, h = k - 1,
         c.walk \in {Place(c, h), Wild}, Sure(c, h) => c.walk = Place(c, h),
         NEW a, a = Below(c.walk, t), NEW r \in Called(c, t, a)
  PROVE  Walked(c, k, h, a, r)
<1>1. /\ Len(c.sig.args) \in Nat /\ k \in 1 .. Len(c.sig.args)
      /\ Place(c, k - 1) = Place(c, k) + t.size /\ t.size \in Nat /\ Place(c, k) \in Nat
      /\ Place(c, k - 1) \in Nat
  <2>1. IsSignature(c.sig)
    BY DEF IsCall
  <2>2. k \in 0 .. Len(c.sig.args) /\ k - 1 \in 0 .. Len(c.sig.args)
    BY <2>1, Places
  <2> QED
    BY <2>1, <2>2, Places DEF Place
<1>2. a = IF c.walk = Wild THEN Wild ELSE Place(c, k)
  <2>1. CASE c.walk = Wild
    BY <2>1 DEF Below
  <2>2. CASE c.walk # Wild
    <3>1. a = Place(c, k - 1) - t.size
      BY <2>2 DEF Below
    <3>2. PICK p, z : p = Place(c, k) /\ z = t.size
      OBVIOUS
    <3>3. a = (p + z) - z /\ p \in Nat /\ z \in Nat
      BY <1>1, <3>1, <3>2
    <3>4. a = p
      BY <3>3
    <3> QED
      BY <2>2, <3>2, <3>4
  <2> QED
    BY <2>1, <2>2
<1>3. r \in {a, Wild}
  BY DEF Called
<1>4. Sure(c, k) => Sure(c, k - 1)
  <2>1. 1 .. k - 1 \subseteq 1 .. k
    BY <1>1
  <2> QED
    BY <2>1 DEF Sure
<1>5. ASSUME Sure(c, k) PROVE r = Place(c, k)
  <2>1. ~ (c.caller = "compiled" /\ IsObject(t))
    <3>1. k \in 1 .. k
      BY <1>1
    <3> QED
      BY <1>5, <3>1 DEF Sure
  <2>2. r = a
    BY <2>1 DEF Called
  <2>3. c.walk # Wild
    BY <1>1, <1>4, <1>5 DEF Wild
  <2> QED
    BY <1>2, <2>2, <2>3
<1> QED
  BY <1>2, <1>3, <1>4, <1>5 DEF Walked

LEMMA PassKeeps ==
  ASSUME NEW c, CallInv(c), c.step = "pass", More(c), NEW d \in PassArgument(c)
  PROVE  /\ CallInv(d) /\ d.caller = c.caller /\ d.sig = c.sig /\ d.values = c.values
         /\ d.step = "pass"
<1>1. PICK k, t, x : k = c.i /\ t = c.sig.args[k] /\ x = c.values[k].given
  OBVIOUS
<1>2. IsCall(c) /\ CellsInv(c) /\ Passed(c, k - 1) /\ IsSignature(c.sig)
  BY <1>1 DEF CallInv, IsCall
<1>3. PICK n : n = Len(c.sig.args)
  OBVIOUS
<1>4. /\ n \in Nat /\ k \in 1 .. n /\ k \in 0 .. n /\ k - 1 \in 0 .. n /\ DOMAIN c.sig.args = 1 .. n
  <2>1. n \in Nat /\ DOMAIN c.sig.args = 1 .. n
    BY <1>2, <1>3, Places
  <2>2. k \in 1 .. n + 1 /\ k <= n
    BY <1>1, <1>2, <1>3 DEF IsCall, More
  <2> QED
    BY <2>1, <2>2
<1>5. t \in DOMAIN Immediates /\ t.size \in Nat \ {0} /\ x \in Contents(t)
  <2>1. t \in DOMAIN Immediates /\ t.size \in Nat \ {0}
    BY <1>1, <1>2, <1>3, <1>4, Places
  <2> QED
    BY <1>1, <1>2, <1>4, <2>1 DEF IsCall
<1>6. PICK a : a = Below(c.walk, t)
  OBVIOUS
<1>9. PICK s : s = Store(c, a, t, x)
  OBVIOUS
<1>7. PICK r \in Called(c, t, a) : d = [s EXCEPT !.i = @ + 1, !.walk = r]
  <2>1. \E r \in Called(c, type(c), Below(c.walk, type(c))) :
          d = [Store(c, Below(c.walk, type(c)), type(c), c.values[c.i].given) EXCEPT
                 !.i = @ + 1, !.walk = r]
    BY Zenon DEF PassArgument
  <2>2. type(c) = t /\ Below(c.walk, type(c)) = a /\ c.values[c.i].given = x
    BY <1>1, <1>6 DEF type
  <2> QED
    BY <1>9, <2>1, <2>2, Zenon
<1>8. /\ a = IF c.walk = Wild THEN Wild ELSE Place(c, k)
      /\ r \in {Place(c, k), Wild} /\ (Sure(c, k) => r = Place(c, k))
      /\ Sure(c, k) => Sure(c, k - 1)
  <2>1. PICK h : h = k - 1
    OBVIOUS
  <2>5. c.walk \in {Place(c, h), Wild} /\ (Sure(c, h) => c.walk = Place(c, h))
    BY <1>2, <2>1 DEF Passed
  <2>2. k \in 1 .. Len(c.sig.args) /\ IsCall(c)
    BY <1>2, <1>3, <1>4
  <2>3. t = c.sig.args[k]
    BY <1>1
  <2>4. r \in Called(c, t, a)
    OBVIOUS
  <2>6. Walked(c, k, h, a, r)
    BY <1>6, <2>1, <2>2, <2>3, <2>4, <2>5, WalksDown
  <2> QED
    BY <2>1, <2>6 DEF Walked
<1>10. Place(c, k) \in Nat /\ Place(c, k) + t.size <= calculate_args_space(c.sig)
  <2>1. Place(c, k - 1) = Place(c, k) + t.size /\ Place(c, k) \in Nat
    BY <1>1, <1>2, <1>3, <1>4, Places DEF Place
  <2>2. Place(c, k - 1) <= calculate_args_space(c.sig)
    BY <1>2, <1>3, <1>4, Places DEF Place
  <2> QED
    BY <2>1, <2>2
<1>11. /\ IsCall(s) /\ CellsInv(s) /\ s.caller = c.caller /\ s.sig = c.sig
       /\ s.values = c.values /\ s.step = c.step /\ s.i = c.i /\ s.astray = c.astray
       /\ s.spoiled = c.spoiled
       /\ Sure(c, k - 1) => Arrived(s, k)
       /\ \A j \in 1 .. k - 1 : Sure(c, j - 1) => Arrived(s, j)
       /\ s.alive \subseteq c.alive \cup (IF IsObject(t) THEN {Place(c, k)} ELSE {})
  <2>1. CASE c.walk = Wild
    <3>1. s = c
      BY <1>8, <1>9, <2>1 DEF Store
    <3>2. ~ Sure(c, k - 1)
      BY <1>2, <1>3, <1>4, <2>1, Places DEF Passed, Place, Wild
    <3> QED
      BY <1>2, <3>1, <3>2 DEF Passed
  <2>2. CASE c.walk # Wild
    <3>1. a = Place(c, k) /\ a \in Nat /\ a + t.size <= calculate_args_space(c.sig)
      BY <1>8, <1>10, <2>2
    <3>2. /\ IsCall(s) /\ CellsInv(s) /\ s.caller = c.caller /\ s.sig = c.sig
          /\ s.values = c.values /\ s.step = c.step /\ s.i = c.i /\ s.astray = c.astray
          /\ s.spoiled = c.spoiled /\ Holding(s, a, t) /\ s.cells[a].value = x
          /\ \A b, u : Holding(c, b, u) /\ b # a /\ (b + u.size <= a \/ a + t.size <= b)
                         => Holding(s, b, u) /\ s.cells[b].value = c.cells[b].value
          /\ s.alive = IF IsObject(t) THEN c.alive \cup {a} ELSE c.alive
      <4>1. IsCall(c) /\ CellsInv(c) /\ t \in DOMAIN Immediates
        BY <1>2, <1>5
      <4>2. x \in Contents(t)
        BY <1>5
      <4>3. a \in Nat /\ a + t.size <= calculate_args_space(c.sig)
        BY <3>1
      <4>4. IsCall(s) /\ CellsInv(s) /\ Stored(c, s, a, t, x)
        BY <1>9, <4>1, <4>2, <4>3, StoreKeeps
      <4> QED
        BY <4>4 DEF Stored
    <3>3. Arrived(s, k)
      <4>1. Place(s, k) = a /\ s.sig.args[k] = t
        BY <1>1, <3>1, <3>2 DEF Place
      <4>2. IsObject(t) => a \in s.alive
        BY <3>2
      <4> QED
        BY <1>1, <3>2, <4>1, <4>2 DEF Arrived
    <3>4. ASSUME NEW j \in 1 .. k - 1, Sure(c, j - 1) PROVE Arrived(s, j)
      <4>1. Arrived(c, j)
        BY <1>2, <3>4 DEF Passed
      <4>2. j \in 0 .. n /\ j < k
        BY <1>4
      <4>3. a + t.size <= Place(c, j) /\ a < Place(c, j)
        BY <1>1, <1>2, <1>3, <1>4, <3>1, <4>2, Apart DEF Place
      <4>4. Place(c, j) # a
        <5>1. Place(c, j) \in Nat
          BY <1>2, <1>3, <4>2, Places DEF Place
        <5> QED
          BY <3>1, <4>3, <5>1
      <4>5. /\ Holding(s, Place(c, j), c.sig.args[j])
            /\ s.cells[Place(c, j)].value = c.cells[Place(c, j)].value
        BY <3>2, <4>1, <4>3, <4>4 DEF Arrived
      <4>6. c.alive \subseteq s.alive
        BY <3>2
      <4>7. Place(s, j) = Place(c, j)
        BY <3>2 DEF Place
      <4> QED
        BY <3>2, <4>1, <4>5, <4>6, <4>7 DEF Arrived
    <3> QED
      BY <3>1, <3>2, <3>3, <3>4
  <2> QED
    BY <2>1, <2>2
<1>12. /\ d.caller = c.caller /\ d.sig = c.sig /\ d.values = c.values /\ d.step = c.step
       /\ d.i = k + 1 /\ d.walk = r /\ d.cells = s.cells /\ d.alive = s.alive
       /\ d.astray = c.astray /\ d.spoiled = c.spoiled /\ IsShaped(d)
  BY <1>1, <1>7, <1>9, <1>11 DEF IsCall, IsShaped
<1>13. IsCall(d)
  <2>1. k + 1 \in 1 .. n + 1
    BY <1>4
  <2> QED
    BY <1>2, <1>3, <1>12, <2>1 DEF IsCall
<1>14. CellsInv(d)
  BY <1>11, <1>12 DEF CellsInv
<1>15. Passed(d, k)
  <2>1. /\ \A j : (Sure(d, j) <=> Sure(c, j)) /\ Place(d, j) = Place(c, j)
        /\ \A J : ObjectsAt(d, J) = ObjectsAt(c, J)
    BY <1>12, SameCall
  <2>2. \A j : Arrived(s, j) => Arrived(d, j)
    BY <1>11, <1>12 DEF Arrived, Holding, Place
  <2>3. ASSUME NEW j \in 1 .. k, Sure(d, j - 1) PROVE Arrived(d, j)
    <3>1. j = k \/ j \in 1 .. k - 1
      BY <1>4
    <3> QED
      BY <1>11, <2>1, <2>2, <2>3, <3>1
  <2>4. d.alive \subseteq ObjectsAt(d, 1 .. k)
    <3>1. c.alive \subseteq ObjectsAt(c, 1 .. k - 1)
      BY <1>2 DEF Passed
    <3>2. 1 .. k - 1 \subseteq 1 .. k /\ k \in 1 .. k
      BY <1>4
    <3>3. ObjectsAt(c, 1 .. k - 1) \subseteq ObjectsAt(c, 1 .. k)
      BY <3>2 DEF ObjectsAt
    <3>4. IsObject(t) => Place(c, k) \in ObjectsAt(c, 1 .. k)
      BY <1>1, <3>2 DEF ObjectsAt
    <3> QED
      BY <1>11, <1>12, <2>1, <3>1, <3>3, <3>4
  <2>5. ~ d.astray /\ ~ d.spoiled
    BY <1>2, <1>12 DEF Passed
  <2> QED
    BY <1>8, <1>12, <2>1, <2>3, <2>4, <2>5 DEF Passed
<1>16. CallInv(d)
  <2>1. (k + 1) - 1 = k
    BY <1>4
  <2> QED
    BY <1>12, <1>13, <1>14, <1>15, <2>1 DEF CallInv
<1> QED
  BY <1>12, <1>16

\* d goes on with the call c.
Continues(c, d) == d.caller = c.caller /\ d.sig = c.sig /\ d.values = c.values

LEMMA EnterKeeps ==
  ASSUME NEW c, CallInv(c), c.step = "pass", ~ More(c), NEW d, d = Enter(c)
  PROVE  CallInv(d) /\ Continues(c, d) /\ d.step = "callee"
<1>1. IsCall(c) /\ CellsInv(c) /\ Passed(c, c.i - 1) /\ IsSignature(c.sig)
  BY DEF CallInv, IsCall
<1>2. PICK n : n = Len(c.sig.args) /\ n \in Nat
  BY <1>1, Places
<1>3. c.i - 1 = n
  BY <1>1, <1>2 DEF IsCall, More
<1>4. /\ Continues(c, d) /\ d.step = "callee" /\ d.i = c.i /\ d.walk = c.walk /\ d.cells = c.cells
      /\ d.alive = c.alive /\ d.astray = c.astray /\ d.spoiled = c.spoiled /\ IsShaped(d)
  BY <1>1 DEF Enter, IsCall, IsShaped, Continues
<1>5. IsCall(d) /\ CellsInv(d)
  BY <1>1, <1>4 DEF IsCall, CellsInv, Continues
<1>6. Passed(d, n)
  <2>1. /\ \A j : (Sure(d, j) <=> Sure(c, j)) /\ Place(d, j) = Place(c, j)
        /\ \A J : ObjectsAt(d, J) = ObjectsAt(c, J)
    BY <1>4, SameCall DEF Continues
  <2>2. \A j : Arrived(c, j) => Arrived(d, j)
    BY <1>4, <2>1 DEF Arrived, Holding, Continues
  <2> QED
    BY <1>1, <1>3, <1>4, <2>1, <2>2 DEF Passed
<1> QED
  BY <1>2, <1>4, <1>5, <1>6 DEF CallInv, Continues

\* If nothing is passed after an object, every argument arrives.
LEMMA AllArrive ==
  ASSUME NEW c, CallInv(c), c.step = "callee", PassesRight(c)
  PROVE  /\ \A j \in 1 .. Len(c.sig.args) : Arrived(c, j)
         /\ c.alive = ObjectsAt(c, 1 .. Len(c.sig.args))
<1>1. IsSignature(c.sig) /\ Passed(c, Len(c.sig.args))
  BY DEF CallInv, IsCall
<1>2. PICK n : n = Len(c.sig.args) /\ n \in Nat /\ DOMAIN c.sig.args = 1 .. n
  BY <1>1, Places
<1>3. ASSUME NEW j \in 1 .. n PROVE Arrived(c, j)
  <2>1. ASSUME c.caller = "compiled", NEW k \in 1 .. j - 1 PROVE ~ IsObject(c.sig.args[k])
    <3>1. k \in 1 .. n /\ k # n
      BY <1>2
    <3> QED
      BY <1>2, <2>1, <3>1 DEF PassesRight, Objects
  <2>2. Sure(c, j - 1)
    BY <2>1 DEF Sure
  <2> QED
    BY <1>1, <1>2, <2>2 DEF Passed
<1>4. ObjectsAt(c, 1 .. n) \subseteq c.alive
  BY <1>3 DEF ObjectsAt, Arrived
<1> QED
  BY <1>1, <1>2, <1>3, <1>4 DEF Passed

\* s is c after the return value has been stored below the arguments.
WithReturn(c, s, x) ==
  /\ IsCall(s) /\ CellsInv(s) /\ Continues(c, s) /\ s.step = c.step /\ s.i = c.i
  /\ s.astray = FALSE /\ s.spoiled = FALSE /\ s.alive = c.alive \cup ReturnAt(c)
  /\ c.sig.ret # void => Holding(s, 0, c.sig.ret) /\ s.cells[0].value = x
  /\ \A j \in 1 .. Len(c.sig.args) : Arrived(c, j) => Holding(s, Place(c, j), c.sig.args[j])

LEMMA ReturnStored ==
  ASSUME NEW c, CallInv(c), c.step = "callee", NEW x, c.sig.ret # void => x \in Contents(c.sig.ret),
         NEW s, s = IF c.sig.ret.size = 0 THEN c ELSE Store(c, 0, c.sig.ret, x)
  PROVE  WithReturn(c, s, x)
<1> USE DEF WithReturn
<1>1. IsCall(c) /\ CellsInv(c) /\ IsSignature(c.sig) /\ Passed(c, Len(c.sig.args))
  BY DEF CallInv, IsCall
<1>2. PICK n, t : n = Len(c.sig.args) /\ t = c.sig.ret
  OBVIOUS
<1>3. c.astray = FALSE /\ c.spoiled = FALSE
  BY <1>1 DEF Passed, CallInv
<1>4. CASE t = void
  <2>1. s = c
    BY <1>2, <1>4 DEF void
  <2>2. ReturnAt(c) = {}
    BY <1>2, <1>4 DEF ReturnAt, IsObject, is_primitive, void
  <2> QED
    BY <1>1, <1>2, <1>3, <1>4, <2>1, <2>2 DEF Continues, Arrived
<1>5. CASE t # void
  <2>1. t \in DOMAIN Immediates /\ t.size \in Nat \ {0} /\ x \in Contents(t)
    BY <1>1, <1>2, <1>5, TypeSizes DEF IsSignature
  <2>2. 0 + t.size <= calculate_args_space(c.sig) /\ \A j \in 1 .. n : t.size <= Place(c, j)
    <3>1. n \in Nat /\ 0 \in 0 .. n /\ \A j \in 1 .. n : j \in 0 .. n
      BY <1>1, <1>2, Places
    <3>2. t.size <= args_map(c.sig, 0) /\ args_map(c.sig, 0) = calculate_args_space(c.sig)
      BY <1>1, <1>2, <3>1, Places
    <3>3. \A j \in 1 .. n : t.size <= Place(c, j)
      BY <1>1, <1>2, <3>1, Places DEF Place
    <3> QED
      BY <2>1, <3>2, <3>3
  <2>3. s = Store(c, 0, t, x)
    BY <1>2, <2>1
  <2>4. IsCall(s) /\ CellsInv(s) /\ Stored(c, s, 0, t, x)
    <3>1. PICK a : a = 0 /\ a \in Nat
      OBVIOUS
    <3>2. a + t.size <= calculate_args_space(c.sig) /\ s = Store(c, a, t, x)
      BY <2>2, <2>3, <3>1
    <3>3. IsCall(s) /\ CellsInv(s) /\ Stored(c, s, a, t, x)
      BY <1>1, <2>1, <3>1, <3>2, StoreKeeps
    <3> QED
      BY <3>1, <3>3
  <2>5. ASSUME NEW j \in 1 .. n, Arrived(c, j) PROVE Holding(s, Place(c, j), c.sig.args[j])
    <3>1. Holding(c, Place(c, j), c.sig.args[j]) /\ t.size <= Place(c, j)
      BY <2>2, <2>5 DEF Arrived
    <3>2. PICK b, z : b = Place(c, j) /\ z = t.size
      OBVIOUS
    <3>3. b \in Nat
      <4>1. j \in 0 .. n
        BY <1>1, <1>2, Places
      <4> QED
        BY <1>1, <1>2, <3>2, <4>1, Places DEF Place
    <3>4. b # 0 /\ 0 + z <= b
      BY <2>1, <3>1, <3>2, <3>3
    <3> QED
      BY <2>4, <3>1, <3>2, <3>4 DEF Stored
  <2>6. s.alive = c.alive \cup ReturnAt(c)
    BY <1>2, <2>4 DEF Stored, ReturnAt
  <2> QED
    BY <1>2, <1>3, <2>4, <2>5, <2>6 DEF Stored, Continues
<1> QED
  BY <1>4, <1>5

LEMMA LeaveKeeps ==
  ASSUME NEW c, CallInv(c), c.step = "callee", NEW x, c.sig.ret # void => x \in Contents(c.sig.ret),
         NEW d, d = Leave(c, x)
  PROVE  /\ CallInv(d) /\ Continues(c, d)
         /\ d.step = IF c.caller = "native" THEN "take" ELSE "drop"
         /\ c.sig.ret # void => d.cells[0].value = x
<1>1. PICK s : s = IF c.sig.ret.size = 0 THEN c ELSE Store(c, 0, c.sig.ret, x)
  OBVIOUS
<1>2. PICK n : n = Len(c.sig.args)
  OBVIOUS
<1>3. /\ IsCall(s) /\ CellsInv(s) /\ Continues(c, s) /\ s.step = c.step /\ s.i = c.i
      /\ s.astray = FALSE /\ s.spoiled = FALSE /\ s.alive = c.alive \cup ReturnAt(c)
      /\ c.sig.ret # void => Holding(s, 0, c.sig.ret) /\ s.cells[0].value = x
      /\ \A j \in 1 .. n : Arrived(c, j) => Holding(s, Place(c, j), c.sig.args[j])
  <2>1. c.sig.ret # void => x \in Contents(c.sig.ret)
    OBVIOUS
  <2>2. CallInv(c) /\ c.step = "callee"
    OBVIOUS
  <2>3. WithReturn(c, s, x)
    BY <1>1, <2>1, <2>2, ReturnStored
  <2> QED
    BY <1>2, <2>3 DEF WithReturn
<1>4. IsCall(c) /\ IsSignature(c.sig)
  BY DEF CallInv, IsCall
<1>5. /\ n \in Nat /\ DOMAIN c.sig.args = 1 .. n /\ 1 \in 1 .. n + 1
      /\ Place(c, 0) = calculate_args_space(c.sig)
  BY <1>2, <1>4, Places DEF Place
<1>6. d = IF s.caller = "native" THEN [s EXCEPT !.step = "take", !.walk = 0]
          ELSE [s EXCEPT !.step = "drop", !.i = 1, !.walk = calculate_args_space(s.sig), !.r11 = 0]
  BY <1>1, <1>3 DEF Leave, Continues
<1>7. /\ Continues(c, d) /\ d.cells = s.cells /\ d.alive = s.alive /\ d.astray = FALSE
      /\ d.spoiled = FALSE /\ IsShaped(d)
      /\ c.caller = "native" => d.step = "take" /\ d.walk = 0 /\ d.i = c.i
      /\ c.caller = "compiled" => /\ d.step = "drop" /\ d.i = 1 /\ d.r11 = 0
                                  /\ d.walk = calculate_args_space(c.sig)
  <2>1. /\ IsShaped(s) /\ s.caller = c.caller /\ s.sig = c.sig /\ s.values = c.values
        /\ s.i = c.i /\ s.astray = FALSE /\ s.spoiled = FALSE
    BY <1>3 DEF IsCall, Continues
  <2>2. CASE s.caller = "native"
    <3>1. d = [s EXCEPT !.step = "take", !.walk = 0]
      BY <1>6, <2>2
    <3> QED
      BY <2>1, <2>2, <3>1 DEF IsShaped, Continues
  <2>3. CASE s.caller # "native"
    <3>1. PICK w : w = calculate_args_space(c.sig)
      OBVIOUS
    <3>2. d = [s EXCEPT !.step = "drop", !.i = 1, !.walk = w, !.r11 = 0]
      BY <1>6, <2>1, <2>3, <3>1
    <3> QED
      BY <2>1, <2>3, <3>1, <3>2 DEF IsShaped, Continues
  <2> QED
    BY <2>2, <2>3
<1>8. /\ \A j : (Sure(d, j) <=> Sure(c, j)) /\ Place(d, j) = Place(c, j)
      /\ \A J : ObjectsAt(d, J) = ObjectsAt(c, J)
      /\ ReturnAt(d) = ReturnAt(c) /\ (PassesRight(d) <=> PassesRight(c)) /\ (Right(d) <=> Right(c))
  BY <1>7, SameCall DEF Continues
<1>9. d.i \in 1 .. n + 1
  BY <1>2, <1>4, <1>5, <1>7 DEF IsCall
<1>10. IsCall(d) /\ CellsInv(d)
  BY <1>2, <1>3, <1>4, <1>7, <1>9 DEF IsCall, CellsInv, Continues
<1>11. PassesRight(c) => /\ \A j \in 1 .. n : Arrived(c, j)
                         /\ c.alive = ObjectsAt(c, 1 .. n)
  BY <1>2, AllArrive
<1>12. Returned(d)
  <2>1. d.sig = c.sig
    BY <1>7 DEF Continues
  <2>2. c.sig.ret # void => Holding(d, 0, c.sig.ret)
    BY <1>3, <1>7 DEF Holding
  <2>3. ASSUME PassesRight(c), NEW j \in 1 .. n PROVE Holding(d, Place(c, j), c.sig.args[j])
    <3>1. Holding(s, Place(c, j), c.sig.args[j])
      BY <1>3, <1>11, <2>3
    <3> QED
      BY <1>7, <3>1 DEF Holding
  <2> QED
    BY <1>5, <1>8, <2>1, <2>2, <2>3 DEF Returned
<1>13. CASE c.caller = "native"
  <2>1. PassesRight(c)
    BY <1>13 DEF PassesRight
  <2>2. d.alive = ObjectsAt(d, 1 .. n) \cup ReturnAt(d)
    BY <1>3, <1>7, <1>8, <1>11, <2>1
  <2>3. ToTake(d)
    BY <1>2, <1>7, <1>13, <2>2 DEF ToTake, Continues
  <2> QED
    BY <1>3, <1>7, <1>10, <1>12, <1>13, <2>3 DEF CallInv
<1>14. CASE c.caller = "compiled"
  <2>1. d.walk = Place(d, d.i - 1)
    BY <1>5, <1>7, <1>8, <1>14
  <2>2. Right(d) => d.alive = ObjectsAt(d, d.i .. n) \cup ReturnAt(d)
    BY <1>3, <1>7, <1>8, <1>11, <1>14 DEF Right
  <2>3. ToDropDown(d)
    BY <1>2, <1>7, <1>14, <2>1, <2>2 DEF ToDropDown, Continues
  <2>4. d.caller # "native"
    BY <1>7, <1>14 DEF Continues
  <2> QED
    BY <1>3, <1>7, <1>10, <1>12, <1>14, <2>3, <2>4 DEF CallInv
<1> QED
  BY <1>4, <1>13, <1>14 DEF IsCall

\* d is c after its space was written over for a call on an object of type t.
Narrowed(c, d, t) ==
  /\ Continues(c, d) /\ d.step = c.step /\ d.i = c.i /\ d.walk = c.walk /\ d.r11 = c.r11
  /\ d.alive = c.alive /\ d.astray = c.astray /\ d.spoiled = c.spoiled
  /\ IsShaped(d) /\ CellsInv(d)
  /\ c.caller = "native" \/ ~ IsObject(t) => d = c

LEMMA CollapseKeeps ==
  ASSUME NEW c, IsCall(c), CellsInv(c), NEW t, NEW d \in Collapsed(c, t)
  PROVE  Narrowed(c, d, t)
<1>1. CASE c.caller = "compiled" /\ IsObject(t)
  <2>1. PICK spared \in SUBSET DOMAIN c.cells : d = [c EXCEPT !.cells = Restrict(c.cells, spared)]
    BY <1>1 DEF Collapsed, Overrun
  <2>2. PICK cells2 : cells2 = Restrict(c.cells, spared)
    OBVIOUS
  <2>3. DOMAIN cells2 = spared /\ \A a \in spared : cells2[a] = c.cells[a]
    BY <2>2 DEF Restrict
  <2>4. d = [c EXCEPT !.cells = cells2]
    BY <2>1, <2>2
  <2>5. /\ Continues(c, d) /\ d.step = c.step /\ d.i = c.i /\ d.walk = c.walk /\ d.r11 = c.r11
        /\ d.alive = c.alive /\ d.astray = c.astray /\ d.spoiled = c.spoiled
        /\ IsShaped(d) /\ d.cells = cells2
    BY <2>4 DEF IsCall, IsShaped, Continues
  <2>6. CellsInv(d)
    BY <2>3, <2>5 DEF CellsInv, Continues
  <2>7. ~ (c.caller = "native" \/ ~ IsObject(t))
    BY <1>1
  <2> QED
    BY <2>5, <2>6, <2>7 DEF Narrowed
<1>2. CASE ~ (c.caller = "compiled" /\ IsObject(t))
  <2>1. d = c
    BY <1>2 DEF Collapsed
  <2> QED
    BY <2>1 DEF Narrowed, Continues, IsCall
<1> QED
  BY <1>1, <1>2

\* d is c after a destructor was called, if the type has one.
Destroyed(c, d, a, t) ==
  /\ Continues(c, d) /\ d.step = c.step /\ d.i = c.i /\ d.walk = c.walk /\ d.r11 = c.r11
  /\ d.cells = c.cells /\ IsShaped(d)
  /\ ~ IsObject(t) => d.alive = c.alive /\ d.astray = c.astray /\ d.spoiled = c.spoiled
  /\ IsObject(t) => d.alive = c.alive \ {a}
  /\ IsObject(t) /\ ~ c.astray /\ a \in c.alive => ~ d.astray
  /\ IsObject(t) /\ ~ c.spoiled /\ Holding(c, a, t) => ~ d.spoiled

LEMMA DestroyIs ==
  ASSUME NEW c, IsShaped(c), NEW a, NEW t, NEW d, d = Destroy(c, a, t)
  PROVE  Destroyed(c, d, a, t)
<1>1. CASE ~ IsObject(t)
  BY <1>1 DEF Destroy, Destroyed, Continues
<1>2. CASE IsObject(t)
  <2>1. PICK s2, s3 : s2 = (c.astray \/ a \notin c.alive)
                      /\ s3 = (c.spoiled \/ ~ Holding(c, a, t))
    OBVIOUS
  <2>2. d = [c EXCEPT !.alive = c.alive \ {a}, !.astray = s2, !.spoiled = s3]
    BY <1>2, <2>1 DEF Destroy
  <2>3. /\ Continues(c, d) /\ d.step = c.step /\ d.i = c.i /\ d.walk = c.walk /\ d.r11 = c.r11
        /\ d.cells = c.cells /\ d.alive = c.alive \ {a} /\ d.astray = s2 /\ d.spoiled = s3
        /\ IsShaped(d)
    BY <2>2 DEF IsShaped, Continues
  <2> QED
    BY <1>2, <2>1, <2>3 DEF Destroyed
<1> QED
  BY <1>1, <1>2

\* No two arguments begin at the same address: one object less.
Less(c, J, j, K) ==
  /\ IsObject(c.sig.args[j]) => /\ Place(c, j) \in ObjectsAt(c, J)
                                /\ ObjectsAt(c, J) \ {Place(c, j)} = ObjectsAt(c, K)
  /\ ~ IsObject(c.sig.args[j]) => ObjectsAt(c, J) = ObjectsAt(c, K)

LEMMA OneLess ==
  ASSUME NEW c, IsSignature(c.sig), NEW J, J \subseteq 1 .. Len(c.sig.args), NEW j, j \in J,
         NEW K, K = J \ {j}
  PROVE  Less(c, J, j, K)
<1> USE DEF Less
<1>1. PICK n : n = Len(c.sig.args) /\ n \in Nat
  BY Places
<1>2. ASSUME NEW k \in J, k # j PROVE Place(c, k) # Place(c, j)
  <2>1. j \in 1 .. n /\ k \in 1 .. n /\ j \in 0 .. n /\ k \in 0 .. n
    BY <1>1
  <2>2. Place(c, j) \in Nat /\ Place(c, k) \in Nat
    BY <1>1, <2>1, Places DEF Place
  <2>3. CASE k < j
    <3>1. Place(c, j) < Place(c, k)
      BY <1>1, <2>1, <2>3, Apart DEF Place
    <3> QED
      BY <2>2, <3>1
  <2>4. CASE j < k
    <3>1. Place(c, k) < Place(c, j)
      BY <1>1, <2>1, <2>4, Apart DEF Place
    <3> QED
      BY <2>2, <3>1
  <2> QED
    BY <1>1, <1>2, <2>1, <2>3, <2>4
<1>3. CASE IsObject(c.sig.args[j])
  <2>1. Place(c, j) \in ObjectsAt(c, J)
    BY <1>3 DEF ObjectsAt
  <2>2. ASSUME NEW a PROVE a \in ObjectsAt(c, J) \ {Place(c, j)} <=> a \in ObjectsAt(c, K)
    BY <1>2 DEF ObjectsAt
  <2> QED
    BY <1>3, <2>1, <2>2
<1>4. CASE ~ IsObject(c.sig.args[j])
  <2>1. ASSUME NEW a PROVE a \in ObjectsAt(c, J) <=> a \in ObjectsAt(c, K)
    BY <1>4 DEF ObjectsAt
  <2> QED
    BY <1>4, <2>1
<1> QED
  BY <1>3, <1>4

\* d is the call c, some argument later.
Dropped(c, d) ==
  CallInv(d) /\ Continues(c, d) /\ d.step = "drop" /\ (Untouched(c) => d.cells = c.cells)

\* What does not depend on the direction.
LEMMA DropsOn ==
  ASSUME NEW c, CallInv(c), c.step = "drop", More(c), NEW d, IsShaped(d), Continues(c, d),
         d.step = "drop", CellsInv(d), Untouched(c) => d.cells = c.cells, d.i = c.i + 1,
         IF c.caller = "native" THEN ToDropUp(d) ELSE ToDropDown(d)
  PROVE  Dropped(c, d)
<1>1. IsCall(c) /\ CellsInv(c) /\ Returned(c) /\ IsSignature(c.sig)
  BY DEF CallInv, IsCall
<1>2. PICK n, k : n = Len(c.sig.args) /\ n \in Nat /\ k = c.i
  BY <1>1, Places
<1>3. k + 1 \in 1 .. n + 1
  BY <1>1, <1>2 DEF IsCall, More
<1>4. IsCall(d) /\ CellsInv(d)
  BY <1>1, <1>2, <1>3 DEF IsCall, CellsInv, Continues
<1>5. /\ \A j : Place(d, j) = Place(c, j)
      /\ PassesRight(d) <=> PassesRight(c)
      /\ Untouched(d) <=> Untouched(c)
  BY SameCall DEF Continues
<1>6. Returned(d)
  BY <1>1, <1>5 DEF Returned, Continues, Holding
<1>7. d.caller = c.caller
  BY DEF Continues
<1> QED
  BY <1>4, <1>6, <1>7 DEF CallInv, Dropped

\* Compiled code destroys the arguments walking down as it passed them.
LEMMA DropsDown ==
  ASSUME NEW c, CallInv(c), c.step = "drop", More(c), c.caller = "compiled",
         NEW d \in DropArgument(c)
  PROVE  Dropped(c, d)
<1>1. PICK k, n, t : k = c.i /\ n = Len(c.sig.args) /\ t = c.sig.args[k]
  OBVIOUS
<1>2. IsCall(c) /\ CellsInv(c) /\ Returned(c) /\ ToDropDown(c) /\ IsSignature(c.sig)
  BY DEF CallInv, IsCall
<1>3. /\ n \in Nat /\ k \in 1 .. n /\ k - 1 \in 0 .. n /\ DOMAIN c.sig.args = 1 .. n
      /\ n \in 1 .. n
  <2>1. n \in Nat /\ DOMAIN c.sig.args = 1 .. n
    BY <1>1, <1>2, Places
  <2>2. k \in 1 .. n + 1 /\ k <= n
    BY <1>1, <1>2 DEF IsCall, More
  <2> QED
    BY <2>1, <2>2
<1>4. PICK a : a = Below(c.walk, t)
  OBVIOUS
<1>5. PICK e \in Collapsed(c, t), r \in Called(c, t, a), q \in Called(c, t, c.r11) :
        d = Drop(e, a, r, q)
  <2>1. \E e \in Collapsed(c, type(c)), r \in Called(c, type(c), Below(c.walk, type(c))),
          q \in Called(c, type(c), c.r11) : d = Drop(e, Below(c.walk, type(c)), r, q)
    BY DEF DropArgument
  <2>2. type(c) = t
    BY <1>1 DEF type
  <2> QED
    BY <1>4, <2>1, <2>2, Zenon
<1>13. Narrowed(c, e, t)
  BY <1>2, CollapseKeeps
<1>14. PICK s : s = Destroy(e, a, t)
  OBVIOUS
<1>6. Destroyed(e, s, a, t)
  BY <1>13, <1>14, DestroyIs DEF Narrowed
<1>15. type(e) = t
  BY <1>1, <1>13 DEF type, Narrowed, Continues
<1>16. d = [s EXCEPT !.i = @ + 1, !.walk = r, !.r11 = q]
  BY <1>5, <1>14, <1>15 DEF Drop
<1>17. Continues(c, s) /\ s.step = c.step /\ s.i = c.i /\ s.cells = e.cells /\ IsShaped(s)
  BY <1>6, <1>13 DEF Destroyed, Narrowed, Continues
<1>7. /\ Continues(c, d) /\ d.step = "drop" /\ d.cells = e.cells /\ d.i = k + 1 /\ IsShaped(d)
      /\ d.walk = r /\ d.r11 = q /\ d.alive = s.alive /\ d.astray = s.astray
  BY <1>1, <1>16, <1>17 DEF IsShaped, Continues
<1>18. CellsInv(d) /\ (Untouched(c) => d.cells = c.cells)
  <2>1. CellsInv(d)
    BY <1>7, <1>13 DEF Narrowed, Continues, CellsInv
  <2>2. ASSUME Untouched(c) PROVE d.cells = c.cells
    <3>1. c.caller = "native" \/ ~ IsObject(t)
      BY <1>1, <1>3, <2>2 DEF Untouched, Objects
    <3>2. e = c
      BY <1>13, <3>1 DEF Narrowed
    <3> QED
      BY <1>7, <3>2
  <2> QED
    BY <2>1, <2>2
<1>8. Walked(c, k, k - 1, a, r)
  <2>1. PICK h : h = k - 1
    OBVIOUS
  <2>2. c.walk \in {Place(c, h), Wild} /\ (Sure(c, h) => c.walk = Place(c, h))
    BY <1>1, <1>2, <2>1 DEF ToDropDown
  <2>3. k \in 1 .. Len(c.sig.args) /\ IsCall(c)
    BY <1>1, <1>2, <1>3
  <2>4. Walked(c, k, h, a, r)
    BY <1>1, <1>4, <2>1, <2>2, <2>3, WalksDown
  <2> QED
    BY <2>1, <2>4
<1>9. /\ \A j : (Sure(d, j) <=> Sure(c, j)) /\ Place(d, j) = Place(c, j)
      /\ \A J : ObjectsAt(d, J) = ObjectsAt(c, J)
      /\ ReturnAt(d) = ReturnAt(c) /\ Objects(d) = Objects(c) /\ (Right(d) <=> Right(c))
  BY <1>7, SameCall DEF Continues
<1>10. q \in {0, Wild} /\ (Objects(c) = {} => q = 0)
  <2>1. q \in {c.r11, Wild} /\ (~ IsObject(t) => q = c.r11)
    BY DEF Called
  <2>2. Objects(c) = {} => ~ IsObject(t)
    BY <1>1, <1>3 DEF Objects
  <2> QED
    BY <1>2, <2>1, <2>2 DEF ToDropDown
<1>11. ASSUME Right(c)
       PROVE  ~ d.astray /\ d.alive = ObjectsAt(c, k + 1 .. n) \cup ReturnAt(c)
  <2>1. ~ c.astray /\ c.alive = ObjectsAt(c, k .. n) \cup ReturnAt(c)
    BY <1>1, <1>2, <1>11 DEF ToDropDown
  <2>2. k .. n \subseteq 1 .. Len(c.sig.args) /\ k \in k .. n /\ k + 1 .. n = (k .. n) \ {k}
    BY <1>1, <1>3
  <2>3. /\ IsObject(t) => /\ Place(c, k) \in ObjectsAt(c, k .. n)
                          /\ ObjectsAt(c, k .. n) \ {Place(c, k)} = ObjectsAt(c, k + 1 .. n)
        /\ ~ IsObject(t) => ObjectsAt(c, k .. n) = ObjectsAt(c, k + 1 .. n)
    <3>1. PICK J, K : J = k .. n /\ K = k + 1 .. n
      OBVIOUS
    <3>2. J \subseteq 1 .. Len(c.sig.args) /\ k \in J /\ K = J \ {k}
      BY <2>2, <3>1
    <3>3. Less(c, J, k, K)
      BY <1>2, <3>2, OneLess
    <3> QED
      BY <1>1, <3>1, <3>3 DEF Less
  <2>4. CASE ~ IsObject(t)
    BY <1>6, <1>7, <1>13, <2>1, <2>3, <2>4 DEF Destroyed, Narrowed
  <2>5. CASE IsObject(t)
    <3>1. k \in Objects(c)
      BY <1>1, <1>3, <2>5 DEF Objects
    <3>2. k = n /\ Objects(c) \subseteq {n}
      BY <1>1, <1>11, <3>1 DEF Right, PassesRight
    <3>3. ~ IsObject(c.sig.ret)
      BY <1>11, <3>1 DEF Right, CleansUpRight
    <3>4. Sure(c, k - 1)
      <4>1. \A j \in 1 .. k - 1 : j \in 1 .. n /\ j # n
        BY <1>3, <3>2
      <4> QED
        BY <1>3, <3>2, <4>1 DEF Sure, Objects
    <3>5. a = Place(c, k)
      <4>1. c.walk = Place(c, k - 1)
        BY <1>1, <1>2, <3>4 DEF ToDropDown
      <4>2. Place(c, k - 1) \in Nat
        BY <1>1, <1>2, <1>3, Places DEF Place
      <4> QED
        BY <1>8, <4>1, <4>2 DEF Walked, Wild
    <3>6. a \in e.alive /\ ~ e.astray /\ e.alive = c.alive
      BY <1>13, <2>1, <2>3, <2>5, <3>5 DEF Narrowed
    <3>7. ~ s.astray /\ s.alive = c.alive \ {a}
      BY <1>6, <2>5, <3>6 DEF Destroyed
    <3>8. ReturnAt(c) = {}
      BY <3>3 DEF ReturnAt
    <3> QED
      BY <1>7, <2>1, <2>3, <2>5, <3>5, <3>7, <3>8
  <2> QED
    BY <2>4, <2>5
<1>12. ToDropDown(d)
  <2>1. d.sig = c.sig /\ d.i - 1 = k
    BY <1>3, <1>7 DEF Continues
  <2>2. r \in {Place(c, k), Wild} /\ (Sure(c, k) => r = Place(c, k))
    BY <1>8 DEF Walked
  <2> QED
    BY <1>1, <1>7, <1>9, <1>10, <1>11, <2>1, <2>2 DEF ToDropDown
<1> QED
  BY <1>1, <1>7, <1>12, <1>18, DropsOn

\* A native caller walks up from the last argument, taking each for what the first is
\* declared as, the second, and so on.
LEMMA DropsUp ==
  ASSUME NEW c, CallInv(c), c.step = "drop", More(c), c.caller = "native",
         NEW d \in DropArgument(c)
  PROVE  Dropped(c, d)
<1>1. PICK k, n, t, a : k = c.i /\ n = Len(c.sig.args) /\ t = c.sig.args[k] /\ a = c.walk
  OBVIOUS
<1>2. IsCall(c) /\ CellsInv(c) /\ Returned(c) /\ ToDropUp(c) /\ IsSignature(c.sig)
  BY DEF CallInv, IsCall
<1>3. n \in Nat /\ k \in 1 .. n /\ DOMAIN c.sig.args = 1 .. n
  <2>1. n \in Nat /\ DOMAIN c.sig.args = 1 .. n
    BY <1>1, <1>2, Places
  <2>2. k \in 1 .. n + 1 /\ k <= n
    BY <1>1, <1>2 DEF IsCall, More
  <2> QED
    BY <2>1, <2>2
<1>4. PICK left, less : left = n + 1 - k /\ less = left - 1
  OBVIOUS
<1>5. /\ left \in 1 .. n /\ less \in 0 .. n /\ less = n + 1 - (k + 1)
      /\ 1 .. less = (1 .. left) \ {left} /\ 1 .. left \subseteq 1 .. n /\ left \in 1 .. left
      /\ 1 \in 1 .. n
  BY <1>3, <1>4
<1>6. PICK s : s = Destroy(c, a, t)
  OBVIOUS
<1>7. d = [s EXCEPT !.i = @ + 1, !.walk = a + t.size, !.r11 = c.r11]
  <2>1. d = Drop(c, c.walk, c.walk + type(c).size, c.r11)
    BY DEF DropArgument
  <2>2. type(c) = t
    BY <1>1 DEF type
  <2> QED
    BY <1>1, <1>6, <2>1, <2>2, Zenon DEF Drop
<1>8. Destroyed(c, s, a, t)
  BY <1>2, <1>6, DestroyIs DEF IsCall
<1>9. /\ Continues(c, d) /\ d.step = "drop" /\ d.cells = c.cells /\ d.i = k + 1 /\ IsShaped(d)
      /\ d.walk = a + t.size /\ d.alive = s.alive /\ d.astray = s.astray /\ d.spoiled = s.spoiled
  BY <1>1, <1>7, <1>8 DEF Destroyed, IsShaped, Continues
<1>10. /\ \A j : Place(d, j) = Place(c, j)
       /\ \A J : ObjectsAt(d, J) = ObjectsAt(c, J)
       /\ Objects(d) = Objects(c) /\ (Right(d) <=> Right(c))
  BY <1>9, SameCall DEF Continues
<1>11. Less(c, 1 .. left, left, 1 .. less)
  <2>1. PICK J, K : J = 1 .. left /\ K = 1 .. less
    OBVIOUS
  <2>2. J \subseteq 1 .. Len(c.sig.args) /\ left \in J /\ K = J \ {left}
    BY <1>1, <1>5, <2>1
  <2>3. Less(c, J, left, K)
    BY <1>2, <2>2, OneLess
  <2> QED
    BY <2>1, <2>3
<1>12. ASSUME Right(c)
       PROVE  /\ ~ d.astray /\ ~ d.spoiled /\ d.alive = ObjectsAt(c, 1 .. less)
              /\ Objects(c) # {} => d.walk = Place(c, less)
  <2>1. /\ ~ c.astray /\ ~ c.spoiled /\ c.alive = ObjectsAt(c, 1 .. left)
        /\ Objects(c) # {} => a = Place(c, left)
    BY <1>1, <1>2, <1>4, <1>12 DEF ToDropUp
  <2>2. CASE Objects(c) = {}
    <3>1. ~ IsObject(t) /\ ~ IsObject(c.sig.args[left])
      BY <1>1, <1>3, <1>5, <2>2 DEF Objects
    <3> QED
      BY <1>8, <1>9, <1>11, <2>1, <2>2, <3>1 DEF Destroyed, Less
  <2>3. CASE Objects(c) # {}
    <3>1. \A j \in 1 .. n : c.sig.args[j] = c.sig.args[1]
      <4>1. \A u \in ToSet(c.sig.args) : u = c.sig.args[1]
        BY <1>12, <2>3 DEF Right, CleansUpRight
      <4>2. ToSet(c.sig.args) = { c.sig.args[j] : j \in DOMAIN c.sig.args }
        BY DEF ToSet
      <4> QED
        BY <1>3, <4>1, <4>2
    <3>2. t = c.sig.args[left] /\ IsObject(t)
      <4>1. PICK j \in 1 .. n : IsObject(c.sig.args[j])
        BY <1>3, <2>3 DEF Objects
      <4> QED
        BY <1>1, <1>3, <1>5, <3>1, <4>1
    <3>3. a = Place(c, left) /\ a \in c.alive
      BY <1>11, <2>1, <2>3, <3>2 DEF Less
    <3>4. Holding(c, a, t)
      BY <1>2, <1>3, <1>5, <1>12, <3>2, <3>3 DEF Returned, Right, Untouched
    <3>5. ~ s.astray /\ ~ s.spoiled /\ s.alive = c.alive \ {a}
      BY <1>8, <2>1, <3>2, <3>3, <3>4 DEF Destroyed
    <3>6. d.alive = ObjectsAt(c, 1 .. less)
      BY <1>9, <1>11, <2>1, <3>2, <3>3, <3>5 DEF Less
    <3>7. Place(c, less) = Place(c, left) + t.size
      BY <1>1, <1>2, <1>4, <1>5, <3>2, Places DEF Place
    <3> QED
      BY <1>9, <3>3, <3>5, <3>6, <3>7
  <2> QED
    BY <2>2, <2>3
<1>13. ToDropUp(d)
  <2>1. Len(d.sig.args) + 1 - d.i = less
    BY <1>1, <1>5, <1>9 DEF Continues
  <2> QED
    BY <1>10, <1>12, <2>1 DEF ToDropUp
<1>14. CellsInv(d)
  BY <1>2, <1>9 DEF CellsInv, Continues
<1> QED
  BY <1>1, <1>9, <1>13, <1>14, DropsOn

LEMMA DropKeeps ==
  ASSUME NEW c, CallInv(c), c.step = "drop", More(c), NEW d \in DropArgument(c)
  PROVE  Dropped(c, d)
<1>1. c.caller = "native" \/ c.caller = "compiled"
  BY DEF CallInv, IsCall
<1> QED
  BY <1>1, DropsUp, DropsDown

\* The caller takes what has been returned, and destroys it.
TakenBack(c, d) ==
  /\ CallInv(d) /\ Continues(c, d)
  /\ d.step = IF c.caller = "native" THEN "drop" ELSE "done"
  /\ c.sig.ret # void =>
       /\ Taken(c) \subseteq Contents(c.sig.ret)
       /\ c.caller = "native" \/ (Objects(c) = {} /\ ~ IsObject(c.sig.ret)) =>
            Taken(c) = {c.cells[0].value}

LEMMA TakeKeeps ==
  ASSUME NEW c, CallInv(c),
         \/ c.step = "take"
         \/ c.step = "drop" /\ ~ More(c) /\ c.caller = "compiled",
         NEW d \in TakeReturn(c)
  PROVE  TakenBack(c, d)
<1>1. PICK n, t, a : n = Len(c.sig.args) /\ t = c.sig.ret /\ a = Bottom(c)
  OBVIOUS
<1>2. IsCall(c) /\ CellsInv(c) /\ Returned(c) /\ IsSignature(c.sig)
  BY DEF CallInv, IsCall
<1>3. /\ n \in Nat /\ DOMAIN c.sig.args = 1 .. n /\ 1 \in 1 .. n + 1
      /\ \A j \in 1 .. n : j \in 0 .. n
  BY <1>1, <1>2, Places
<1>4. /\ c.step = "take" => c.caller = "native" /\ ToTake(c)
      /\ c.caller = "native" => c.step = "take" /\ a = 0
      /\ c.caller = "compiled" => c.step = "drop" /\ c.i = n + 1 /\ ToDropDown(c) /\ a = c.r11
  <2>1. c.step = "take" => c.caller = "native" /\ ToTake(c)
    BY DEF CallInv, ToTake
  <2>2. c.caller = "native" => c.step = "take" /\ a = 0
    BY <1>1 DEF Bottom
  <2>3. c.caller = "compiled" => c.step = "drop" /\ ~ More(c) /\ a = c.r11
    BY <1>1, <2>1 DEF Bottom
  <2>4. c.caller = "compiled" => ToDropDown(c)
    BY <2>3 DEF CallInv
  <2>5. c.caller = "compiled" => c.i = n + 1
    BY <1>1, <1>2, <1>3, <2>3 DEF IsCall, More
  <2> QED
    BY <2>1, <2>2, <2>3, <2>4, <2>5
<1>16. PICK e \in Collapsed(c, t) :
         d = [Destroy(e, a, t) EXCEPT !.step = IF c.caller = "native" THEN "drop" ELSE "done",
                                      !.i = 1, !.walk = t.size]
  BY <1>1, Zenon DEF TakeReturn
<1>17. Narrowed(c, e, t)
  BY <1>2, CollapseKeeps
<1>5. PICK s : s = Destroy(e, a, t)
  OBVIOUS
<1>6. Destroyed(e, s, a, t)
  BY <1>5, <1>17, DestroyIs DEF Narrowed
<1>7. /\ Continues(c, d) /\ d.step = (IF c.caller = "native" THEN "drop" ELSE "done")
      /\ d.cells = e.cells /\ d.i = 1 /\ d.walk = t.size /\ IsShaped(d)
      /\ d.alive = s.alive /\ d.astray = s.astray /\ d.spoiled = s.spoiled
  <2>1. d = [s EXCEPT !.step = IF c.caller = "native" THEN "drop" ELSE "done",
                      !.i = 1, !.walk = t.size]
    BY <1>5, <1>16
  <2>2. Continues(c, s) /\ s.cells = e.cells /\ IsShaped(s)
    BY <1>6, <1>17 DEF Destroyed, Narrowed, Continues
  <2> QED
    BY <2>1, <2>2 DEF IsShaped, Continues
<1>8. /\ \A j : Place(d, j) = Place(c, j)
      /\ \A J : ObjectsAt(d, J) = ObjectsAt(c, J)
      /\ ReturnAt(d) = ReturnAt(c) /\ Objects(d) = Objects(c)
      /\ (PassesRight(d) <=> PassesRight(c)) /\ (Right(d) <=> Right(c))
      /\ Untouched(d) <=> Untouched(c)
  BY <1>7, SameCall DEF Continues
<1>9. IsCall(d) /\ CellsInv(d)
  <2>1. IsCall(d)
    BY <1>1, <1>2, <1>3, <1>7 DEF IsCall, Continues
  <2>2. CellsInv(e) /\ e.sig = c.sig
    BY <1>17 DEF Narrowed, Continues
  <2> QED
    BY <1>7, <2>1, <2>2 DEF CellsInv, Continues
<1>10. c.caller = "native" => e = c /\ d.cells = c.cells /\ Returned(d)
  <2> SUFFICES ASSUME c.caller = "native" PROVE e = c /\ d.cells = c.cells /\ Returned(d)
    OBVIOUS
  <2>1. e = c
    BY <1>17 DEF Narrowed
  <2>2. Returned(d)
    BY <1>2, <1>7, <1>8, <2>1 DEF Returned, Continues, Holding
  <2> QED
    BY <1>7, <2>1, <2>2
<1>11. /\ t # void /\ a = 0 /\ Untouched(c) => Holding(c, a, t)
       /\ t # void /\ a = 0 /\ Untouched(c) /\ (c.caller = "native" \/ ~ IsObject(t))
            => Taken(c) = {c.cells[0].value}
  <2>1. t # void /\ a = 0 /\ Untouched(c) => Holding(c, a, t)
    BY <1>1, <1>2 DEF Returned
  <2>2. ASSUME c.caller = "native" \/ ~ IsObject(t), Holding(c, a, t), a = 0
        PROVE  Taken(c) = {c.cells[0].value}
    <3>1. ~ (c.caller = "compiled" /\ IsObject(t))
      BY <2>2
    <3>2. Collapsed(c, t) = {c}
      BY <3>1 DEF Collapsed
    <3>3. Taken(c) = UNION { Load(b, a, t) : b \in {c} }
      BY <1>1, <3>2, Zenon DEF Taken
    <3>4. Load(c, a, t) = {c.cells[0].value}
      BY <2>2 DEF Load
    <3> QED
      BY <3>3, <3>4
  <2> QED
    BY <2>1, <2>2
<1>12. t # void => Taken(c) \subseteq Contents(t)
  <2>1. ASSUME NEW b \in Collapsed(c, t) PROVE Load(b, a, t) \subseteq Contents(t)
    <3>1. CellsInv(b)
      BY <1>2, CollapseKeeps DEF Narrowed
    <3> QED
      BY <3>1 DEF Load, CellsInv, Holding
  <2>2. Taken(c) = UNION { Load(b, a, t) : b \in Collapsed(c, t) }
    BY <1>1 DEF Taken
  <2> QED
    BY <2>1, <2>2
<1>13. IsObject(t) => t # void
  BY DEF IsObject, is_primitive, void
<1>14. CASE c.caller = "native"
  <2>1. /\ ~ c.astray /\ ~ c.spoiled /\ c.alive = ObjectsAt(c, 1 .. n) \cup ReturnAt(c)
        /\ Destroyed(c, s, a, t) /\ Untouched(c)
    BY <1>1, <1>4, <1>6, <1>10, <1>14 DEF ToTake, Untouched
  <2>2. ~ s.astray /\ ~ s.spoiled /\ s.alive = ObjectsAt(c, 1 .. n)
    <3>1. CASE ~ IsObject(t)
      BY <1>1, <2>1, <3>1 DEF Destroyed, ReturnAt
    <3>2. CASE IsObject(t)
      <4>1. a = 0 /\ a \in c.alive /\ Holding(c, a, t) /\ ReturnAt(c) = {a}
        BY <1>1, <1>4, <1>11, <1>13, <1>14, <2>1, <3>2 DEF ReturnAt
      <4>2. ~ s.astray /\ ~ s.spoiled /\ s.alive = c.alive \ {a}
        BY <2>1, <3>2, <4>1 DEF Destroyed
      <4>3. a \notin ObjectsAt(c, 1 .. n)
        <5>1. t.size \in Nat \ {0}
          BY <1>1, <1>2, <1>13, <3>2, TypeSizes DEF IsSignature
        <5>2. ASSUME NEW j \in 1 .. n PROVE Place(c, j) # 0
          <6>1. t.size <= Place(c, j) /\ Place(c, j) \in Nat
            BY <1>1, <1>2, <1>3, Places DEF Place
          <6> QED
            BY <5>1, <6>1
        <5> QED
          BY <4>1, <5>2 DEF ObjectsAt
      <4> QED
        BY <2>1, <4>1, <4>2, <4>3
    <3> QED
      BY <3>1, <3>2
  <2>3. ASSUME Right(c), Objects(c) # {} PROVE d.walk = Place(c, n)
    <3>1. calculate_args_space(c.sig) = c.sig.ret.size + SizeOf(c.sig.args)
      BY <1>14, <2>3 DEF Right, CleansUpRight
    <3>2. /\ Place(c, n) = calculate_args_space(c.sig) - SizeOf(c.sig.args)
          /\ SizeOf(c.sig.args) \in Nat /\ c.sig.ret.size \in Nat
      BY <1>1, <1>2, Places DEF Place
    <3>3. PICK S, R, z : S = calculate_args_space(c.sig) /\ R = c.sig.ret.size
                         /\ z = SizeOf(c.sig.args)
      OBVIOUS
    <3>4. Place(c, n) = (R + z) - z /\ R \in Nat /\ z \in Nat
      BY <3>1, <3>2, <3>3
    <3>5. Place(c, n) = R
      BY <3>4
    <3> QED
      BY <1>1, <1>7, <3>3, <3>5
  <2>4. ToDropUp(d)
    <3>1. Len(d.sig.args) + 1 - d.i = n
      BY <1>1, <1>3, <1>7 DEF Continues
    <3> QED
      BY <1>7, <1>8, <2>2, <2>3, <3>1 DEF ToDropUp
  <2>5. CallInv(d)
    BY <1>7, <1>9, <1>10, <1>14, <2>4 DEF CallInv, Continues
  <2> QED
    BY <1>1, <1>4, <1>7, <1>11, <1>12, <1>14, <2>1, <2>5 DEF TakenBack
<1>15. CASE c.caller = "compiled"
  <2>1. a \in {0, Wild} /\ (Objects(c) = {} => a = 0)
    BY <1>4, <1>15 DEF ToDropDown
  <2>2. ASSUME Right(c) PROVE ~ d.astray /\ d.alive = {}
    <3>1. ~ c.astray /\ c.alive = ReturnAt(c)
      <4>1. ~ c.astray /\ c.alive = ObjectsAt(c, n + 1 .. n) \cup ReturnAt(c)
        BY <1>1, <1>4, <1>15, <2>2 DEF ToDropDown
      <4>2. n + 1 .. n = {}
        BY <1>3
      <4>3. ObjectsAt(c, {}) = {}
        BY DEF ObjectsAt
      <4> QED
        BY <4>1, <4>2, <4>3
    <3>2. CASE ~ IsObject(t)
      BY <1>1, <1>6, <1>7, <1>17, <3>1, <3>2 DEF Destroyed, Narrowed, ReturnAt
    <3>3. CASE IsObject(t)
      <4>1. Objects(c) = {}
        BY <1>1, <1>15, <2>2, <3>3 DEF Right, CleansUpRight
      <4>2. a = 0 /\ e.alive = {a} /\ ~ e.astray
        BY <1>1, <1>17, <2>1, <3>1, <3>3, <4>1 DEF ReturnAt, Narrowed
      <4> QED
        BY <1>6, <1>7, <3>3, <4>2 DEF Destroyed
    <3> QED
      BY <3>2, <3>3
  <2>3. CallInv(d)
    BY <1>7, <1>8, <1>9, <1>15, <2>2 DEF CallInv, Continues
  <2> QED
    BY <1>1, <1>7, <1>11, <1>12, <1>15, <2>1, <2>3 DEF TakenBack, Untouched
<1> QED
  BY <1>2, <1>14, <1>15 DEF IsCall

\* A native caller has dropped everything.
LEMMA CloseKeeps ==
  ASSUME NEW c, CallInv(c), c.step = "drop", ~ More(c), c.caller = "native",
         NEW d, d = [c EXCEPT !.step = "done"]
  PROVE  CallInv(d) /\ Continues(c, d) /\ d.step = "done"
<1>1. IsCall(c) /\ CellsInv(c) /\ Returned(c) /\ ToDropUp(c) /\ IsSignature(c.sig)
  BY DEF CallInv, IsCall
<1>2. PICK n : n = Len(c.sig.args) /\ n \in Nat
  BY <1>1, Places
<1>3. n + 1 - c.i = 0
  <2>1. c.i = n + 1
    BY <1>1, <1>2 DEF IsCall, More
  <2> QED
    BY <1>2, <2>1
<1>4. /\ Continues(c, d) /\ d.step = "done" /\ d.cells = c.cells /\ d.i = c.i /\ IsShaped(d)
      /\ d.alive = c.alive /\ d.astray = c.astray /\ d.spoiled = c.spoiled
  BY <1>1 DEF IsCall, IsShaped, Continues
<1>5. /\ \A j : Place(d, j) = Place(c, j)
      /\ (PassesRight(d) <=> PassesRight(c)) /\ (Right(d) <=> Right(c))
  BY <1>4, SameCall DEF Continues
<1>6. IsCall(d) /\ CellsInv(d)
  BY <1>1, <1>4 DEF IsCall, CellsInv, Continues
<1>8. Right(c) => ~ c.astray /\ ~ c.spoiled /\ c.alive = {}
  <2>1. Right(c) => ~ c.astray /\ ~ c.spoiled /\ c.alive = ObjectsAt(c, 1 .. 0)
    BY <1>1, <1>2, <1>3 DEF ToDropUp
  <2>2. ObjectsAt(c, 1 .. 0) = {}
    BY DEF ObjectsAt
  <2> QED
    BY <2>1, <2>2
<1> QED
  BY <1>4, <1>5, <1>6, <1>8 DEF CallInv

-----------------------------------------------------------------------------
(* The function and what it calls.                                         *)

\* The variables of the function and its last condition are of their types.
FrameInv ==
  /\ function \in Functions /\ executed \in 0 .. MaxInstructions
  /\ DOMAIN locals = DOMAIN function.locals /\ DOMAIN meant = DOMAIN function.locals
  /\ \A v \in DOMAIN function.locals :
       /\ locals[v] \in Values(TypeOf(v)) \cup {Unset, Trap}
       /\ meant[v] \in Values(TypeOf(v)) \cup {Unset}
  /\ {condition.taken, condition.meant} \subseteq {0, 1, Unset}

\* The return value of the function, between its return and its caller.
ResultInv ==
  /\ result = [given |-> result.given, meant |-> result.meant]
  /\ result.given # Unset => outer.step \in {"drop", "done"}
  /\ outer.step = "take" /\ function.sig.ret # void /\ result.meant # Unset =>
       outer.cells[0].value = result.meant

\* Who is called, and what got there and back.
InvocationInv ==
  inner # none =>
    /\ invocation = [callee |-> invocation.callee, target |-> invocation.target,
                     received |-> invocation.received, returned |-> invocation.returned]
    /\ invocation.callee \in {"compiled", "gcc", "clang"}
    /\ \A v \in invocation.target : v \in DOMAIN locals /\ TypeOf(v) = inner.sig.ret
    /\ inner.step \in {"drop", "done"} /\ PassesRight(inner) =>
         \A j \in DOMAIN inner.values : invocation.received[j] = inner.values[j].given
    /\ inner.step = "drop" /\ inner.sig.ret # void =>
         /\ Untouched(inner) => inner.cells[0].value = invocation.returned
         /\ invocation.returned \in Contents(inner.sig.ret)

OuterInv == CallInv(outer) /\ outer.caller = "native" /\ outer.sig = function.sig
InnerInv ==
  inner # none => /\ CallInv(inner) /\ inner.caller = "compiled"
                  /\ inner.step \in {"pass", "callee", "drop", "done"}

DataInv ==
  FrameInv /\ OuterInv /\ InnerInv /\ ResultInv /\ InvocationInv /\ MeansWhatItSays

LEMMA CallFits ==
  ASSUME NEW c, CallInv(c)
  PROVE  c.i \in 1 .. Len(c.sig.args) + 1 /\ Fits(c)
<1>1. IsCall(c) /\ CellsInv(c)
  BY DEF CallInv
<1>2. ASSUME NEW a \in DOMAIN c.cells
      PROVE  a >= 0 /\ a + c.cells[a].type.size <= calculate_args_space(c.sig)
  BY <1>1 DEF CellsInv
<1> QED
  BY <1>1, <1>2 DEF IsCall, Fits

LEMMA DataTypes == DataInv => TypeOK
<1> SUFFICES ASSUME DataInv PROVE TypeOK
  OBVIOUS
<1>1. FrameInv /\ CallInv(outer) /\ outer.caller = "native"
  BY DEF DataInv, OuterInv
<1>2. inner # none => CallInv(inner) /\ inner.step \in {"pass", "callee", "drop", "done"}
  BY DEF DataInv, InnerInv
<1>3. \A c \in {outer, inner} \ {none} : c.i \in 1 .. Len(c.sig.args) + 1 /\ Fits(c)
  BY <1>1, <1>2, CallFits
<1>4. outer.step \in {"pass", "callee", "take", "drop", "done"}
  BY <1>1 DEF CallInv
<1> QED
  BY <1>1, <1>2, <1>3, <1>4 DEF TypeOK, FrameInv

\* What is in the variables of the function.
LEMMA VariableRead ==
  ASSUME FrameInv, MeansWhatItSays, Executing, NEW v \in DOMAIN locals
  PROVE  /\ v \in DOMAIN function.locals /\ TypeOf(v) \in DOMAIN Immediates
         /\ ~ IsObject(TypeOf(v)) /\ Contents(TypeOf(v)) = Values(TypeOf(v))
         /\ Variable(v).type = TypeOf(v) /\ Variable(v).meant = meant[v]
         /\ Variable(v).values \subseteq Values(TypeOf(v))
         /\ meant[v] \in Values(TypeOf(v)) \cup {Unset}
         /\ meant[v] # Unset => Variable(v).values = {meant[v]}
<1>1. /\ v \in DOMAIN function.locals /\ v \in DOMAIN meant
      /\ locals[v] \in Values(TypeOf(v)) \cup {Unset, Trap}
      /\ meant[v] \in Values(TypeOf(v)) \cup {Unset}
  BY DEF FrameInv
<1>2. TypeOf(v) \in { t \in DOMAIN Immediates : is_primitive(t) }
  <2>1. function.locals \in Seq({ t \in DOMAIN Immediates : is_primitive(t) })
    BY FunctionsAssumption DEF FrameInv
  <2>2. function.locals[v] \in { t \in DOMAIN Immediates : is_primitive(t) }
    <3>1. PICK q, T : q = function.locals /\ T = { t \in DOMAIN Immediates : is_primitive(t) }
      OBVIOUS
    <3>2. q \in Seq(T) /\ v \in DOMAIN q
      BY <1>1, <2>1, <3>1
    <3>3. q[v] \in T
      BY <3>2
    <3> QED
      BY <3>1, <3>3
  <2> QED
    BY <2>2 DEF TypeOf
<1>3. ~ IsObject(TypeOf(v)) /\ Contents(TypeOf(v)) = Values(TypeOf(v))
  BY <1>2 DEF IsObject, Contents
<1>4. /\ Variable(v).type = TypeOf(v) /\ Variable(v).meant = meant[v]
      /\ Variable(v).values = IF locals[v] = Unset THEN Immediates[TypeOf(v)] ELSE {locals[v]}
  BY DEF Variable
<1>5. locals[v] # Trap
  BY DEF Executing, Range
<1>6. Immediates[TypeOf(v)] \subseteq Values(TypeOf(v))
  BY <1>2, <1>3, ImmediatesAssumption
<1>7. meant[v] # Unset => locals[v] = meant[v]
  BY <1>1 DEF MeansWhatItSays
<1> QED
  BY <1>1, <1>2, <1>3, <1>4, <1>5, <1>6, <1>7

\* Writing to a variable what is of its type, and meant so if it is meant.
LEMMA WriteKeeps ==
  ASSUME FrameInv, MeansWhatItSays, NEW v \in DOMAIN locals, NEW x, NEW m, Write(v, x, m),
         x \in Values(TypeOf(v)) \cup {Trap}, m \in Values(TypeOf(v)) \cup {Unset},
         m # Unset => x = m,
         UNCHANGED <<function, condition, result>>, executed' \in 0 .. MaxInstructions
  PROVE  FrameInv' /\ MeansWhatItSays' /\ DOMAIN locals' = DOMAIN locals
<1>1. /\ DOMAIN locals = DOMAIN function.locals /\ DOMAIN meant = DOMAIN function.locals
      /\ \A w \in DOMAIN function.locals :
           /\ locals[w] \in Values(TypeOf(w)) \cup {Unset, Trap}
           /\ meant[w] \in Values(TypeOf(w)) \cup {Unset}
  BY DEF FrameInv
<1>2. /\ DOMAIN locals' = DOMAIN locals /\ DOMAIN meant' = DOMAIN meant
      /\ locals'[v] = x /\ meant'[v] = m
      /\ \A w \in DOMAIN locals \ {v} : locals'[w] = locals[w] /\ meant'[w] = meant[w]
  BY <1>1 DEF Write
<1>3. ASSUME NEW w \in DOMAIN function.locals
      PROVE  /\ locals'[w] \in Values(TypeOf(w)) \cup {Unset, Trap}
             /\ meant'[w] \in Values(TypeOf(w)) \cup {Unset}
             /\ meant'[w] # Unset => locals'[w] = meant'[w]
  <2>1. CASE w = v
    BY <1>2, <2>1
  <2>2. CASE w # v
    <3>1. meant[w] # Unset => locals[w] = meant[w]
      BY <1>1 DEF MeansWhatItSays
    <3> QED
      BY <1>1, <1>2, <2>2, <3>1
  <2> QED
    BY <2>1, <2>2
<1>4. FrameInv'
  BY <1>1, <1>2, <1>3 DEF FrameInv, TypeOf
<1>5. MeansWhatItSays'
  BY <1>1, <1>2, <1>3 DEF MeansWhatItSays
<1> QED
  BY <1>2, <1>4, <1>5

\* What a division leaves has a place in the register, if it has one at all.
LEMMA DivisionFits ==
  ASSUME NEW signed, NEW s \in Size, NEW a \in Int, NEW y \in 0 .. modulus(s) - 1,
         NEW d, d = Divide(signed, s, a, y)
  PROVE  /\ d.quotient \in 0 .. modulus(s) - 1 \cup {Trap}
         /\ d.remainder \in 0 .. modulus(s) - 1 \cup {Trap}
<1>1. PICK m : m = modulus(s)
  OBVIOUS
<1>2. m \in Nat \ {0} /\ half[s] \in Nat
  BY <1>1, Sizes
<1>3. PICK b : b = IF signed THEN Signed(s, y) ELSE y
  OBVIOUS
<1>4. b \in Int
  BY <1>1, <1>2, <1>3 DEF Signed
<1>5. PICK q, r : q = Quotient(a, b) /\ r = Remainder(a, b)
  OBVIOUS
<1>6. b # 0 => q \in Int /\ r \in Int
  <2> SUFFICES ASSUME b # 0 PROVE q \in Int /\ r \in Int
    OBVIOUS
  <2>1. Abs(a) \in Nat /\ Abs(b) \in Nat \ {0}
    BY <1>4 DEF Abs
  <2>2. Abs(a) \div Abs(b) \in Int
    BY <2>1, NaturalQuotient
  <2>3. q \in Int
    BY <1>5, <2>2 DEF Quotient
  <2>4. b * q \in Int
    BY <1>4, <2>3
  <2> QED
    BY <1>5, <2>3, <2>4 DEF Remainder
<1>7. \/ d = [quotient |-> Trap, remainder |-> Trap]
      \/ b # 0 /\ d = [quotient |-> q % m, remainder |-> r % m]
  BY <1>1, <1>3, <1>5, Zenon DEF Divide
<1>8. b # 0 => q % m \in 0 .. m - 1 /\ r % m \in 0 .. m - 1
  BY <1>2, <1>6, Division
<1> QED
  BY <1>1, <1>7, <1>8

\* Whatever an instruction computes is of its type, if the process survives it.
LEMMA ArithmeticFits ==
  ASSUME NEW op \in Arithmetical, NEW t \in DOMAIN Immediates, Parses(op, t, t),
         NEW x \in Values(t), NEW y \in Values(t), NEW z \in arithmetic(op, t, x, y)
  PROVE  z \in Values(t) \cup {Trap}
<1>1. CASE is_floating_point(t)
  BY <1>1 DEF arithmetic, floating_point_arithmetic, Values
<1>2. CASE ~ is_floating_point(t)
  <2>1. PICK s, m : s = t.size /\ m = modulus(s)
    OBVIOUS
  <2>2. s \in Size
    BY <1>2, <2>1, ImmediatesAssumption DEF Parses, is_primitive, is_floating_point, Type
  <2>3. m \in Nat \ {0} /\ Values(t) = 0 .. m - 1 /\ x \in 0 .. m - 1 /\ y \in 0 .. m - 1
    BY <1>2, <2>1, <2>2, Sizes DEF Values
  <2>4. z \in integer_arithmetic(op, t, x, y)
    BY <1>2 DEF arithmetic
  <2>5. \A n \in Int : n % m \in 0 .. m - 1
    BY <2>3, Division
  <2>6. ASSUME NEW d \in INTEGER_DIV(t, x, y)
        PROVE  d.quotient \in 0 .. m - 1 \cup {Trap} /\ d.remainder \in 0 .. m - 1 \cup {Trap}
    <3>1. PICK ah : ah = IF s # 1 THEN {0}
                         ELSE IF is_signed_integer(t) THEN -half[1] .. half[1] - 1
                         ELSE 0 .. modulus(1) - 1
      OBVIOUS
    <3>2. ah \subseteq Int
      BY <3>1
    <3>3. d \in { Divide(is_signed_integer(t), s, h * m + x, y) : h \in ah }
      BY <2>1, <2>6, <3>1, Zenon DEF INTEGER_DIV
    <3>4. PICK h \in ah : d = Divide(is_signed_integer(t), s, h * m + x, y)
      BY <3>3
    <3>5. PICK g, a : g = is_signed_integer(t) /\ a = h * m + x
      OBVIOUS
    <3>6. a \in Int /\ y \in 0 .. modulus(s) - 1 /\ d = Divide(g, s, a, y)
      <4>1. h \in Int
        BY <3>2
      <4> QED
        BY <2>1, <2>3, <3>4, <3>5, <4>1
    <3> QED
      BY <2>1, <2>2, <3>6, DivisionFits
  <2>7. x + y \in Int /\ x - y \in Int /\ x * y \in Int /\ 0 \in 0 .. m - 1
    BY <2>3
  <2>8. CASE op = "ADD"
    BY <2>1, <2>3, <2>4, <2>5, <2>7, <2>8 DEF integer_arithmetic
  <2>9. CASE op = "SUB"
    BY <2>1, <2>3, <2>4, <2>5, <2>7, <2>9 DEF integer_arithmetic
  <2>10. CASE op = "MUL"
    <3>1. z = x \/ z = (x * y) % m
      BY <2>1, <2>4, <2>10 DEF integer_arithmetic
    <3> QED
      BY <2>3, <2>5, <2>7, <3>1
  <2>11. CASE op = "DIV"
    <3>1. z \in { d.quotient : d \in INTEGER_DIV(t, x, y) }
      BY <2>4, <2>11 DEF integer_arithmetic
    <3> QED
      BY <2>3, <2>6, <3>1
  <2>12. CASE op = "MOD"
    <3>1. \E d \in INTEGER_DIV(t, x, y) : z = 0 \/ z = d.remainder
      BY <2>4, <2>12 DEF integer_arithmetic
    <3> QED
      BY <2>3, <2>6, <2>7, <3>1
  <2> QED
    BY <2>8, <2>9, <2>10, <2>11, <2>12 DEF Arithmetical
<1> QED
  BY <1>1, <1>2

\* An operand, whatever it is.
LEMMA ReadableFits ==
  ASSUME FrameInv, MeansWhatItSays, Executing,
         NEW t \in DOMAIN Immediates, is_primitive(t), NEW o \in Readable(t)
  PROVE  o.type = t /\ o.values \subseteq Values(t)
<1>1. CASE o \in { Pushed(t, x) : x \in Immediates[t] }
  <2>1. PICK x \in Immediates[t] : o = Pushed(t, x)
    BY <1>1
  <2>2. x \in Values(t)
    BY ImmediatesAssumption DEF Contents, IsObject
  <2> QED
    BY <2>1, <2>2 DEF Pushed, Immediate, Values
<1>2. CASE o \in Variables(t)
  <2>1. PICK v \in DOMAIN locals : TypeOf(v) = t /\ o = Variable(v)
    BY <1>2 DEF Variables
  <2> QED
    BY <2>1, VariableRead
<1> QED
  BY <1>1, <1>2 DEF Readable

-----------------------------------------------------------------------------
(* Every step keeps the invariant.  First the instructions.                *)

Writes ==
  /\ FrameInv' /\ MeansWhatItSays' /\ DOMAIN locals' = DOMAIN locals

LEMMA CopyKeeps ==
  ASSUME FrameInv, MeansWhatItSays, Executing, NEW v \in DOMAIN locals, Copy(v),
         UNCHANGED <<function, result>>, executed' \in 0 .. MaxInstructions
  PROVE  Writes
<1>1. PICK o \in { Variable(w) : w \in { w \in DOMAIN locals \ {v} : TypeOf(w) = TypeOf(v) } }
                 \cup { Immediate(TypeOf(v), x) : x \in Immediates[TypeOf(v)] } :
        \E x \in o.values : Write(v, x, o.meant)
  BY DEF Copy
<1>2. PICK x \in o.values : Write(v, x, o.meant)
  BY <1>1
<1>3. TypeOf(v) \in DOMAIN Immediates /\ Contents(TypeOf(v)) = Values(TypeOf(v))
  BY VariableRead
<1>4. /\ x \in Values(TypeOf(v)) /\ o.meant \in Values(TypeOf(v)) \cup {Unset}
      /\ o.meant # Unset => x = o.meant
  <2>1. CASE \E w \in DOMAIN locals : TypeOf(w) = TypeOf(v) /\ o = Variable(w)
    <3>1. PICK w \in DOMAIN locals : TypeOf(w) = TypeOf(v) /\ o = Variable(w)
      BY <2>1
    <3>2. /\ Variable(w).values \subseteq Values(TypeOf(w)) /\ Variable(w).meant = meant[w]
          /\ meant[w] \in Values(TypeOf(w)) \cup {Unset}
          /\ meant[w] # Unset => Variable(w).values = {meant[w]}
      BY VariableRead
    <3> QED
      BY <1>2, <3>1, <3>2
  <2>2. CASE \E y \in Immediates[TypeOf(v)] : o = Immediate(TypeOf(v), y)
    <3>1. PICK y \in Immediates[TypeOf(v)] : o = Immediate(TypeOf(v), y)
      BY <2>2
    <3>2. o.meant = y /\ o.values = {y}
      BY <3>1 DEF Immediate
    <3>3. y \in Values(TypeOf(v))
      BY <1>3, ImmediatesAssumption
    <3> QED
      BY <1>2, <3>2, <3>3
  <2> QED
    BY <1>1, <2>1, <2>2
<1>5. UNCHANGED condition
  BY DEF Copy
<1> QED
  BY <1>2, <1>4, <1>5, WriteKeeps DEF Writes

LEMMA ArgumentKeeps ==
  ASSUME FrameInv, MeansWhatItSays, OuterInv, Executing, NEW v \in DOMAIN locals,
         NEW j \in DOMAIN function.sig.args, FromArgument(v, j),
         UNCHANGED <<function, result>>, executed' \in 0 .. MaxInstructions
  PROVE  Writes
<1>1. PICK t : t = TypeOf(v)
  OBVIOUS
<1>2. PICK x \in Load(outer, args_map(function.sig, j), t) : Write(v, x, outer.values[j].meant)
  BY <1>1 DEF FromArgument
<1>3. /\ CallInv(outer) /\ IsCall(outer) /\ outer.step = "callee" /\ PassesRight(outer)
      /\ outer.sig = function.sig /\ outer.sig.args[j] = t
  BY <1>1 DEF OuterInv, CallInv, Executing, PassesRight, FromArgument
<1>4. Arrived(outer, j)
  <2>1. j \in 1 .. Len(outer.sig.args)
    BY <1>3, Places DEF IsCall
  <2> QED
    BY <1>3, <2>1, AllArrive
<1>5. x = outer.values[j].given
  BY <1>2, <1>3, <1>4 DEF Arrived, Place, Load
<1>6. x \in Values(t) /\ outer.values[j].meant \in {Unset, x}
  <2>1. Contents(t) = Values(t)
    BY <1>1, VariableRead
  <2> QED
    BY <1>3, <1>5, <2>1 DEF IsCall
<1>7. UNCHANGED condition
  BY DEF FromArgument
<1> QED
  BY <1>1, <1>2, <1>6, <1>7, WriteKeeps DEF Writes

LEMMA BitsFit == {0, 1} \subseteq Values(bool) /\ \A c : Bit(c) \in {0, 1}
<1>1. modulus(1) \in Nat /\ modulus(1) >= 2
  BY SizesAssumption DEF modulus
<1>2. Values(bool) = 0 .. modulus(1) - 1
  BY DEF Values, bool, is_floating_point
<1> QED
  BY <1>1, <1>2 DEF Bit

LEMMA ExpressionKeeps ==
  ASSUME FrameInv, MeansWhatItSays, TypeOK, Executing, NEW v \in DOMAIN locals,
         NEW op \in Operation, NEW e \in Expressions(op), FromExpression(v, op, e[1], e[2]),
         UNCHANGED <<function, result>>, executed' \in 0 .. MaxInstructions
  PROVE  Writes
<1>1. PICK t \in DOMAIN Immediates : Parses(op, t, t) /\ e \in Readable(t) \X Readable(t)
  BY DEF Expressions
<1>2. PICK l, r : l = e[1] /\ r = e[2]
  OBVIOUS
<1>3. /\ l.type = t /\ l.values \subseteq Values(t)
      /\ r.type = t /\ r.values \subseteq Values(t)
  BY <1>1, <1>2, ReadableFits DEF Parses
<1>4. PICK m : m = IF ~ Known(op, l, r) THEN Unset
                   ELSE IF op \in Comparison
                        THEN Bit(MeantComparison(op, t, l.meant, r.meant))
                        ELSE MeantNumber(op, t, l.meant, r.meant)
  OBVIOUS
<1>5. PICK x \in l.values, y \in r.values : \E z \in assigned(op, t, x, y) : Write(v, z, m)
  BY <1>2, <1>3, <1>4 DEF FromExpression
<1>6. PICK z \in assigned(op, t, x, y) : Write(v, z, m)
  BY <1>5
<1>7. TypeOf(v) = ReturnType(op, t)
  BY <1>2, <1>3 DEF FromExpression
<1>8. MeansWhatItSays'
  BY ExpressionsMean
<1>9. m # Unset => z = m
  <2>1. v \in DOMAIN meant /\ v \in DOMAIN locals
    BY DEF FrameInv
  <2>2. locals'[v] = z /\ meant'[v] = m /\ v \in DOMAIN meant'
    BY <1>6, <2>1 DEF Write
  <2> QED
    BY <1>8, <2>2 DEF MeansWhatItSays
<1>10. z \in Values(TypeOf(v)) \cup {Trap} /\ m \in Values(TypeOf(v)) \cup {Unset}
  <2>1. CASE op \in Arithmetical
    <3>1. z \in arithmetic(op, t, x, y) /\ TypeOf(v) = t
      BY <1>6, <1>7, <2>1 DEF assigned, ReturnType
    <3>2. z \in Values(t) \cup {Trap}
      BY <1>1, <1>3, <2>1, <3>1, ArithmeticFits
    <3>3. ASSUME m # Unset PROVE m \in Values(t)
      <4>1. Known(op, l, r) /\ op \notin Comparison /\ m = MeantNumber(op, t, l.meant, r.meant)
        BY <1>4, <2>1, <3>3 DEF Arithmetical, Comparison, Ordering
      <4>2. /\ t \in Type /\ (~ is_floating_point(t) => t.size \in Size)
            /\ l.meant \in Values(t) /\ r.meant \in Values(t)
            /\ Regular(op, t, l.meant, r.meant)
        BY <1>2, <1>3, <4>1, ExpressionRead
      <4>3. t.kind \in Integer
        BY <2>1, <4>2, RegularArithmetic
      <4>4. ~ is_floating_point(t)
        BY <4>3 DEF is_floating_point, Integer
      <4>5. m \in 0 .. modulus(t.size) - 1
        BY <2>1, <4>1, <4>2, <4>3, <4>4, MeantInRange
      <4> QED
        BY <4>4, <4>5 DEF Values
    <3> QED
      BY <3>1, <3>2, <3>3
  <2>2. CASE op \in Comparison
    <3>1. z = Bit(compare(op, t, x, y)) /\ TypeOf(v) = bool
      BY <1>6, <1>7, <2>2 DEF assigned, ReturnType, Arithmetical, Comparison, Ordering
    <3>2. m = Unset \/ m \in {0, 1}
      BY <1>4, <2>2, BitsFit
    <3> QED
      BY <3>1, <3>2, BitsFit
  <2> QED
    BY <2>1, <2>2 DEF Operation
<1>11. UNCHANGED condition
  BY DEF FromExpression
<1> QED
  BY <1>6, <1>9, <1>10, <1>11, WriteKeeps DEF Writes

LEMMA TestKeeps ==
  ASSUME FrameInv, MeansWhatItSays, TypeOK, Executing, NEW op \in Operation,
         NEW e \in Expressions(op), Test(op, e[1], e[2]),
         UNCHANGED <<function, result>>, executed' \in 0 .. MaxInstructions
  PROVE  Writes
<1>1. MeansWhatItSays'
  BY ConditionsMean
<1>2. UNCHANGED <<locals, meant>>
  BY DEF Test
<1>3. condition'.taken \in {0, 1} /\ condition'.meant \in {0, 1, Unset}
  <2>1. PICK l, r, t : l = e[1] /\ r = e[2] /\ t = l.type
    OBVIOUS
  <2>2. PICK m : m = IF ~ Known(op, l, r) \/ (op \in Arithmetical /\ t.size # 1) THEN Unset
                     ELSE IF op \in Comparison
                          THEN Bit(MeantComparison(op, t, l.meant, r.meant))
                          ELSE Bit(MeantNumber(op, t, l.meant, r.meant) # 0)
    OBVIOUS
  <2>3. \E x \in l.values, y \in r.values : \E b \in branches(op, t, x, y) :
          condition' = [taken |-> Bit(b), meant |-> m]
    BY <2>1, <2>2 DEF Test
  <2>4. PICK b : condition' = [taken |-> Bit(b), meant |-> m]
    BY <2>3
  <2>5. m \in {0, 1, Unset}
    BY <2>2, BitsFit
  <2> QED
    BY <2>4, <2>5, BitsFit
<1>4. FrameInv'
  BY <1>2, <1>3 DEF FrameInv, TypeOf
<1> QED
  BY <1>1, <1>2, <1>4 DEF Writes

\* What may be passed is of the type of the parameter, and known if it is meant.
LEMMA PassableFits ==
  ASSUME FrameInv, MeansWhatItSays, Executing, NEW t \in DOMAIN Immediates, NEW forwarded,
         NEW o \in Passable(t, forwarded), NEW x \in o.values
  PROVE  x \in Contents(t) /\ o.meant \in {Unset, x}
<1>1. Sample(t) \in Immediates[t] /\ Immediates[t] \subseteq Contents(t)
  BY ImmediatesAssumption DEF Sample, Max
<1>2. CASE o = Immediate(t, Sample(t))
  BY <1>1, <1>2 DEF Immediate
<1>3. CASE o \in Variables(t)
  <2>1. PICK v \in DOMAIN locals : TypeOf(v) = t /\ o = Variable(v)
    BY <1>3 DEF Variables
  <2> QED
    BY <2>1, VariableRead
<1>4. CASE o = Forwarded(t)
  BY <1>1, <1>4 DEF Forwarded
<1> QED
  BY <1>2, <1>3, <1>4 DEF Passable

LEMMA InvokeKeeps ==
  ASSUME FrameInv, MeansWhatItSays, Executing, NEW sig \in Callees,
         NEW callee \in {"compiled", "gcc", "clang"}, NEW types \in ArgumentTypes,
         NEW forwarded \in BOOLEAN, NEW target \in {{}} \cup { {v} : v \in DOMAIN locals },
         Invoke(sig, callee, types, forwarded, target),
         UNCHANGED <<function, result>>, executed' \in 0 .. MaxInstructions
  PROVE  Writes /\ InnerInv' /\ InvocationInv'
<1> DEFINE given(o) == { [given |-> x, meant |-> o.meant] : x \in o.values }
           passable(j) == UNION { given(o) : o \in Passable(types[j], forwarded) }
           choices == [j \in DOMAIN types |-> passable(j)]
<1>1. PICK values \in Each(choices) : inner' = NewCall("compiled", sig, values)
  BY DEF Invoke
<1>2. types \in Seq(DOMAIN Immediates) /\ sig.args = types
  <2>1. types \in UNION { [1 .. n -> DOMAIN Immediates] : n \in 0 .. 2 }
    BY DEF ArgumentTypes, SeqOf
  <2> QED
    BY <2>1 DEF Invoke, MayInvoke
<1>3. IsSignature(sig)
  BY <1>2, FunctionsAssumption DEF IsSignature
<1>4. DOMAIN values = DOMAIN types /\ \A j \in DOMAIN types : values[j] \in passable(j)
  BY DEF Each
<1>5. ASSUME NEW j \in DOMAIN sig.args
      PROVE  values[j].given \in Contents(sig.args[j])
             /\ values[j].meant \in {Unset, values[j].given}
  <2>1. PICK o \in Passable(types[j], forwarded) : values[j] \in given(o)
    BY <1>2, <1>4, <1>5
  <2>2. PICK x \in o.values : values[j] = [given |-> x, meant |-> o.meant]
    BY <2>1
  <2>3. types[j] \in DOMAIN Immediates
    BY <1>2, <1>5
  <2>4. x \in Contents(types[j]) /\ o.meant \in {Unset, x}
    BY <2>3, PassableFits
  <2> QED
    BY <1>2, <2>2, <2>4
<1> HIDE DEF choices
<1>6. /\ CallInv(inner') /\ inner'.caller = "compiled" /\ inner'.sig = sig
      /\ inner'.step = "pass"
  <2>1. PICK caller : caller = "compiled" /\ caller \in {"native", "compiled"}
    OBVIOUS
  <2>2. DOMAIN values = DOMAIN sig.args
    BY <1>2, <1>4
  <2>3. PICK d : d = NewCall(caller, sig, values)
    OBVIOUS
  <2>4. CallInv(d) /\ d.caller = caller /\ d.sig = sig /\ d.step = "pass"
    BY <1>3, <1>5, <2>1, <2>2, <2>3, NewCallPasses
  <2> QED
    BY <1>1, <2>1, <2>3, <2>4
<1>7. /\ invocation' = [callee |-> callee, target |-> target, received |-> <<>>,
                        returned |-> Unset]
      /\ UNCHANGED <<locals, meant, condition>>
  BY DEF Invoke, idle
<1>8. \A v \in target : v \in DOMAIN locals /\ TypeOf(v) = sig.ret
  BY DEF Invoke, MayInvoke
<1>9. Writes
  <2>1. FrameInv'
    BY <1>7 DEF FrameInv, TypeOf
  <2>2. MeansWhatItSays'
    BY <1>7 DEF MeansWhatItSays
  <2> QED
    BY <1>7, <2>1, <2>2 DEF Writes
<1>10. InnerInv'
  BY <1>6 DEF InnerInv
<1>11. InvocationInv'
  <2>1. \A v \in target : v \in DOMAIN locals' /\ TypeOf(v)' = inner'.sig.ret
    BY <1>6, <1>7, <1>8 DEF TypeOf
  <2>2. inner'.step \notin {"drop", "done"}
    BY <1>6
  <2> QED
    BY <1>7, <2>1, <2>2 DEF InvocationInv
<1> QED
  BY <1>9, <1>10, <1>11

LEMMA ExecuteKeeps ==
  ASSUME DataInv, Execute PROVE DataInv'
<1>1. /\ FrameInv /\ OuterInv /\ InnerInv /\ ResultInv /\ InvocationInv /\ MeansWhatItSays
      /\ TypeOK
  BY DataTypes DEF DataInv
<1>2. Executing /\ inner = none /\ UNCHANGED <<function, outer, result>>
  BY DEF Execute, Executing
<1>3. executed' \in 0 .. MaxInstructions
  BY <1>1, FunctionsAssumption DEF Execute, FrameInv
<1>4. Instruction
  BY DEF Execute
<1>5. OuterInv' /\ ResultInv'
  BY <1>1, <1>2 DEF OuterInv, ResultInv
<1>6. inner' = none => InnerInv' /\ InvocationInv'
  BY DEF InnerInv, InvocationInv
<1>7. CASE \E v \in DOMAIN locals : Copy(v)
  <2>1. PICK v \in DOMAIN locals : Copy(v)
    BY <1>7
  <2>2. Writes
    BY <1>1, <1>2, <1>3, <2>1, CopyKeeps
  <2>3. inner' = none
    BY <1>2, <2>1 DEF Copy
  <2> QED
    BY <1>5, <1>6, <2>2, <2>3 DEF DataInv, Writes
<1>8. CASE \E v \in DOMAIN locals : \E j \in DOMAIN function.sig.args : FromArgument(v, j)
  <2>1. PICK v \in DOMAIN locals, j \in DOMAIN function.sig.args : FromArgument(v, j)
    BY <1>8
  <2>2. Writes
    BY <1>1, <1>2, <1>3, <2>1, ArgumentKeeps
  <2>3. inner' = none
    BY <1>2, <2>1 DEF FromArgument
  <2> QED
    BY <1>5, <1>6, <2>2, <2>3 DEF DataInv, Writes
<1>9. CASE \E v \in DOMAIN locals : \E op \in Operation : \E e \in Expressions(op) :
             FromExpression(v, op, e[1], e[2])
  <2>1. PICK v \in DOMAIN locals : \E op \in Operation : \E e \in Expressions(op) :
               FromExpression(v, op, e[1], e[2])
    BY <1>9
  <2>4. PICK op \in Operation : \E e \in Expressions(op) : FromExpression(v, op, e[1], e[2])
    BY <2>1
  <2>5. PICK e \in Expressions(op) : FromExpression(v, op, e[1], e[2])
    BY <2>4
  <2>2. Writes
    BY <1>1, <1>2, <1>3, <2>5, ExpressionKeeps
  <2>3. inner' = none
    BY <1>2, <2>5 DEF FromExpression
  <2> QED
    BY <1>5, <1>6, <2>2, <2>3 DEF DataInv, Writes
<1>10. CASE \E op \in Operation : \E e \in Expressions(op) : Test(op, e[1], e[2])
  <2>1. PICK op \in Operation : \E e \in Expressions(op) : Test(op, e[1], e[2])
    BY <1>10
  <2>4. PICK e \in Expressions(op) : Test(op, e[1], e[2])
    BY <2>1
  <2>2. Writes
    BY <1>1, <1>2, <1>3, <2>4, TestKeeps
  <2>3. inner' = none
    BY <1>2, <2>4 DEF Test
  <2> QED
    BY <1>5, <1>6, <2>2, <2>3 DEF DataInv, Writes
<1>11. CASE \E sig \in Callees, callee \in {"compiled", "gcc", "clang"},
              types \in ArgumentTypes, forwarded \in BOOLEAN,
              target \in {{}} \cup { {v} : v \in DOMAIN locals } :
              Invoke(sig, callee, types, forwarded, target)
  <2>1. PICK sig \in Callees, callee \in {"compiled", "gcc", "clang"},
             types \in ArgumentTypes, forwarded \in BOOLEAN,
             target \in {{}} \cup { {v} : v \in DOMAIN locals } :
             Invoke(sig, callee, types, forwarded, target)
    BY <1>11
  <2>2. Writes /\ InnerInv' /\ InvocationInv'
    BY <1>1, <1>2, <1>3, <2>1, InvokeKeeps
  <2> QED
    BY <1>5, <2>2 DEF DataInv, Writes
<1> QED
  BY <1>4, <1>7, <1>8, <1>9, <1>10, <1>11 DEF Instruction

\* A step of the call of the function leaves its variables and what it calls alone.
LEMMA FrameStays ==
  ASSUME FrameInv, InnerInv, InvocationInv, UNCHANGED <<function, frameVars, inner, invocation>>
  PROVE  FrameInv' /\ InnerInv' /\ InvocationInv'
<1>1. UNCHANGED <<function, locals, meant, condition, executed, inner, invocation>>
  BY DEF frameVars
<1>2. FrameInv'
  BY <1>1 DEF FrameInv, TypeOf
<1>3. InnerInv'
  BY <1>1 DEF InnerInv
<1>4. InvocationInv'
  BY <1>1 DEF InvocationInv, TypeOf
<1> QED
  BY <1>2, <1>3, <1>4

LEMMA MeaningStays ==
  ASSUME MeansWhatItSays, UNCHANGED <<frameVars, result>>
  PROVE  MeansWhatItSays'
  BY DEF MeansWhatItSays, frameVars

LEMMA PassOuterKeeps ==
  ASSUME DataInv, PassOuter PROVE DataInv'
<1>1. FrameInv /\ OuterInv /\ InnerInv /\ ResultInv /\ InvocationInv /\ MeansWhatItSays
  BY DEF DataInv
<1>2. UNCHANGED <<function, frameVars, inner, invocation, result>> /\ outer.step = "pass"
  BY DEF PassOuter
<1>3. FrameInv' /\ InnerInv' /\ InvocationInv' /\ MeansWhatItSays'
  BY <1>1, <1>2, FrameStays, MeaningStays
<1>4. CallInv(outer') /\ Continues(outer, outer') /\ outer'.step \in {"pass", "callee"}
  <2>1. PICK c, d : c = outer /\ d = outer'
    OBVIOUS
  <2>2. CallInv(c) /\ c.step = "pass"
    BY <1>1, <1>2, <2>1 DEF OuterInv
  <2>3. IF More(c) THEN d \in PassArgument(c) ELSE d = Enter(c)
    BY <2>1 DEF PassOuter
  <2>4. CASE More(c)
    <3>1. CallInv(d) /\ d.caller = c.caller /\ d.sig = c.sig /\ d.values = c.values
          /\ d.step = "pass"
      BY <2>2, <2>3, <2>4, PassKeeps
    <3> QED
      BY <2>1, <3>1 DEF Continues
  <2>5. CASE ~ More(c)
    <3>1. d = Enter(c)
      BY <2>3, <2>5
    <3>2. CallInv(d) /\ Continues(c, d) /\ d.step = "callee"
      BY <2>2, <2>5, <3>1, EnterKeeps
    <3> QED
      BY <2>1, <3>2
  <2> QED
    BY <2>4, <2>5
<1>5. OuterInv'
  BY <1>1, <1>2, <1>4 DEF OuterInv, Continues
<1>6. ResultInv'
  BY <1>1, <1>2, <1>4 DEF ResultInv
<1> QED
  BY <1>3, <1>5, <1>6 DEF DataInv

LEMMA ReturnKeeps ==
  ASSUME DataInv, Return PROVE DataInv'
<1>1. /\ FrameInv /\ OuterInv /\ InnerInv /\ ResultInv /\ InvocationInv /\ MeansWhatItSays
      /\ CallInv(outer) /\ outer.caller = "native" /\ outer.sig = function.sig
  BY DEF DataInv, OuterInv
<1>2. /\ Executing /\ outer.step = "callee" /\ inner = none /\ result.given = Unset
      /\ UNCHANGED <<function, executed, inner, invocation>>
      /\ locals' = Nothing /\ meant' = Nothing
      /\ condition' = [taken |-> Unset, meant |-> Unset]
  BY <1>1 DEF Return, Executing, ResultInv
<1>3. PICK ret : ret = function.sig.ret
  OBVIOUS
<1>4. PICK x, m : /\ outer' = Leave(outer, x) /\ (ret # void => x \in Contents(ret))
                  /\ ret # void /\ m # Unset => x = m
                  /\ result' = [given |-> Unset, meant |-> m]
  <2>1. CASE ret = void
    <3>1. outer' = Leave(outer, Unset) /\ result' = result
      BY <1>3, <2>1 DEF Return
    <3>2. result' = [given |-> Unset, meant |-> result.meant]
      BY <1>1, <1>2, <3>1 DEF ResultInv
    <3> QED
      BY <2>1, <3>1, <3>2
  <2>2. CASE ret # void
    <3>1. PICK v \in DOMAIN locals :
            /\ TypeOf(v) = ret
            /\ \E x \in Variable(v).values : outer' = Leave(outer, x)
            /\ result' = [result EXCEPT !.meant = meant[v]]
      BY <1>3, <2>2 DEF Return
    <3>2. PICK x \in Variable(v).values : outer' = Leave(outer, x)
      BY <3>1
    <3>3. result' = [given |-> Unset, meant |-> meant[v]]
      BY <1>1, <1>2, <3>1 DEF ResultInv
    <3>4. x \in Contents(ret) /\ (meant[v] # Unset => x = meant[v])
      BY <1>1, <1>2, <3>1, VariableRead
    <3> QED
      BY <3>2, <3>3, <3>4
  <2> QED
    BY <2>1, <2>2
<1>5. /\ CallInv(outer') /\ Continues(outer, outer') /\ outer'.step = "take"
      /\ ret # void => outer'.cells[0].value = x
  <2>1. PICK c, d : c = outer /\ d = outer'
    OBVIOUS
  <2>2. CallInv(c) /\ c.step = "callee" /\ (c.sig.ret # void => x \in Contents(c.sig.ret))
    BY <1>1, <1>2, <1>3, <1>4, <2>1
  <2>3. d = Leave(c, x)
    BY <1>4, <2>1
  <2>4. /\ CallInv(d) /\ Continues(c, d)
        /\ d.step = IF c.caller = "native" THEN "take" ELSE "drop"
        /\ c.sig.ret # void => d.cells[0].value = x
    BY <2>2, <2>3, LeaveKeeps
  <2> QED
    BY <1>1, <1>3, <2>1, <2>4
<1>6. FrameInv'
  BY <1>1, <1>2 DEF FrameInv, TypeOf, Nothing
<1>7. MeansWhatItSays'
  BY <1>2, <1>4 DEF MeansWhatItSays, Nothing
<1>8. InnerInv' /\ InvocationInv'
  BY <1>2 DEF InnerInv, InvocationInv
<1>9. OuterInv'
  BY <1>1, <1>2, <1>5 DEF OuterInv, Continues
<1>10. ResultInv'
  BY <1>2, <1>3, <1>4, <1>5 DEF ResultInv
<1> QED
  BY <1>6, <1>7, <1>8, <1>9, <1>10 DEF DataInv

LEMMA TakeOuterKeeps ==
  ASSUME DataInv, TakeOuter PROVE DataInv'
<1>1. /\ FrameInv /\ OuterInv /\ InnerInv /\ ResultInv /\ InvocationInv /\ MeansWhatItSays
      /\ CallInv(outer) /\ outer.caller = "native" /\ outer.sig = function.sig
  BY DEF DataInv, OuterInv
<1>2. /\ UNCHANGED <<function, frameVars, inner, invocation>> /\ outer.step = "take"
      /\ result.given = Unset
  BY <1>1 DEF TakeOuter, ResultInv
<1>3. FrameInv' /\ InnerInv' /\ InvocationInv'
  BY <1>1, <1>2, FrameStays
<1>4. TakenBack(outer, outer')
  <2>1. PICK c, d : c = outer /\ d = outer'
    OBVIOUS
  <2>2. CallInv(c) /\ c.step = "take" /\ d \in TakeReturn(c)
    BY <1>1, <1>2, <2>1 DEF TakeOuter
  <2>3. TakenBack(c, d)
    BY <2>2, TakeKeeps
  <2> QED
    BY <2>1, <2>3
<1>5. OuterInv' /\ outer'.step = "drop"
  BY <1>1, <1>2, <1>4 DEF OuterInv, TakenBack, Continues
<1>6. PICK x : /\ result' = [given |-> x, meant |-> result.meant]
               /\ x # Unset /\ result.meant # Unset => x = result.meant
  <2>1. CASE function.sig.ret = void
    BY <1>1, <1>2, <2>1 DEF TakeOuter, ResultInv
  <2>2. CASE function.sig.ret # void
    <3>1. PICK x \in Taken(outer) : result' = [result EXCEPT !.given = x]
      BY <2>2 DEF TakeOuter
    <3>2. result' = [given |-> x, meant |-> result.meant]
      BY <1>1, <3>1 DEF ResultInv
    <3>3. x = outer.cells[0].value
      BY <1>1, <1>4, <2>2, <3>1 DEF TakenBack
    <3>4. result.meant # Unset => outer.cells[0].value = result.meant
      BY <1>1, <1>2, <2>2 DEF ResultInv
    <3> QED
      BY <3>2, <3>3, <3>4
  <2> QED
    BY <2>1, <2>2
<1>7. ResultInv'
  BY <1>5, <1>6 DEF ResultInv
<1>8. MeansWhatItSays'
  BY <1>1, <1>2, <1>6 DEF MeansWhatItSays, frameVars
<1> QED
  BY <1>3, <1>5, <1>7, <1>8 DEF DataInv

LEMMA DropOuterKeeps ==
  ASSUME DataInv, DropOuter PROVE DataInv'
<1>1. /\ FrameInv /\ OuterInv /\ InnerInv /\ ResultInv /\ InvocationInv /\ MeansWhatItSays
      /\ CallInv(outer) /\ outer.caller = "native" /\ outer.sig = function.sig
  BY DEF DataInv, OuterInv
<1>2. UNCHANGED <<function, frameVars, inner, invocation, result>> /\ outer.step = "drop"
  BY DEF DropOuter
<1>3. FrameInv' /\ InnerInv' /\ InvocationInv' /\ MeansWhatItSays'
  BY <1>1, <1>2, FrameStays, MeaningStays
<1>4. CallInv(outer') /\ Continues(outer, outer') /\ outer'.step \in {"drop", "done"}
  <2>1. PICK c, d : c = outer /\ d = outer'
    OBVIOUS
  <2>2. CallInv(c) /\ c.step = "drop" /\ c.caller = "native"
    BY <1>1, <1>2, <2>1
  <2>3. IF More(c) THEN d \in DropArgument(c) ELSE d = [c EXCEPT !.step = "done"]
    BY <2>1 DEF DropOuter
  <2>4. CASE More(c)
    <3>1. Dropped(c, d)
      BY <2>2, <2>3, <2>4, DropKeeps
    <3> QED
      BY <2>1, <3>1 DEF Dropped
  <2>5. CASE ~ More(c)
    <3>1. d = [c EXCEPT !.step = "done"]
      BY <2>3, <2>5
    <3>2. CallInv(d) /\ Continues(c, d) /\ d.step = "done"
      BY <2>2, <2>5, <3>1, CloseKeeps
    <3> QED
      BY <2>1, <3>2
  <2> QED
    BY <2>4, <2>5
<1>5. OuterInv'
  BY <1>1, <1>2, <1>4 DEF OuterInv, Continues
<1>6. ResultInv'
  BY <1>1, <1>2, <1>4 DEF ResultInv
<1> QED
  BY <1>3, <1>5, <1>6 DEF DataInv

\* A step of a call the function makes leaves the function alone.
LEMMA OuterStays ==
  ASSUME DataInv, InnerStep
  PROVE  /\ OuterInv' /\ ResultInv'
         /\ UNCHANGED <<locals, meant>> => FrameInv' /\ MeansWhatItSays'
<1>1. FrameInv /\ OuterInv /\ ResultInv /\ MeansWhatItSays
  BY DEF DataInv
<1>2. UNCHANGED <<function, outer, condition, executed, result>>
  BY DEF InnerStep
<1>3. OuterInv' /\ ResultInv'
  BY <1>1, <1>2 DEF OuterInv, ResultInv
<1>4. UNCHANGED <<locals, meant>> => FrameInv'
  BY <1>1, <1>2 DEF FrameInv, TypeOf
<1>5. UNCHANGED <<locals, meant>> => MeansWhatItSays'
  BY <1>1, <1>2 DEF MeansWhatItSays
<1> QED
  BY <1>3, <1>4, <1>5

\* What is said of the one who is called before it has returned.
LEMMA StillCalled ==
  ASSUME InvocationInv, inner # none, UNCHANGED <<function, locals, invocation>>,
         Continues(inner, inner'), inner'.step \in {"pass", "callee"}
  PROVE  InvocationInv'
<1>1. inner'.sig = inner.sig
  BY DEF Continues
<1>2. \A v \in invocation'.target : v \in DOMAIN locals' /\ TypeOf(v)' = inner'.sig.ret
  BY <1>1 DEF InvocationInv, TypeOf
<1>3. inner'.step \notin {"drop", "done"}
  OBVIOUS
<1> QED
  BY <1>2, <1>3 DEF InvocationInv

LEMMA PassInnerKeeps ==
  ASSUME DataInv, PassInner PROVE DataInv'
<1>1. /\ inner.step = "pass" /\ UNCHANGED <<locals, meant, invocation>> /\ InnerStep
      /\ UNCHANGED function
  BY DEF PassInner, InnerStep
<1>2. inner # none /\ CallInv(inner) /\ inner.caller = "compiled" /\ InvocationInv
  BY <1>1 DEF DataInv, InnerInv, none
<1>3. OuterInv' /\ ResultInv' /\ FrameInv' /\ MeansWhatItSays'
  BY <1>1, OuterStays
<1>4. CallInv(inner') /\ Continues(inner, inner') /\ inner'.step \in {"pass", "callee"}
  <2>1. PICK c, d : c = inner /\ d = inner'
    OBVIOUS
  <2>2. CallInv(c) /\ c.step = "pass"
    BY <1>1, <1>2, <2>1
  <2>3. IF More(c) THEN d \in PassArgument(c) ELSE d = Enter(c)
    BY <2>1 DEF PassInner
  <2>4. CASE More(c)
    <3>1. CallInv(d) /\ d.caller = c.caller /\ d.sig = c.sig /\ d.values = c.values
          /\ d.step = "pass"
      BY <2>2, <2>3, <2>4, PassKeeps
    <3> QED
      BY <2>1, <3>1 DEF Continues
  <2>5. CASE ~ More(c)
    <3>1. d = Enter(c)
      BY <2>3, <2>5
    <3>2. CallInv(d) /\ Continues(c, d) /\ d.step = "callee"
      BY <2>2, <2>5, <3>1, EnterKeeps
    <3> QED
      BY <2>1, <3>2
  <2> QED
    BY <2>4, <2>5
<1>5. InnerInv'
  BY <1>2, <1>4 DEF InnerInv, Continues
<1>6. InvocationInv'
  BY <1>1, <1>2, <1>4, StillCalled
<1> QED
  BY <1>3, <1>5, <1>6 DEF DataInv

\* What a callee of any kind reads is of the type of its parameter, and what was passed,
\* if it was passed right.
LEMMA Received ==
  ASSUME NEW c, CallInv(c), c.step = "callee", NEW callee \in {"compiled", "gcc", "clang"},
         NEW j \in DOMAIN c.sig.args, NEW y \in Receive(c, callee, j)
  PROVE  y \in Contents(c.sig.args[j]) /\ (PassesRight(c) => y = c.values[j].given)
<1>1. IsSignature(c.sig) /\ CellsInv(c)
  BY DEF CallInv, IsCall
<1>2. j \in 1 .. Len(c.sig.args)
  BY <1>1, Places
<1>3. PICK a, t : a = Place(c, j) /\ t = c.sig.args[j]
  OBVIOUS
<1>4. Found(callee, c.sig, j) = a
  BY <1>1, <1>2, <1>3, FoundThere DEF Place
<1>5. y \in Load(c, a, t)
  BY <1>3, <1>4 DEF Receive
<1>6. y \in Contents(t)
  BY <1>1, <1>5 DEF Load, Holding, CellsInv
<1>7. PassesRight(c) => Holding(c, a, t) /\ c.cells[a].value = c.values[j].given
  BY <1>2, <1>3, AllArrive DEF Arrived
<1>8. PassesRight(c) => y = c.values[j].given
  BY <1>5, <1>7 DEF Load
<1> QED
  BY <1>3, <1>6, <1>8

LEMMA ServeInnerKeeps ==
  ASSUME DataInv, ServeInner PROVE DataInv'
<1>1. /\ inner.step = "callee" /\ UNCHANGED <<locals, meant>> /\ InnerStep
      /\ UNCHANGED function
  BY DEF ServeInner, InnerStep
<1>2. /\ inner # none /\ CallInv(inner) /\ inner.caller = "compiled" /\ InvocationInv
      /\ invocation.callee \in {"compiled", "gcc", "clang"}
  BY <1>1 DEF DataInv, InnerInv, InvocationInv, none
<1>3. OuterInv' /\ ResultInv' /\ FrameInv' /\ MeansWhatItSays'
  BY <1>1, OuterStays
<1> DEFINE found == [j \in DOMAIN inner.sig.args |-> Receive(inner, invocation.callee, j)]
           same(received) ==
             { received[j] : j \in { k \in DOMAIN inner.sig.args :
                                      inner.sig.args[k] = inner.sig.ret } }
           values(received) == IF inner.sig.ret = void THEN {Unset}
                               ELSE same(received) \cup {Sample(inner.sig.ret)}
           served(received, x) ==
             /\ inner' = Leave(inner, x)
             /\ invocation' = [invocation EXCEPT !.received = received, !.returned = x]
<1>4. \E received \in Each(found) : \E x \in values(received) : served(received, x)
  BY Zenon DEF ServeInner
<1> HIDE DEF served, values
<1>5. PICK received \in Each(found) : \E x \in values(received) : served(received, x)
  BY <1>4
<1>6. PICK x \in values(received) : served(received, x)
  BY <1>5
<1> USE DEF served, values
<1>7. PICK c, sig, callee : c = inner /\ sig = c.sig /\ callee = invocation.callee
  OBVIOUS
<1>8. \A j \in DOMAIN sig.args : received[j] \in Receive(c, callee, j)
  BY <1>7 DEF Each
<1>9. /\ \A j \in DOMAIN sig.args :
           received[j] \in Contents(sig.args[j])
           /\ (PassesRight(c) => received[j] = c.values[j].given)
      /\ DOMAIN c.values = DOMAIN sig.args /\ IsSignature(sig)
  <2>1. CallInv(c) /\ c.step = "callee" /\ callee \in {"compiled", "gcc", "clang"}
    BY <1>1, <1>2, <1>7
  <2>2. DOMAIN c.values = DOMAIN sig.args /\ IsSignature(sig)
    BY <1>7, <2>1 DEF CallInv, IsCall
  <2>3. ASSUME NEW j \in DOMAIN sig.args
        PROVE  received[j] \in Contents(sig.args[j])
               /\ (PassesRight(c) => received[j] = c.values[j].given)
    <3>1. received[j] \in Receive(c, callee, j) /\ j \in DOMAIN c.sig.args
      BY <1>7, <1>8
    <3> QED
      BY <1>7, <2>1, <3>1, Received
  <2> QED
    BY <2>2, <2>3
<1>10. sig.ret # void => x \in Contents(sig.ret)
  <2> SUFFICES ASSUME sig.ret # void PROVE x \in Contents(sig.ret)
    OBVIOUS
  <2>1. CASE x \in same(received)
    BY <1>7, <1>9, <2>1
  <2>2. CASE x = Sample(sig.ret)
    <3>1. sig.ret \in DOMAIN Immediates
      BY <1>9 DEF IsSignature
    <3>2. Sample(sig.ret) \in Immediates[sig.ret]
      BY <3>1, ImmediatesAssumption DEF Sample, Max
    <3> QED
      BY <2>2, <3>1, <3>2, ImmediatesAssumption
  <2> QED
    BY <1>7, <1>6, <2>1, <2>2
<1>11. PICK d : d = inner'
  OBVIOUS
<1>12. /\ CallInv(d) /\ Continues(c, d) /\ d.step = "drop"
       /\ sig.ret # void => d.cells[0].value = x
  <2>1. CallInv(c) /\ c.step = "callee" /\ (c.sig.ret # void => x \in Contents(c.sig.ret))
    BY <1>1, <1>2, <1>7, <1>10
  <2>2. d = Leave(c, x)
    BY <1>7, <1>6, <1>11
  <2>3. /\ CallInv(d) /\ Continues(c, d)
        /\ d.step = IF c.caller = "native" THEN "take" ELSE "drop"
        /\ c.sig.ret # void => d.cells[0].value = x
    BY <2>1, <2>2, LeaveKeeps
  <2> QED
    BY <1>2, <1>7, <2>3
<1>13. InnerInv'
  BY <1>2, <1>7, <1>11, <1>12 DEF InnerInv, Continues
<1>14. invocation' = [callee |-> callee, target |-> invocation.target, received |-> received,
                      returned |-> x]
  <2>1. invocation = [callee |-> invocation.callee, target |-> invocation.target,
                      received |-> invocation.received, returned |-> invocation.returned]
    BY <1>2 DEF InvocationInv
  <2> QED
    BY <1>7, <1>6, <2>1
<1>15. InvocationInv'
  <2>1. d.sig = sig /\ d.values = c.values /\ (PassesRight(d) <=> PassesRight(c))
    BY <1>7, <1>12, SameCall DEF Continues
  <2>2. \A v \in invocation.target : v \in DOMAIN locals' /\ TypeOf(v)' = d.sig.ret
    BY <1>1, <1>2, <1>7, <2>1 DEF InvocationInv, TypeOf
  <2>3. PassesRight(d) => \A j \in DOMAIN d.values : received[j] = d.values[j].given
    BY <1>9, <2>1
  <2> QED
    BY <1>2, <1>7, <1>10, <1>11, <1>12, <1>14, <2>1, <2>2, <2>3 DEF InvocationInv
<1> QED
  BY <1>3, <1>13, <1>15 DEF DataInv

\* What is said of the one who was called after it has returned.
LEMMA Served ==
  ASSUME InvocationInv, inner # none, UNCHANGED <<function, invocation>>,
         DOMAIN locals' = DOMAIN locals, inner.step = "drop", Continues(inner, inner'),
         \/ inner'.step = "done"
         \/ inner'.step = "drop" /\ (Untouched(inner) => inner'.cells = inner.cells)
  PROVE  InvocationInv'
<1>1. /\ inner'.sig = inner.sig /\ inner'.values = inner.values
      /\ (PassesRight(inner') <=> PassesRight(inner))
      /\ (Untouched(inner') <=> Untouched(inner))
  BY SameCall DEF Continues
<1>2. \A v \in invocation'.target : v \in DOMAIN locals' /\ TypeOf(v)' = inner'.sig.ret
  BY <1>1 DEF InvocationInv, TypeOf
<1> QED
  BY <1>1, <1>2 DEF InvocationInv

LEMMA DropInnerKeeps ==
  ASSUME DataInv, DropInner PROVE DataInv'
<1>1. /\ inner.step = "drop" /\ UNCHANGED <<locals, meant, invocation>> /\ InnerStep
      /\ UNCHANGED function
  BY DEF DropInner, InnerStep
<1>2. inner # none /\ CallInv(inner) /\ inner.caller = "compiled" /\ InvocationInv
  BY <1>1 DEF DataInv, InnerInv, none
<1>3. OuterInv' /\ ResultInv' /\ FrameInv' /\ MeansWhatItSays'
  BY <1>1, OuterStays
<1>4. Dropped(inner, inner')
  <2>1. PICK c, d : c = inner /\ d = inner'
    OBVIOUS
  <2>2. CallInv(c) /\ c.step = "drop" /\ More(c) /\ d \in DropArgument(c)
    BY <1>1, <1>2, <2>1 DEF DropInner
  <2>3. Dropped(c, d)
    BY <2>2, DropKeeps
  <2> QED
    BY <2>1, <2>3
<1>5. InnerInv'
  BY <1>2, <1>4 DEF InnerInv, Continues, Dropped
<1>6. InvocationInv'
  BY <1>1, <1>2, <1>4, Served DEF Dropped
<1> QED
  BY <1>3, <1>5, <1>6 DEF DataInv

LEMMA TakeInnerKeeps ==
  ASSUME DataInv, TakeInner PROVE DataInv'
<1>1. /\ inner.step = "drop" /\ ~ More(inner) /\ inner' \in TakeReturn(inner)
      /\ UNCHANGED invocation /\ InnerStep /\ UNCHANGED function
  BY DEF TakeInner, InnerStep
<1>2. /\ inner # none /\ CallInv(inner) /\ inner.caller = "compiled" /\ InvocationInv
      /\ FrameInv /\ MeansWhatItSays
  BY <1>1 DEF DataInv, InnerInv, none
<1>3. OuterInv' /\ ResultInv' /\ (UNCHANGED <<locals, meant>> => FrameInv' /\ MeansWhatItSays')
  BY <1>1, OuterStays
<1>4. TakenBack(inner, inner')
  <2>1. PICK c, d : c = inner /\ d = inner'
    OBVIOUS
  <2>2. CallInv(c) /\ c.step = "drop" /\ ~ More(c) /\ c.caller = "compiled" /\ d \in TakeReturn(c)
    BY <1>1, <1>2, <2>1
  <2>3. TakenBack(c, d)
    BY <2>2, TakeKeeps
  <2> QED
    BY <2>1, <2>3
<1>5. CallInv(inner') /\ Continues(inner, inner') /\ inner'.step = "done"
  BY <1>2, <1>4 DEF TakenBack
<1>6. InnerInv'
  BY <1>2, <1>5 DEF InnerInv, Continues
<1>7. FrameInv' /\ MeansWhatItSays' /\ DOMAIN locals' = DOMAIN locals
  <2>1. CASE invocation.target = {}
    <3>1. UNCHANGED <<locals, meant>>
      BY <2>1 DEF TakeInner
    <3> QED
      BY <1>3, <3>1
  <2>2. CASE invocation.target # {}
    <3>1. PICK v : v = CHOOSE w \in invocation.target : TRUE
      OBVIOUS
    <3>2. v \in invocation.target /\ v \in DOMAIN locals /\ TypeOf(v) = inner.sig.ret
      BY <1>2, <2>2, <3>1 DEF InvocationInv
    <3>3. PICK m : m = IF Objects(inner) = {} THEN invocation.returned ELSE Unset
      OBVIOUS
    <3>4. PICK x \in Taken(inner) : Write(v, x, m)
      BY <2>2, <3>1, <3>3 DEF TakeInner
    <3>5. PICK t : t = TypeOf(v) /\ t = inner.sig.ret
      BY <3>2
    <3>11. t \in DOMAIN Immediates /\ ~ IsObject(t)
      <4>1. PICK q, T : q = function.locals /\ T = { u \in DOMAIN Immediates : is_primitive(u) }
        OBVIOUS
      <4>2. q \in Seq(T) /\ v \in DOMAIN q
        BY <1>2, <3>2, <4>1, FunctionsAssumption DEF FrameInv
      <4>3. q[v] \in T
        BY <4>2
      <4>4. t \in DOMAIN Immediates /\ is_primitive(t)
        BY <3>5, <4>1, <4>3 DEF TypeOf
      <4> QED
        BY <4>4 DEF IsObject
    <3>6. t # void /\ Contents(t) = Values(t)
      BY <3>11, TypeSizes DEF Contents
    <3>7. x \in Values(t)
      BY <1>4, <3>4, <3>5, <3>6 DEF TakenBack
    <3>8. m # Unset => x = m
      <4> SUFFICES ASSUME m # Unset PROVE x = m
        OBVIOUS
      <4>1. Objects(inner) = {} /\ m = invocation.returned
        BY <3>3
      <4>2. ~ IsObject(inner.sig.ret)
        BY <3>5, <3>11
      <4>3. x = inner.cells[0].value
        BY <1>4, <3>4, <3>5, <3>6, <4>1, <4>2 DEF TakenBack
      <4>4. inner.cells[0].value = invocation.returned
        BY <1>1, <1>2, <3>5, <3>6, <4>1 DEF InvocationInv, Untouched
      <4> QED
        BY <4>1, <4>3, <4>4
    <3>9. UNCHANGED <<function, condition, result>> /\ executed' \in 0 .. MaxInstructions
      BY <1>1, <1>2 DEF InnerStep, FrameInv
    <3>10. x \in Values(TypeOf(v)) \cup {Trap} /\ m \in Values(TypeOf(v)) \cup {Unset}
      BY <3>5, <3>7, <3>8
    <3> QED
      BY <1>2, <3>2, <3>4, <3>8, <3>9, <3>10, WriteKeeps
  <2> QED
    BY <2>1, <2>2
<1>8. InvocationInv'
  BY <1>1, <1>2, <1>5, <1>7, Served
<1> QED
  BY <1>3, <1>6, <1>7, <1>8 DEF DataInv

LEMMA ResumeKeeps ==
  ASSUME DataInv, Resume PROVE DataInv'
<1>1. UNCHANGED <<locals, meant>> /\ InnerStep /\ inner' = none
  BY DEF Resume
<1>2. OuterInv' /\ ResultInv' /\ FrameInv' /\ MeansWhatItSays'
  BY <1>1, OuterStays
<1>3. InnerInv' /\ InvocationInv'
  BY <1>1 DEF InnerInv, InvocationInv
<1> QED
  BY <1>2, <1>3 DEF DataInv

LEMMA NothingHappens ==
  ASSUME DataInv, UNCHANGED vars PROVE DataInv'
<1>1. FrameInv /\ OuterInv /\ InnerInv /\ ResultInv /\ InvocationInv /\ MeansWhatItSays
  BY DEF DataInv
<1>2. UNCHANGED <<function, frameVars, inner, invocation, result, outer>>
  BY DEF vars
<1>3. FrameInv' /\ InnerInv' /\ InvocationInv' /\ MeansWhatItSays'
  BY <1>1, <1>2, FrameStays, MeaningStays
<1>4. OuterInv' /\ ResultInv'
  BY <1>1, <1>2 DEF OuterInv, ResultInv
<1> QED
  BY <1>3, <1>4 DEF DataInv

LEMMA InitData == Init => DataInv
<1> SUFFICES ASSUME Init PROVE DataInv
  OBVIOUS
<1>1. /\ function \in Functions /\ locals = Nothing /\ meant = Nothing
      /\ condition = [taken |-> Unset, meant |-> Unset] /\ executed = 0
      /\ inner = none /\ result = [given |-> Unset, meant |-> Unset]
  BY DEF Init
<1>2. FrameInv
  BY <1>1, FunctionsAssumption DEF FrameInv, Nothing
<1>3. MeansWhatItSays
  BY <1>1 DEF MeansWhatItSays, Nothing
<1>4. InnerInv /\ InvocationInv
  BY <1>1 DEF InnerInv, InvocationInv
<1>5. CallInv(outer) /\ outer.caller = "native" /\ outer.sig = function.sig /\ outer.step = "pass"
  <2>1. PICK sig, args : sig = function.sig /\ args = sig.args
    OBVIOUS
  <2> DEFINE passed(j) == { [given |-> x, meant |-> x] : x \in Immediates[args[j]] }
             choices == [j \in DOMAIN args |-> passed(j)]
  <2>2. PICK values \in Each(choices) : outer = NewCall("native", sig, values)
    BY <2>1 DEF Init
  <2>3. DOMAIN values = DOMAIN args /\ \A j \in DOMAIN args : values[j] \in passed(j)
    BY DEF Each
  <2>4. IsSignature(sig)
    BY <1>1, <2>1, FunctionsAssumption DEF IsSignature
  <2>5. ASSUME NEW j \in DOMAIN args
        PROVE  values[j].given \in Contents(args[j]) /\ values[j].meant \in {Unset, values[j].given}
    <3>1. PICK x \in Immediates[args[j]] : values[j] = [given |-> x, meant |-> x]
      BY <2>3
    <3>2. args[j] \in DOMAIN Immediates
      BY <2>1, <2>4, Places
    <3> QED
      BY <3>1, <3>2, ImmediatesAssumption
  <2> HIDE DEF choices
  <2>6. PICK caller, c : caller = "native" /\ c = NewCall(caller, sig, values)
    OBVIOUS
  <2>7. caller \in {"native", "compiled"} /\ DOMAIN values = DOMAIN sig.args
    BY <2>1, <2>3, <2>6
  <2>8. CallInv(c) /\ c.caller = caller /\ c.sig = sig /\ c.step = "pass"
    BY <2>1, <2>4, <2>5, <2>6, <2>7, NewCallPasses
  <2> QED
    BY <2>1, <2>2, <2>6, <2>8
<1>6. OuterInv /\ ResultInv
  BY <1>1, <1>5 DEF OuterInv, ResultInv
<1> QED
  BY <1>2, <1>3, <1>4, <1>6 DEF DataInv

LEMMA StepKeepsData == DataInv /\ [Next]_vars => DataInv'
<1> SUFFICES ASSUME DataInv, [Next]_vars PROVE DataInv'
  OBVIOUS
<1>1. CASE PassOuter
  BY <1>1, PassOuterKeeps
<1>2. CASE Execute
  BY <1>2, ExecuteKeeps
<1>3. CASE Return
  BY <1>3, ReturnKeeps
<1>4. CASE TakeOuter
  BY <1>4, TakeOuterKeeps
<1>5. CASE DropOuter
  BY <1>5, DropOuterKeeps
<1>6. CASE PassInner
  BY <1>6, PassInnerKeeps
<1>7. CASE ServeInner
  BY <1>7, ServeInnerKeeps
<1>8. CASE DropInner
  BY <1>8, DropInnerKeeps
<1>9. CASE TakeInner
  BY <1>9, TakeInnerKeeps
<1>10. CASE Resume
  BY <1>10, ResumeKeeps
<1>11. CASE UNCHANGED vars
  BY <1>11, NothingHappens
<1> QED
  BY <1>1, <1>2, <1>3, <1>4, <1>5, <1>6, <1>7, <1>8, <1>9, <1>10, <1>11 DEF Next

LEMMA DataHolds == Spec => []DataInv
<1> QED
  BY InitData, StepKeepsData, PTL DEF Spec

\* Every value is of the type of what holds it, and neither a caller nor a callee writes
\* outside the argument space: for functions of any signature and size of types, calling
\* functions of any signature (call_internal of orchestrator.h, invoke_function of
\* jit_x86_64.cpp).
THEOREM TypeCorrect == Spec => []TypeOK
<1> QED
  BY DataHolds, DataTypes, PTL

\* Wherever the program determines a value, the compiled code has it: in its variables,
\* in the branches it takes, in what it gets back from those it calls, and at its caller,
\* who takes it from the bottom of the argument space (jit_x86_64.cpp).
THEOREM ValuesMean == Spec => []MeansWhatItSays
<1>1. DataInv => MeansWhatItSays
  BY DEF DataInv
<1> QED
  BY <1>1, DataHolds, PTL

\* Of a call that passes no argument after an object, a callee of any kind finds the
\* arguments that were passed, wherever it computes them to be (create_frame_report,
\* NativeTrampoline::pass_arg).
THEOREM ArgumentsAreFound == Spec => []ArgumentsArrive
<1>1. DataInv => ArgumentsArrive
  <2> SUFFICES ASSUME DataInv, inner.step \in {"drop", "done"}, PassesRight(inner),
                      NEW j \in DOMAIN inner.values, inner.values[j].meant # Unset
               PROVE  invocation.received[j] = inner.values[j].meant
    BY DEF ArgumentsArrive
  <2>1. inner # none /\ IsCall(inner) /\ InvocationInv
    BY DEF DataInv, InnerInv, CallInv, none
  <2>2. invocation.received[j] = inner.values[j].given
    BY <2>1 DEF InvocationInv
  <2>3. inner.values[j].meant \in {Unset, inner.values[j].given}
    BY <2>1 DEF IsCall
  <2> QED
    BY <2>2, <2>3
<1> QED
  BY <1>1, DataHolds, PTL

\* Of a call that is passed and cleaned up right, the destructor of every object that was
\* made in its space is called once, with the address the object was made at, and no
\* destructor is called for anything else; a native caller calls it while the object is
\* still there (destruct_argument of orchestrator.h, the second loop of invoke_function).
THEOREM ObjectsAreBalanced == Spec => []ObjectsBalanced
<1>1. ASSUME NEW c, CallInv(c), PassesRight(c), CleansUpRight(c)
      PROVE  ~ c.astray /\ (c.caller = "native" => ~ c.spoiled) /\ (c.step = "done" => c.alive = {})
  <2>1. Right(c)
    BY <1>1 DEF Right
  <2>2. c.step \in {"pass", "callee", "take", "drop", "done"}
    BY <1>1 DEF CallInv
  <2>3. CASE c.step \in {"pass", "callee"}
    BY <1>1, <2>3 DEF CallInv, Passed
  <2>4. CASE c.step = "take"
    BY <1>1, <2>4 DEF CallInv, ToTake
  <2>5. CASE c.step = "drop"
    BY <1>1, <2>1, <2>5 DEF CallInv, ToDropUp, ToDropDown
  <2>6. CASE c.step = "done"
    BY <1>1, <2>1, <2>6 DEF CallInv
  <2> QED
    BY <2>2, <2>3, <2>4, <2>5, <2>6
<1>2. DataInv => ObjectsBalanced
  <2> SUFFICES ASSUME DataInv, NEW c \in {outer, inner} \ {none}, PassesRight(c), CleansUpRight(c)
               PROVE  /\ ~ c.astray
                      /\ c.caller = "native" => ~ c.spoiled
                      /\ c.step = "done" => c.alive = {}
    BY DEF ObjectsBalanced
  <2>1. CallInv(c)
    BY DEF DataInv, OuterInv, InnerInv
  <2> QED
    BY <1>1, <2>1
<1> QED
  BY <1>2, DataHolds, PTL
=============================================================================
