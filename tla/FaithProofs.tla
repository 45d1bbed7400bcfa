---------------------------- MODULE FaithProofs ----------------------------
(***************************************************************************)
(* The code does what the function means, for every Regular function and   *)
(* all outcomes of its conditions.                                         *)
(*                                                                         *)
(* The meaning of a function is given by recursion over its places and the *)
(* outcomes that are still to come, so first it is shown to exist.  Cut    *)
(* into what happens from one place of the function to the end of it it    *)
(* becomes a Plan, and go says how the function goes on when a scope is    *)
(* left.  A Trail gives each instruction of the code the plan that is to   *)
(* be done there, as a function of the outcomes: a call works off its      *)
(* first event, the evaluation of a condition splits it, a label has the   *)
(* plan of the place it stands for, and what jumps to the label has to     *)
(* have the same one.  The compiler extends the trail step by step up to   *)
(* what it has still to emit (FaithCompile), and running the code, what    *)
(* has been done and what is to be done together are what the function     *)
(* does (FaithExecute).                                                    *)
(***************************************************************************)
EXTENDS CompilerProofs

-----------------------------------------------------------------------------
(* What is destroyed.                                                      *)

Destruction == {"destruct"} \X (Nat \X Nat)

\* What a function destroys at the end of a scope, or on the way out of it, are the variables
\* it has constructed; the code destroys what is declared.
LEMMA DestroyedIs ==
  ASSUME BuilderType, NEW s \in DOMAIN scopes, NEW n \in Nat
  PROVE  /\ Destroyed(s, n) \in Seq(Destruction)
         /\ (\A v \in DOMAIN instructions(s) :
               instructions(s)[v].op = "declare" /\ v <= n => Constructed(s, n, v))
              => Destroyed(s, n) = Destructors(s, n)
         /\ Variables(s, n) = <<>> => Destroyed(s, n) = <<>>
<1> DEFINE ins == instructions(s)
           of(k) == << <<s, k>> >>
           gone(k) == << <<"destruct", <<s, k>>>> >>
           list == [k \in DOMAIN ins |-> IF ins[k].op = "declare" /\ k <= n THEN of(k) ELSE <<>>]
           dead == [k \in DOMAIN ins |->
                      IF ins[k].op = "declare" /\ k <= n /\ Constructed(s, n, k) THEN gone(k) ELSE <<>>]
           S == Nat \X Nat
           h == [x \in S |-> <<"destruct", x>>]
<1>1. /\ s \in Nat /\ DOMAIN ins = 1 .. Len(ins)
      /\ Len(ins) \in Nat /\ \A k \in DOMAIN ins : k \in Nat
  BY ScopeTyped DEF BuilderType
<1>2. ASSUME NEW k \in DOMAIN ins
      PROVE  /\ of(k) \in Seq(S) /\ gone(k) \in Seq(Destruction)
             /\ Along(h, of(k)) = gone(k)
  <2>1. <<s, k>> \in S
    BY <1>1
  <2>2. PICK x \in S : x = <<s, k>>
    BY <2>1
  <2>3. h[x] = <<"destruct", x>> /\ <<"destruct", x>> \in Destruction
    BY DEF Destruction
  <2> HIDE DEF S, h
  <2>4. of(k) = <<x>> /\ gone(k) = <<h[x]>>
    BY <2>2, <2>3
  <2>5. <<x>> \in Seq(S) /\ DOMAIN <<x>> = {1} /\ <<x>>[1] = x
    OBVIOUS
  <2>6. <<h[x]>> \in Seq(Destruction)
    <3>1. PICK y \in Destruction : y = h[x]
      BY <2>3
    <3> HIDE DEF Destruction
    <3>2. <<y>> \in Seq(Destruction)
      OBVIOUS
    <3> QED
      BY <3>1, <3>2
  <2>7. Along(h, <<x>>) = <<h[x]>>
    <3>1. Along(h, <<x>>) = [m \in {1} |-> h[<<x>>[m]]]
      BY <2>5, Zenon DEF Along
    <3>2. Along(h, <<x>>) = [m \in 1 .. 1 |-> h[x]]
      BY <2>5, <3>1
    <3> QED
      BY <3>2
  <2> QED
    BY <2>4, <2>5, <2>6, <2>7, Zenon
<1>3. \A k \in DOMAIN ins : list[k] \in Seq(S) /\ dead[k] \in Seq(Destruction)
  <2>1. \A T : <<>> \in Seq(T)
    OBVIOUS
  <2> HIDE DEF of, gone, S, Destruction, h
  <2> QED
    BY <1>2, <2>1
<1>4. /\ list \in Seq(Seq(S)) /\ dead \in Seq(Seq(Destruction))
      /\ DOMAIN list = DOMAIN ins /\ Len(list) = Len(ins) /\ Len(dead) = Len(ins)
      /\ DOMAIN dead = DOMAIN ins
  <2>1. PICK N \in Nat : N = Len(ins) /\ DOMAIN ins = 1 .. N
    BY <1>1
  <2>2. PICK X, Y : X = Seq(S) /\ Y = Seq(Destruction)
    OBVIOUS
  <2>3. /\ list \in [1 .. N -> X] /\ dead \in [1 .. N -> Y]
    BY <1>3, <2>1, <2>2
  <2> HIDE DEF list, dead, S, ins, Destruction
  <2>4. list \in Seq(X) /\ Len(list) = N /\ DOMAIN list = 1 .. N
    BY <2>3
  <2>5. dead \in Seq(Y) /\ Len(dead) = N /\ DOMAIN dead = 1 .. N
    BY <2>3
  <2> QED
    BY <2>1, <2>2, <2>4, <2>5
<1>5. Variables(s, n) = FlattenSeq(list) /\ Destroyed(s, n) = FlattenSeq(dead)
  BY DEF Variables, Destroyed
<1>6. Destroyed(s, n) \in Seq(Destruction)
  <2>1. PICK T : T = Destruction
    OBVIOUS
  <2>2. dead \in Seq(Seq(T))
    BY <1>4, <2>1
  <2> HIDE DEF dead
  <2>3. FlattenSeq(dead) \in Seq(T)
    BY <2>2, Flattened
  <2> QED
    BY <1>5, <2>1, <2>3
<1>7. Destructors(s, n) = Along(h, FlattenSeq(list))
  <2>1. Variables(s, n) \in Seq(S)
    BY VariablesAre
  <2>2. \A k \in DOMAIN Variables(s, n) : Variables(s, n)[k] \in S
    <3> HIDE DEF S
    <3> QED
      BY <2>1
  <2>3. \A x \in S : h[x] = <<"destruct", x>>
    OBVIOUS
  <2> HIDE DEF S, h, list
  <2>4. Destructors(s, n) = Along(h, Variables(s, n))
    BY <2>2, <2>3 DEF Destructors, Along
  <2> QED
    BY <1>5, <2>4
<1>8. ASSUME \A v \in DOMAIN ins : ins[v].op = "declare" /\ v <= n => Constructed(s, n, v)
      PROVE  Destroyed(s, n) = Destructors(s, n)
  <2>1. ASSUME NEW k \in DOMAIN list PROVE dead[k] = Along(h, list[k])
    <3>1. CASE ins[k].op = "declare" /\ k <= n
      <4>1. Constructed(s, n, k)
        BY <1>8, <3>1
      <4>2. list[k] = of(k) /\ dead[k] = gone(k) /\ Along(h, of(k)) = gone(k)
        <5> HIDE DEF of, gone, h
        <5> QED
          BY <1>2, <3>1, <4>1
      <4> HIDE DEF of, gone, h, list, dead
      <4> QED
        BY <4>2
    <3>2. CASE ~ (ins[k].op = "declare" /\ k <= n)
      <4>1. list[k] = <<>> /\ dead[k] = <<>>
        BY <3>2
      <4> HIDE DEF h, list, dead
      <4>2. Along(h, <<>>) = <<>>
        BY DEF Along
      <4> QED
        BY <4>1, <4>2
    <3> QED
      BY <3>1, <3>2
  <2>2. dead = [k \in DOMAIN list |-> Along(h, list[k])]
    <3>1. DOMAIN dead = DOMAIN list
      OBVIOUS
    <3>2. dead = [k \in DOMAIN dead |-> dead[k]]
      OBVIOUS
    <3> HIDE DEF list, dead, h
    <3> QED
      BY <2>1, <3>1, <3>2
  <2> HIDE DEF list, dead, h, S
  <2>3. PICK U, H : U = S /\ H = h
    OBVIOUS
  <2>4. PICK L \in Seq(Seq(U)) : L = list
    BY <1>4, <2>3
  <2>5. FlattenSeq([k \in DOMAIN L |-> Along(H, L[k])]) = Along(H, FlattenSeq(L))
    BY FlatAlong
  <2> QED
    BY <1>5, <1>7, <2>2, <2>3, <2>4, <2>5
<1>9. ASSUME Variables(s, n) = <<>> PROVE Destroyed(s, n) = <<>>
  <2>1. ToSet(Variables(s, n)) = Declared(s, n)
    BY VariablesAre
  <2>2. Declared(s, n) = {}
    BY <1>9, <2>1 DEF ToSet
  <2>3. \A v \in DOMAIN ins : ~ (ins[v].op = "declare" /\ v <= n)
    BY <2>2 DEF Declared
  <2>4. Destroyed(s, n) = Destructors(s, n)
    BY <1>8, <2>3
  <2>5. Destructors(s, n) = <<>>
    <3>1. DOMAIN Variables(s, n) = {}
      BY <1>9
    <3>2. Destructors(s, n) \in Seq({"destruct"} \X (Nat \X Nat)) /\ DOMAIN Destructors(s, n) = {}
      BY <3>1, DestructorsAre DEF Destructors
    <3> QED
      BY <3>2
  <2> QED
    BY <2>4, <2>5
<1> HIDE DEF list, dead, S, h, of, gone
<1> QED
  BY <1>6, <1>8, <1>9

\* Of a scope that constructs what it declares at once, at an instruction that may leave it
\* or enter another, the two are the same.
LEMMA DestroyedAtOnce ==
  ASSUME BuilderType, NEW s \in DOMAIN scopes, ConstructedAtOnce(s), NEW n \in Nat,
         \/ n = Len(instructions(s))
         \/ n \in DOMAIN instructions(s) /\ instructions(s)[n].op \notin {"declare", "construct"}
  PROVE  Destroyed(s, n) = Destructors(s, n)
<1>0. PICK ins : ins = instructions(s)
  OBVIOUS
<1>1. DOMAIN ins = 1 .. Len(ins) /\ Len(ins) \in Nat /\ \A k \in DOMAIN ins : k \in Nat
  BY <1>0, ScopeTyped DEF BuilderType
<1>2. ASSUME NEW v \in DOMAIN ins, ins[v].op = "declare", v <= n PROVE Constructed(s, n, v)
  <2>1. PICK j \in v + 1 .. Len(ins) :
          /\ ins[j] = [op |-> "construct", arg |-> v]
          /\ \A l \in v .. j : ins[l].op \in {"declare", "construct"}
    BY <1>0, <1>2 DEF ConstructedAtOnce
  <2>2. j \in DOMAIN ins
    BY <1>1, <2>1
  <2>3. j <= n
    <3>1. n = Len(ins) => j <= n
      BY <1>0, <1>1, <2>1
    <3>2. ~ (j <= n) => n \in v .. j
      BY <1>1, <1>2, <2>1
    <3> QED
      BY <1>0, <2>1, <3>1, <3>2
  <2> QED
    BY <1>0, <2>1, <2>2, <2>3 DEF Constructed
<1> QED
  BY <1>0, <1>2, DestroyedIs

\* An else changes nothing of that.
LEMMA DestroyedAtElse ==
  ASSUME BuilderType, NEW s \in DOMAIN scopes, NEW n \in Nat,
         n + 1 \in DOMAIN instructions(s), instructions(s)[n + 1].op = "else"
  PROVE  Destroyed(s, n + 1) = Destroyed(s, n)
<1> DEFINE ins == instructions(s)
<1>1. \A k \in DOMAIN ins : k \in Nat
  BY ScopeTyped DEF BuilderType
<1>2. \A k \in DOMAIN ins : ins[k].op \in {"declare", "construct"} => (k <= n + 1 <=> k <= n)
  BY <1>1
<1>3. \A k \in DOMAIN ins : ins[k].op = "declare" =>
        (Constructed(s, n + 1, k) <=> Constructed(s, n, k))
  <2>1. \A k : [op |-> "construct", arg |-> k].op = "construct"
    OBVIOUS
  <2> QED
    BY <1>2, <2>1 DEF Constructed
<1>4. \A k \in DOMAIN ins :
        ins[k].op = "declare" /\ k <= n + 1 /\ Constructed(s, n + 1, k)
          <=> ins[k].op = "declare" /\ k <= n /\ Constructed(s, n, k)
  BY <1>2, <1>3
<1> QED
  BY <1>4, Zenon DEF Destroyed

-----------------------------------------------------------------------------
(* The meaning of a function exists.                                       *)

\* Of two digits the first decides.
LEMMA ProductLess ==
  ASSUME NEW x \in Nat, NEW y \in Nat, NEW w \in Nat, NEW a \in Nat, NEW b \in Nat,
         x < y, a < w
  PROVE  x * w + a < y * w + b /\ x * w \in Nat /\ x * w + w <= y * w
<1>1. PICK z \in Nat : y = (x + 1) + z
  <2>1. y - (x + 1) \in Nat /\ y = (x + 1) + (y - (x + 1))
    OBVIOUS
  <2> QED
    BY <2>1
<1>2. y * w = x * w + w + z * w
  BY <1>1
<1>3. z * w \in Nat /\ x * w \in Nat /\ y * w \in Nat
  OBVIOUS
<1> QED
  BY <1>2, <1>3

\* What comes later has fewer decisions, or lies further on or deeper in the tree.
Shrinks(size) ==
  \A s \in DOMAIN scopes : \A k \in DOMAIN instructions(s) : \A d \in Seq(BOOLEAN) :
    /\ \A e \in Seq(BOOLEAN) : Len(e) <= Len(d) => size[<<s, k + 1, e>>] < size[<<s, k, d>>]
    /\ \A c \in DOMAIN scopes, e \in Seq(BOOLEAN) :
         s < c /\ Len(e) <= Len(d) => size[<<c, 1, e>>] < size[<<s, k, d>>]
    /\ \A c \in DOMAIN scopes, n \in Nat \ {0}, e \in Seq(BOOLEAN) :
         Len(e) < Len(d) => size[<<c, n, e>>] < size[<<s, k, d>>]

\* Places of a program can be ordered so that what comes after one, or inside it, is smaller.
LEMMA PointsShrink ==
  ASSUME BuilderType
  PROVE  \E size \in [Points -> Nat] : Shrinks(size)
<1>1. PICK N \in Nat : N = Len(scopes) /\ DOMAIN scopes = 1 .. N
  BY DEF BuilderType
<1>2. PICK B \in Nat : \A s \in DOMAIN scopes : Len(instructions(s)) < B
  <2> DEFINE f == [s \in 1 .. N |-> Len(instructions(s))]
  <2>1. f \in [1 .. N -> Nat]
    BY <1>1, ScopeTyped DEF BuilderType
  <2>2. PICK b \in Nat : \A s \in 1 .. N : f[s] <= b
    BY <2>1, Bounded
  <2>3. b + 1 \in Nat /\ \A s \in DOMAIN scopes : Len(instructions(s)) < b + 1
    BY <1>1, <2>1, <2>2
  <2> QED
    BY <2>3
<1> DEFINE Place(s, k) == IF k > B THEN 0 ELSE (N - s) * B + (B - k)
           W == N * B
           size == [p \in Points |-> Len(p[3]) * W + Place(p[1], p[2])]
<1>3. W \in Nat
  OBVIOUS
<1>4. ASSUME NEW s \in DOMAIN scopes, NEW k \in Nat \ {0}
      PROVE  Place(s, k) \in Nat /\ (N - s) * B \in Nat /\ (0 < B => Place(s, k) < W)
  <2>1. N - s \in Nat /\ N - s < N
    BY <1>1
  <2>2. PICK x \in Nat : x = N - s
    BY <2>1
  <2>3. x * B \in Nat
    OBVIOUS
  <2>4. CASE k > B
    <3>1. 0 < B => x * B + 0 < N * B + 0
      BY <2>1, <2>2, ProductLess
    <3> QED
      BY <2>2, <2>3, <2>4, <3>1
  <2>5. CASE k <= B
    <3>1. PICK y \in Nat : y = B - k /\ y < B
      <4>1. B - k \in Nat /\ B - k < B
        BY <2>5
      <4> QED
        BY <4>1
    <3>2. x * B + y < N * B + 0
      BY <2>1, <2>2, <3>1, ProductLess
    <3> QED
      BY <2>2, <2>3, <2>5, <3>1, <3>2
  <2> QED
    BY <2>4, <2>5
<1>5. ASSUME NEW s \in DOMAIN scopes, NEW k \in Nat \ {0}, NEW d \in Seq(BOOLEAN)
      PROVE  /\ <<s, k, d>> \in Points /\ size[<<s, k, d>>] = Len(d) * W + Place(s, k)
             /\ Len(d) \in Nat /\ Len(d) * W \in Nat
  <2>1. <<s, k, d>> \in Points
    BY DEF Points
  <2>2. Len(d) \in Nat
    OBVIOUS
  <2> HIDE DEF Place, W
  <2> QED
    BY <1>3, <2>1, <2>2
<1>6. size \in [Points -> Nat]
  <2> SUFFICES ASSUME NEW p \in Points PROVE Len(p[3]) * W + Place(p[1], p[2]) \in Nat
    OBVIOUS
  <2>1. /\ p[1] \in DOMAIN scopes /\ p[2] \in Nat \ {0} /\ p[3] \in Seq(BOOLEAN)
    BY DEF Points
  <2>2. Len(p[3]) * W \in Nat /\ Place(p[1], p[2]) \in Nat
    <3> HIDE DEF Place, W, size
    <3> QED
      BY <1>4, <1>5, <2>1
  <2> HIDE DEF Place, W
  <2> QED
    BY <2>2
<1>7. ASSUME NEW s \in DOMAIN scopes, NEW k \in DOMAIN instructions(s)
      PROVE  /\ k \in Nat \ {0} /\ k + 1 \in Nat \ {0} /\ k < B /\ k + 1 <= B /\ 0 < B
             /\ Place(s, k) = (N - s) * B + (B - k) /\ Place(s, k) \in Nat
             /\ Place(s, k + 1) < Place(s, k)
             /\ \A c \in DOMAIN scopes : s < c => Place(c, 1) < Place(s, k)
  <2>1. k \in Nat \ {0} /\ k <= Len(instructions(s)) /\ Len(instructions(s)) < B
        /\ Len(instructions(s)) \in Nat
    BY <1>2, ScopeTyped DEF BuilderType
  <2>2. k < B /\ k + 1 <= B /\ 0 < B /\ k + 1 \in Nat \ {0} /\ 1 <= B
    BY <2>1
  <2>3. (N - s) * B \in Nat
    BY <1>4, <2>1
  <2>4. Place(s, k) = (N - s) * B + (B - k)
    BY <2>1, <2>2
  <2>5. Place(s, k + 1) = (N - s) * B + (B - (k + 1))
    BY <2>1, <2>2
  <2>6. B - (k + 1) < B - k /\ B - k \in Nat /\ B - (k + 1) \in Nat
    BY <2>1, <2>2
  <2>7. ASSUME NEW c \in DOMAIN scopes, s < c PROVE Place(c, 1) < Place(s, k)
    <3>1. PICK x \in Nat, y \in Nat : x = N - c /\ y = N - s /\ x < y
      <4>1. N - c \in Nat /\ N - s \in Nat /\ N - c < N - s
        BY <1>1, <2>7
      <4> QED
        BY <4>1
    <3>2. PICK a \in Nat, b \in Nat : a = B - 1 /\ b = B - k /\ a < B
      <4>1. B - 1 \in Nat /\ B - 1 < B /\ B - k \in Nat
        BY <2>1, <2>2
      <4> QED
        BY <4>1
    <3>3. x * B + a < y * B + b
      BY <3>1, <3>2, ProductLess
    <3>4. Place(c, 1) = (N - c) * B + (B - 1)
      BY <2>2
    <3> HIDE DEF Place
    <3> QED
      BY <2>4, <3>1, <3>2, <3>3, <3>4
  <2>8. Place(s, k + 1) < Place(s, k) /\ Place(s, k) \in Nat
    <3>1. PICK x \in Nat : x = (N - s) * B
      BY <2>3
    <3> HIDE DEF Place
    <3> QED
      BY <2>4, <2>5, <2>6, <3>1
  <2> HIDE DEF Place
  <2> QED
    BY <2>1, <2>2, <2>4, <2>7, <2>8
<1> HIDE DEF Place, size
<1>8. ASSUME NEW s \in DOMAIN scopes, NEW k \in DOMAIN instructions(s), NEW d \in Seq(BOOLEAN),
             NEW c \in DOMAIN scopes, NEW n \in Nat \ {0}, NEW e \in Seq(BOOLEAN),
             Len(e) < Len(d) \/ (Len(e) <= Len(d) /\ Place(c, n) < Place(s, k))
      PROVE  size[<<c, n, e>>] < size[<<s, k, d>>]
  <2>1. /\ size[<<c, n, e>>] = Len(e) * W + Place(c, n) /\ size[<<s, k, d>>] = Len(d) * W + Place(s, k)
        /\ Len(e) * W \in Nat /\ Place(c, n) \in Nat /\ Place(s, k) \in Nat
        /\ k \in Nat \ {0} /\ 0 < B
    BY <1>4, <1>5, <1>7
  <2>2. PICK x \in Nat, y \in Nat, a \in Nat, b \in Nat :
          x = Len(e) /\ y = Len(d) /\ a = Place(c, n) /\ b = Place(s, k)
    BY <2>1
  <2>3. a < W
    BY <1>4, <2>1, <2>2
  <2>4. CASE x < y
    <3>1. x * W + a < y * W + b
      BY <1>3, <2>3, <2>4, ProductLess
    <3> QED
      BY <2>1, <2>2, <3>1
  <2>5. CASE x = y /\ a < b
    BY <2>1, <2>2, <2>5
  <2> QED
    BY <1>8, <2>2, <2>4, <2>5
<1> HIDE DEF W
<1>9. Shrinks(size)
  <2> SUFFICES ASSUME NEW s \in DOMAIN scopes, NEW k \in DOMAIN instructions(s), NEW d \in Seq(BOOLEAN)
               PROVE  /\ \A e \in Seq(BOOLEAN) : Len(e) <= Len(d) => size[<<s, k + 1, e>>] < size[<<s, k, d>>]
                      /\ \A c \in DOMAIN scopes, e \in Seq(BOOLEAN) :
                           s < c /\ Len(e) <= Len(d) => size[<<c, 1, e>>] < size[<<s, k, d>>]
                      /\ \A c \in DOMAIN scopes, n \in Nat \ {0}, e \in Seq(BOOLEAN) :
                           Len(e) < Len(d) => size[<<c, n, e>>] < size[<<s, k, d>>]
    BY DEF Shrinks
  <2>1. k + 1 \in Nat \ {0} /\ 1 \in Nat \ {0} /\ Place(s, k + 1) < Place(s, k)
    BY <1>7
  <2>2. \A e \in Seq(BOOLEAN) : Len(e) <= Len(d) => size[<<s, k + 1, e>>] < size[<<s, k, d>>]
    BY <1>8, <2>1
  <2>3. \A c \in DOMAIN scopes, e \in Seq(BOOLEAN) :
          s < c /\ Len(e) <= Len(d) => size[<<c, 1, e>>] < size[<<s, k, d>>]
    BY <1>7, <1>8, <2>1
  <2>4. \A c \in DOMAIN scopes, n \in Nat \ {0}, e \in Seq(BOOLEAN) :
          Len(e) < Len(d) => size[<<c, n, e>>] < size[<<s, k, d>>]
    BY <1>8
  <2> QED
    BY <2>2, <2>3, <2>4
<1> QED
  BY <1>6, <1>9

\* How a run of part of the function may go, with no more decisions left than n.
Courses == [events : Seq(Event), left : Seq(BOOLEAN), out : {"next", "break", "return", "cut"}]
CoursesOf(n) == { r \in Courses : Len(r.left) <= n }

\* A course is its events, the decisions it leaves and how it ends.
LEMMA RunIs ==
  ASSUME NEW events \in Seq(Event), NEW left \in Seq(BOOLEAN),
         NEW out \in {"next", "break", "return", "cut"}
  PROVE  /\ Run(events, left, out) \in Courses /\ Run(events, left, out) \in CoursesOf(Len(left))
         /\ Run(events, left, out).events = events
         /\ Run(events, left, out).left = left /\ Run(events, left, out).out = out
<1>1. Len(left) <= Len(left)
  OBVIOUS
<1> HIDE DEF Event
<1> QED
  BY <1>1 DEF Run, Courses, CoursesOf

\* Events in front of a course: they add up, and change nothing else of it.
LEMMA BeforeIs ==
  ASSUME NEW events \in Seq(Event), NEW r \in Courses
  PROVE  /\ Before(events, r) \in Courses
         /\ Before(events, r).events = events \o r.events
         /\ Before(events, r).left = r.left /\ Before(events, r).out = r.out
         /\ Before(<<>>, r) = r
         /\ \A more \in Seq(Event) : Before(more, Before(events, r)) = Before(more \o events, r)
         /\ \A n : r \in CoursesOf(n) => Before(events, r) \in CoursesOf(n)
<1> PICK E : E = Event
  OBVIOUS
<1>1. PICK a \in Seq(E), l \in Seq(BOOLEAN), o \in {"next", "break", "return", "cut"} :
        r = [events |-> a, left |-> l, out |-> o]
  BY DEF Courses
<1>2. ASSUME NEW x, NEW y
      PROVE  Before(x, [events |-> y, left |-> l, out |-> o]) = [events |-> x \o y, left |-> l, out |-> o]
  <2>1. PICK q : q = [events |-> y, left |-> l, out |-> o]
    OBVIOUS
  <2>2. PICK z : z = x \o q.events
    OBVIOUS
  <2>3. Before(x, q) = [q EXCEPT !.events = z]
    BY <2>2 DEF Before
  <2>4. z = x \o y
    BY <2>1, <2>2
  <2> QED
    BY <2>1, <2>3, <2>4
<1>3. /\ Before(events, r) = [events |-> events \o a, left |-> l, out |-> o]
      /\ Before(<<>>, r) = [events |-> <<>> \o a, left |-> l, out |-> o]
  BY <1>1, <1>2
<1>4. <<>> \o a = a /\ events \o a \in Seq(E)
  OBVIOUS
<1>5. Before(events, r) \in Courses
  <2>1. PICK z \in Seq(E) : z = events \o a
    BY <1>4
  <2> QED
    BY <1>3, <2>1 DEF Courses
<1>6. ASSUME NEW more \in Seq(E) PROVE Before(more, Before(events, r)) = Before(more \o events, r)
  <2>1. more \o (events \o a) = (more \o events) \o a
    OBVIOUS
  <2>2. Before(more, Before(events, r)) = [events |-> more \o (events \o a), left |-> l, out |-> o]
    BY <1>2, <1>3
  <2>3. Before(more \o events, r) = [events |-> (more \o events) \o a, left |-> l, out |-> o]
    BY <1>1, <1>2
  <2> QED
    BY <2>1, <2>2, <2>3
<1>7. /\ r.events = a /\ r.left = l /\ r.out = o
      /\ Before(events, r).events = events \o a
      /\ Before(events, r).left = l /\ Before(events, r).out = o
  BY <1>1, <1>3
<1>8. \A n : r \in CoursesOf(n) => Before(events, r) \in CoursesOf(n)
  BY <1>5, <1>7 DEF CoursesOf
<1>9. Before(<<>>, r) = r
  BY <1>1, <1>3, <1>4
<1> QED
  BY <1>5, <1>6, <1>7, <1>8, <1>9

\* Destructions, tests and constructions are events.
LEMMA DestructionsHappen ==
  /\ Seq(Destruction) \subseteq Seq(Event)
  /\ \A s \in Nat : << <<"eval", s>> >> \in Seq(Event)
  /\ \A s \in Nat, v \in Nat : << <<"construct", <<s, v>>>> >> \in Seq(Event)
  /\ <<>> \in Seq(Event)
<1> PICK E : E = Event
  OBVIOUS
<1>1. Destruction \subseteq E
  BY DEF Destruction, Event
<1>2. Seq(Destruction) \subseteq Seq(E)
  <2> HIDE DEF Destruction, Event
  <2> QED
    BY <1>1
<1>3. ASSUME NEW x \in E PROVE <<x>> \in Seq(E)
  OBVIOUS
<1>4. \A s \in Nat : <<"eval", s>> \in E
  BY DEF Event
<1>5. \A s \in Nat, v \in Nat : <<"construct", <<s, v>>>> \in E
  BY DEF Event
<1>6. <<>> \in Seq(E)
  OBVIOUS
<1>7. \A s \in Nat : << <<"eval", s>> >> \in Seq(E)
  BY <1>3, <1>4
<1>8. \A s \in Nat, v \in Nat : << <<"construct", <<s, v>>>> >> \in Seq(E)
  BY <1>3, <1>5
<1> QED
  BY <1>2, <1>6, <1>7, <1>8

\* An operation of the function, with the instruction it belongs to.
LEMMA InstructionIs ==
  ASSUME BuilderType, TreeInv, NEW s \in DOMAIN scopes, NEW k \in DOMAIN instructions(s),
         NEW ins, ins = instructions(s)[k]
  PROVE  /\ ins.op \in {"if", "else", "while", "declare", "construct", "return", "scope", "break"}
         /\ ins.arg \in Nat /\ s \in Nat /\ k \in Nat \ {0} /\ k + 1 \in Nat \ {0}
         /\ k <= Len(instructions(s)) /\ Len(instructions(s)) \in Nat
         /\ DOMAIN instructions(s) = 1 .. Len(instructions(s))
         /\ ins.op \in {"if", "else", "while", "scope"} =>
              /\ ins.arg \in DOMAIN scopes \ {main} /\ s < ins.arg
              /\ scopes[ins.arg].parent_scope = s /\ scopes[ins.arg].opener = k
              /\ opener(ins.arg) = ins
<1>1. /\ ins \in Instruction /\ ins.arg \in Nat /\ k \in Nat \ {0} /\ s \in Nat
      /\ DOMAIN instructions(s) = 1 .. Len(instructions(s)) /\ Len(instructions(s)) \in Nat
  BY ScopeTyped DEF BuilderType
<1>2. ins.op \in {"if", "else", "while", "declare", "construct", "return", "scope", "break"}
  BY <1>1 DEF Instruction, Branch
<1>3. ASSUME ins.op \in {"if", "else", "while", "scope"}
      PROVE  /\ ins.arg \in DOMAIN scopes \ {main} /\ s < ins.arg
             /\ scopes[ins.arg].parent_scope = s /\ scopes[ins.arg].opener = k
             /\ opener(ins.arg) = ins
  <2>1. ins.op \in Opening
    BY <1>3 DEF Opening, Branch
  <2>2. PICK c : c = ins.arg
    OBVIOUS
  <2>3. c \in DOMAIN scopes \ {main} /\ scopes[c].parent_scope = s /\ scopes[c].opener = k
    BY <2>1, <2>2 DEF TreeInv, ChildInv
  <2>4. s < c
    BY <2>3 DEF TreeInv, ParentInv
  <2>5. opener(c) = ins
    BY <2>3 DEF opener
  <2> QED
    BY <2>2, <2>3, <2>4, <2>5
<1> QED
  BY <1>1, <1>2, <1>3

\* A sequence is its first element and a shorter rest.
LEMMA TailIs ==
  ASSUME NEW S, NEW q \in Seq(S), q # <<>>
  PROVE  /\ Tail(q) \in Seq(S) /\ Len(Tail(q)) \in Nat /\ Len(Tail(q)) < Len(q)
         /\ Head(q) \in S /\ <<Head(q)>> \o Tail(q) = q
  OBVIOUS

\* Two meanings agree at a point, and are as they should be.
Agree(m, o, s, k, d) == /\ m[<<s, k, d>>] = o[<<s, k, d>>]
                        /\ m[<<s, k, d>>] \in CoursesOf(Len(d))

\* What a function means at a point needs no more than what it means at those after it.
LEMMA MeantAgrees ==
  ASSUME BuilderType, TreeInv, NEW m, NEW o,
         NEW s \in DOMAIN scopes, NEW k \in DOMAIN instructions(s), NEW d \in Seq(BOOLEAN),
         \A e \in Seq(BOOLEAN) : Len(e) <= Len(d) => Agree(m, o, s, k + 1, e),
         \A c \in DOMAIN scopes, e \in Seq(BOOLEAN) :
           s < c /\ Len(e) <= Len(d) => Agree(m, o, c, 1, e),
         \A c \in DOMAIN scopes, n \in Nat \ {0}, e \in Seq(BOOLEAN) :
           Len(e) < Len(d) => Agree(m, o, c, n, e)
  PROVE  Meant(m, s, k, d) = Meant(o, s, k, d) /\ Meant(m, s, k, d) \in CoursesOf(Len(d))
<1>1. PICK ins : ins = instructions(s)[k]
  OBVIOUS
<1>2. /\ ins.op \in {"if", "else", "while", "declare", "construct", "return", "scope", "break"}
      /\ ins.arg \in Nat /\ s \in Nat /\ k \in Nat \ {0} /\ k + 1 \in Nat \ {0}
      /\ k <= Len(instructions(s)) /\ Len(instructions(s)) \in Nat
      /\ DOMAIN instructions(s) = 1 .. Len(instructions(s))
      /\ ins.op \in {"if", "else", "while", "scope"} =>
           /\ ins.arg \in DOMAIN scopes \ {main} /\ s < ins.arg
           /\ scopes[ins.arg].parent_scope = s /\ scopes[ins.arg].opener = k
           /\ opener(ins.arg) = ins
  BY <1>1, InstructionIs
<1>3. PICK L \in Nat : L = Len(d)
  OBVIOUS
<1>4. \A r : r \in CoursesOf(L) <=> r \in Courses /\ Len(r.left) <= L
  BY DEF CoursesOf
<1>5. \A r \in Courses : r.left \in Seq(BOOLEAN) /\ r.events \in Seq(Event)
                         /\ r.out \in {"next", "break", "return", "cut"} /\ Len(r.left) \in Nat
  <2> HIDE DEF Event
  <2> QED
    BY DEF Courses
<1>6. ASSUME NEW r \in CoursesOf(L)
      PROVE  Then(m, s, k, r) = Then(o, s, k, r) /\ Then(m, s, k, r) \in CoursesOf(L)
  <2>1. r.left \in Seq(BOOLEAN) /\ Len(r.left) <= L /\ r.events \in Seq(Event) /\ Len(r.left) \in Nat
    BY <1>4, <1>5
  <2>2. PICK e \in Seq(BOOLEAN) : e = r.left
    BY <2>1
  <2>3. Agree(m, o, s, k + 1, e)
    BY <1>3, <2>1, <2>2
  <2>4. PICK x : x = m[<<s, k + 1, e>>]
    OBVIOUS
  <2>5. x = o[<<s, k + 1, e>>] /\ x \in Courses /\ Len(x.left) <= Len(e)
    BY <2>3, <2>4 DEF Agree, CoursesOf
  <2>6. x \in CoursesOf(L)
    BY <1>3, <1>4, <1>5, <2>1, <2>2, <2>5
  <2>7. Before(r.events, x) \in CoursesOf(L)
    BY <2>1, <2>5, <2>6, BeforeIs
  <2> QED
    BY <2>2, <2>4, <2>5, <2>7 DEF Then
<1>7. ASSUME NEW r \in CoursesOf(L)
      PROVE  After(m, s, k, r) = After(o, s, k, r) /\ After(m, s, k, r) \in CoursesOf(L)
  <2>1. CASE r.out = "next"
    BY <1>6, <2>1 DEF After
  <2>2. CASE r.out = "cut"
    BY <2>2 DEF After
  <2>3. CASE r.out \notin {"next", "cut"}
    <3> DEFINE x == [r EXCEPT !.events = @ \o Destroyed(s, k)]
    <3>1. After(m, s, k, r) = x /\ After(o, s, k, r) = x
      BY <2>3 DEF After
    <3>2. x \in Courses /\ x.left = r.left
      <4>1. PICK E : E = Event
        OBVIOUS
      <4>2. PICK a \in Seq(E), b \in Seq(E) : a = r.events /\ b = Destroyed(s, k)
        BY <1>2, <1>4, <1>5, <4>1, DestroyedIs, DestructionsHappen
      <4>3. PICK z \in Seq(E) : z = a \o b
        <5>1. a \o b \in Seq(E)
          BY Concatenated
        <5> QED
          BY <5>1
      <4>4. x = Run(z, r.left, r.out)
        <5>1. r = [events |-> r.events, left |-> r.left, out |-> r.out]
          BY <1>4 DEF Courses
        <5>2. x = [r EXCEPT !.events = z]
          BY <4>2, <4>3
        <5> HIDE DEF x
        <5> QED
          BY <1>4, <5>1, <5>2 DEF Courses, Run
      <4>5. PICK z1 \in Seq(Event), left \in Seq(BOOLEAN), out \in {"next", "break", "return", "cut"} :
              z1 = z /\ left = r.left /\ out = r.out
        BY <1>4, <1>5, <4>1
      <4>6. Run(z1, left, out) \in Courses /\ Run(z1, left, out).left = left
        BY RunIs
      <4> HIDE DEF x
      <4> QED
        BY <4>4, <4>5, <4>6
    <3> HIDE DEF x
    <3> QED
      BY <1>4, <3>1, <3>2
  <2> QED
    BY <2>1, <2>2, <2>3
<1>8. ASSUME NEW c \in DOMAIN scopes, NEW b \in DOMAIN scopes, d # <<>>
      PROVE  /\ Inside(m, c, b, d) = Inside(o, c, b, d) /\ Inside(m, c, b, d) \in CoursesOf(L)
             /\ Inside(m, c, b, d).left \in Seq(BOOLEAN) /\ Len(Inside(m, c, b, d).left) < L
             /\ Inside(m, c, b, d) \in Courses
             /\ Tested(c, d) \in CoursesOf(L)
  <2>1. PICK e \in Seq(BOOLEAN) : e = Tail(d) /\ Len(e) < L /\ Len(e) \in Nat
    BY <1>3, <1>8, TailIs
  <2>2. Agree(m, o, b, 1, e)
    <3>1. 1 \in Nat \ {0}
      OBVIOUS
    <3> QED
      BY <1>3, <2>1, <3>1
  <2>3. PICK x : x = m[<<b, 1, e>>]
    OBVIOUS
  <2>4. x = o[<<b, 1, e>>] /\ x \in Courses /\ Len(x.left) <= Len(e)
    BY <2>2, <2>3 DEF Agree, CoursesOf
  <2>5. << <<"eval", c>> >> \in Seq(Event)
    BY ScopeTyped, DestructionsHappen DEF BuilderType
  <2>6. /\ Tested(c, d) = Run(<< <<"eval", c>> >>, e, "next")
        /\ Tested(c, d).events = << <<"eval", c>> >>
        /\ Tested(c, d) \in Courses /\ Tested(c, d).left = e
    <3>1. PICK x1 \in Seq(Event) : x1 = << <<"eval", c>> >>
      BY <2>5
    <3>2. Tested(c, d) = Run(x1, e, "next")
      BY <2>1, <3>1, Zenon DEF Tested
    <3>3. /\ Run(x1, e, "next") \in Courses /\ Run(x1, e, "next").events = x1
          /\ Run(x1, e, "next").left = e
      BY RunIs
    <3> QED
      BY <2>1, <3>1, <3>2, <3>3
  <2>7. PICK y : y = Before(<< <<"eval", c>> >>, x)
    OBVIOUS
  <2>8. y \in Courses /\ y.left = x.left
    BY <2>4, <2>5, <2>7, BeforeIs
  <2>9. Inside(m, c, b, d) = y /\ Inside(o, c, b, d) = y
    BY <2>1, <2>3, <2>4, <2>6, <2>7 DEF Inside
  <2>10. Len(y.left) < L /\ Len(y.left) <= L /\ y.left \in Seq(BOOLEAN) /\ Len(e) <= L
    BY <1>3, <1>5, <2>1, <2>4, <2>8
  <2>11. y \in CoursesOf(L) /\ Tested(c, d) \in CoursesOf(L)
    BY <1>4, <2>6, <2>8, <2>10
  <2> QED
    BY <2>8, <2>9, <2>10, <2>11
<1>9. \A out \in {"next", "break", "return", "cut"} : Run(<<>>, d, out) \in CoursesOf(L)
  BY <1>3, RunIs, DestructionsHappen
<1>10. CASE ins.op \in {"declare", "else"} \/ (ins.op = "break" /\ ~ InLoop(s))
  <2>1. Agree(m, o, s, k + 1, d)
    BY <1>3
  <2>2. Meant(m, s, k, d) = m[<<s, k + 1, d>>] /\ Meant(o, s, k, d) = o[<<s, k + 1, d>>]
    BY <1>1, <1>2, <1>10 DEF Meant
  <2> QED
    BY <2>1, <2>2 DEF Agree
<1>11. CASE ins.op = "construct"
  <2>1. PICK r : r = Run(<< <<"construct", <<s, ins.arg>>>> >>, d, "next")
    OBVIOUS
  <2>2. r \in CoursesOf(L)
    BY <1>2, <1>3, <2>1, RunIs, DestructionsHappen
  <2>3. Meant(m, s, k, d) = Then(m, s, k, r) /\ Meant(o, s, k, d) = Then(o, s, k, r)
    BY <1>1, <1>2, <1>11, <2>1 DEF Meant
  <2> QED
    BY <1>3, <1>6, <2>2, <2>3
<1>12. CASE ins.op = "return"
  <2>1. PICK r : r = Run(<<>>, d, "return")
    OBVIOUS
  <2>2. Meant(m, s, k, d) = After(m, s, k, r) /\ Meant(o, s, k, d) = After(o, s, k, r)
    BY <1>1, <1>2, <1>12, <2>1 DEF Meant
  <2> QED
    BY <1>3, <1>7, <1>9, <2>1, <2>2
<1>13. CASE ins.op = "break" /\ InLoop(s)
  <2>1. PICK r : r = Run(<<>>, d, "break")
    OBVIOUS
  <2>2. Meant(m, s, k, d) = After(m, s, k, r) /\ Meant(o, s, k, d) = After(o, s, k, r)
    BY <1>1, <1>2, <1>13, <2>1 DEF Meant
  <2> QED
    BY <1>3, <1>7, <1>9, <2>1, <2>2
<1>14. CASE ins.op = "scope"
  <2>1. PICK c \in DOMAIN scopes : c = ins.arg /\ s < c
    BY <1>2, <1>14
  <2>2. Agree(m, o, c, 1, d)
    BY <1>3, <2>1
  <2>3. PICK r : r = m[<<c, 1, d>>] /\ r = o[<<c, 1, d>>] /\ r \in CoursesOf(L)
    BY <1>3, <2>2 DEF Agree
  <2>4. Meant(m, s, k, d) = After(m, s, k, r) /\ Meant(o, s, k, d) = After(o, s, k, r)
    BY <1>1, <1>2, <1>14, <2>1, <2>3 DEF Meant
  <2> QED
    BY <1>3, <1>7, <2>3, <2>4
<1>15. CASE ins.op = "if"
  <2>1. PICK c \in DOMAIN scopes : c = ins.arg
    BY <1>2, <1>15
  <2>2. Meant(m, s, k, d) = MeantIf(m, s, k, d) /\ Meant(o, s, k, d) = MeantIf(o, s, k, d)
    BY <1>1, <1>2, <1>15 DEF Meant
  <2>3. CASE d = <<>>
    <3>1. MeantIf(m, s, k, d) = Run(<<>>, d, "cut") /\ MeantIf(o, s, k, d) = Run(<<>>, d, "cut")
      BY <2>3, Zenon DEF MeantIf
    <3> QED
      BY <1>3, <1>9, <2>2, <3>1
  <2>4. CASE d # <<>> /\ Head(d)
    <3>1. /\ MeantIf(m, s, k, d) = After(m, s, k, Inside(m, c, c, d))
          /\ MeantIf(o, s, k, d) = After(o, s, k, Inside(o, c, c, d))
      BY <1>1, <2>1, <2>4, Zenon DEF MeantIf
    <3>2. d # <<>>
      BY <2>4, Zenon
    <3>3. PICK r : r = Inside(m, c, c, d)
      OBVIOUS
    <3>4. r = Inside(o, c, c, d) /\ r \in CoursesOf(L)
      BY <1>8, <3>2, <3>3, Zenon
    <3> QED
      BY <1>3, <1>7, <2>2, <3>1, <3>3, <3>4
  <2>5. CASE d # <<>> /\ ~ Head(d) /\ else_branch(c) = {}
    <3>1. /\ MeantIf(m, s, k, d) = Then(m, s, k, Tested(c, d))
          /\ MeantIf(o, s, k, d) = Then(o, s, k, Tested(c, d))
      BY <1>1, <2>1, <2>5, Zenon DEF MeantIf
    <3>2. d # <<>>
      BY <2>5, Zenon
    <3>3. Tested(c, d) \in CoursesOf(L)
      BY <1>8, <3>2, Zenon
    <3> QED
      BY <1>3, <1>6, <2>2, <3>1, <3>3
  <2>6. CASE d # <<>> /\ ~ Head(d) /\ else_branch(c) # {}
    <3>1. PICK b : b = instructions(s)[k + 1].arg
      OBVIOUS
    <3>2. /\ MeantIf(m, s, k, d) = After(m, s, k, Inside(m, c, b, d))
          /\ MeantIf(o, s, k, d) = After(o, s, k, Inside(o, c, b, d))
      BY <1>1, <2>1, <2>6, <3>1, Zenon DEF MeantIf
    <3>3. b \in DOMAIN scopes
      <4>1. c \in DOMAIN scopes \ {main} /\ scopes[c].parent_scope = s /\ scopes[c].opener = k
        BY <1>2, <1>15, <2>1
      <4>2. k + 1 <= Len(instructions(s)) /\ instructions(s)[k + 1].op = "else"
        <5>1. else_branch(c) = IF k + 1 <= Len(instructions(s)) /\ instructions(s)[k + 1].op = "else"
                               THEN {instructions(s)[k + 1].arg} ELSE {}
          BY <4>1, Zenon DEF else_branch
        <5>2. else_branch(c) # {}
          BY <2>6, Zenon
        <5> QED
          BY <5>1, <5>2
      <4>3. k + 1 \in DOMAIN instructions(s)
        BY <1>2, <4>2
      <4> QED
        BY <3>1, <4>2, <4>3, InstructionIs
    <3>4. d # <<>>
      BY <2>6, Zenon
    <3>5. PICK r : r = Inside(m, c, b, d)
      OBVIOUS
    <3>6. r = Inside(o, c, b, d) /\ r \in CoursesOf(L)
      BY <1>8, <3>3, <3>4, <3>5, Zenon
    <3> QED
      BY <1>3, <1>7, <2>2, <3>2, <3>5, <3>6
  <2> QED
    BY <2>3, <2>4, <2>5, <2>6, Zenon
<1>16. CASE ins.op = "while"
  <2>1. PICK c \in DOMAIN scopes : c = ins.arg
    BY <1>2, <1>16
  <2>2. Meant(m, s, k, d) = MeantWhile(m, s, k, d) /\ Meant(o, s, k, d) = MeantWhile(o, s, k, d)
    BY <1>1, <1>2, <1>16 DEF Meant
  <2>3. CASE d = <<>>
    <3>1. MeantWhile(m, s, k, d) = Run(<<>>, d, "cut") /\ MeantWhile(o, s, k, d) = Run(<<>>, d, "cut")
      BY <2>3, Zenon DEF MeantWhile
    <3> QED
      BY <1>3, <1>9, <2>2, <3>1
  <2>4. CASE d # <<>> /\ ~ Head(d)
    <3>1. /\ MeantWhile(m, s, k, d) = Then(m, s, k, Tested(c, d))
          /\ MeantWhile(o, s, k, d) = Then(o, s, k, Tested(c, d))
      BY <1>1, <2>1, <2>4, Zenon DEF MeantWhile
    <3>2. d # <<>>
      BY <2>4, Zenon
    <3>3. Tested(c, d) \in CoursesOf(L)
      BY <1>8, <3>2, Zenon
    <3> QED
      BY <1>3, <1>6, <2>2, <3>1, <3>3
  <2>5. CASE d # <<>> /\ Head(d)
    <3>1. PICK r : r = Inside(m, c, c, d)
      OBVIOUS
    <3>2. /\ r = Inside(o, c, c, d) /\ r \in CoursesOf(L) /\ r \in Courses
          /\ r.left \in Seq(BOOLEAN) /\ Len(r.left) < L
      <4>1. d # <<>>
        BY <2>5, Zenon
      <4> QED
        BY <1>8, <3>1, <4>1, Zenon
    <3> DEFINE In(f) == CASE r.out = "next" -> Before(r.events, f[<<s, k, r.left>>])
                          [] r.out = "break" -> Then(f, s, k, r)
                          [] OTHER -> After(f, s, k, r)
    <3>3. MeantWhile(m, s, k, d) = In(m) /\ MeantWhile(o, s, k, d) = In(o)
      BY <1>1, <2>1, <2>5, <3>1, <3>2, Zenon DEF MeantWhile
    <3>4. CASE r.out = "next"
      <4>1. Agree(m, o, s, k, r.left)
        BY <1>2, <1>3, <3>2
      <4>2. PICK x : x = m[<<s, k, r.left>>]
        OBVIOUS
      <4>3. x = o[<<s, k, r.left>>] /\ x \in Courses /\ Len(x.left) <= Len(r.left)
        BY <4>1, <4>2 DEF Agree, CoursesOf
      <4>4. x \in CoursesOf(L)
        BY <1>4, <1>5, <3>2, <4>3
      <4>5. Before(r.events, x) \in CoursesOf(L)
        BY <1>5, <3>2, <4>3, <4>4, BeforeIs
      <4>6. In(m) = Before(r.events, x) /\ In(o) = Before(r.events, x)
        BY <3>4, <4>2, <4>3
      <4> HIDE DEF In
      <4> QED
        BY <1>3, <2>2, <3>3, <4>5, <4>6
    <3>5. CASE r.out = "break"
      <4>1. In(m) = Then(m, s, k, r) /\ In(o) = Then(o, s, k, r)
        BY <3>5
      <4> HIDE DEF In
      <4> QED
        BY <1>3, <1>6, <2>2, <3>2, <3>3, <4>1
    <3>6. CASE r.out \notin {"next", "break"}
      <4>1. In(m) = After(m, s, k, r) /\ In(o) = After(o, s, k, r)
        BY <3>6
      <4> HIDE DEF In
      <4> QED
        BY <1>3, <1>7, <2>2, <3>2, <3>3, <4>1
    <3> QED
      BY <3>4, <3>5, <3>6
  <2> QED
    BY <2>3, <2>4, <2>5, Zenon
<1> QED
  BY <1>2, <1>10, <1>11, <1>12, <1>13, <1>14, <1>15, <1>16

\* Past the last instruction of a scope its variables are destroyed.
LEMMA MeantAtEnd ==
  ASSUME BuilderType, NEW m, NEW s \in DOMAIN scopes, NEW k \in Nat \ {0},
         k > Len(instructions(s)), NEW d \in Seq(BOOLEAN)
  PROVE  /\ Meant(m, s, k, d) = Run(Destroyed(s, Len(instructions(s))), d, "next")
         /\ Meant(m, s, k, d) \in CoursesOf(Len(d))
<1>1. Len(instructions(s)) \in Nat
  BY ScopeTyped DEF BuilderType
<1>2. PICK n \in Nat : n = Len(instructions(s))
  BY <1>1
<1>3. Meant(m, s, k, d) = Run(Destroyed(s, n), d, "next")
  <2>1. k > n
    BY <1>2
  <2> QED
    BY <1>2, <2>1, Zenon DEF Meant
<1>4. PICK x \in Seq(Event) : x = Destroyed(s, n)
  BY DestroyedIs, DestructionsHappen
<1>5. Run(x, d, "next") \in CoursesOf(Len(d))
  BY RunIs
<1> QED
  BY <1>2, <1>3, <1>4, <1>5

\* So is what it means at every point, if it is at the smaller ones.
LEMMA MeantSmaller ==
  ASSUME BuilderType, TreeInv, NEW size, Shrinks(size), NEW m, NEW o,
         NEW s \in DOMAIN scopes, NEW k \in Nat \ {0}, NEW d \in Seq(BOOLEAN),
         \A c \in DOMAIN scopes, n \in Nat \ {0}, e \in Seq(BOOLEAN) :
           size[<<c, n, e>>] < size[<<s, k, d>>] => Agree(m, o, c, n, e)
  PROVE  Meant(m, s, k, d) = Meant(o, s, k, d) /\ Meant(m, s, k, d) \in CoursesOf(Len(d))
<1>1. CASE k > Len(instructions(s))
  <2>1. /\ Meant(m, s, k, d) = Run(Destroyed(s, Len(instructions(s))), d, "next")
        /\ Meant(o, s, k, d) = Run(Destroyed(s, Len(instructions(s))), d, "next")
        /\ Meant(m, s, k, d) \in CoursesOf(Len(d))
    BY <1>1, MeantAtEnd
  <2> QED
    BY <2>1
<1>2. CASE ~ (k > Len(instructions(s)))
  <2>1. k \in DOMAIN instructions(s) /\ k + 1 \in Nat \ {0}
    BY <1>2, ScopeTyped DEF BuilderType
  <2>2. \A e \in Seq(BOOLEAN) : Len(e) <= Len(d) => Agree(m, o, s, k + 1, e)
    BY <2>1 DEF Shrinks
  <2>3. \A c \in DOMAIN scopes, e \in Seq(BOOLEAN) :
          s < c /\ Len(e) <= Len(d) => Agree(m, o, c, 1, e)
    <3>1. 1 \in Nat \ {0}
      OBVIOUS
    <3> QED
      BY <2>1, <3>1 DEF Shrinks
  <2>4. \A c \in DOMAIN scopes, n \in Nat \ {0}, e \in Seq(BOOLEAN) :
          Len(e) < Len(d) => Agree(m, o, c, n, e)
    BY <2>1 DEF Shrinks
  <2> QED
    BY <2>1, <2>2, <2>3, <2>4, MeantAgrees
<1> QED
  BY <1>1, <1>2

\* The recursion over the points of a function ends: it means something at each.
LEMMA MeaningIs ==
  ASSUME BuilderType, TreeInv
  PROVE  \A s \in DOMAIN scopes : \A k \in Nat \ {0} : \A d \in Seq(BOOLEAN) :
           /\ meaning[<<s, k, d>>] = Meant(meaning, s, k, d)
           /\ meaning[<<s, k, d>>] \in CoursesOf(Len(d))
           /\ meaning[<<s, k, d>>] \in Courses
<1> DEFINE ok == [p \in Points |-> CoursesOf(Len(p[3]))]
           step == [x \in Points \X [Points -> Courses] |-> Meant(x[2], x[1][1], x[1][2], x[1][3])]
<1>1. PICK size \in [Points -> Nat] : Shrinks(size)
  BY PointsShrink
<1>2. \A p \in Points : ok[p] \subseteq Courses
  BY DEF CoursesOf
<1>3. PICK r0 : r0 \in Courses
  <2>1. PICK x \in Seq(Event), d \in Seq(BOOLEAN) : x = <<>> /\ d = <<>>
    <3>1. \A T : <<>> \in Seq(T)
      OBVIOUS
    <3> QED
      BY <3>1
  <2> QED
    BY RunIs
<1>4. ASSUME NEW p \in Points, NEW f \in [Points -> Courses], NEW g \in [Points -> Courses],
             \A t \in Points : size[t] < size[p] => f[t] = g[t] /\ f[t] \in ok[t]
      PROVE  step[<<p, f>>] = step[<<p, g>>] /\ step[<<p, f>>] \in ok[p]
  <2>1. PICK s \in DOMAIN scopes, k \in Nat \ {0}, d \in Seq(BOOLEAN) : p = <<s, k, d>>
    BY DEF Points
  <2>2. step[<<p, f>>] = Meant(f, s, k, d) /\ step[<<p, g>>] = Meant(g, s, k, d)
    BY <2>1
  <2>3. ok[p] = CoursesOf(Len(d))
    BY <2>1
  <2>4. ASSUME NEW c \in DOMAIN scopes, NEW n \in Nat \ {0}, NEW e \in Seq(BOOLEAN),
               size[<<c, n, e>>] < size[<<s, k, d>>]
        PROVE  Agree(f, g, c, n, e)
    <3>1. PICK t \in Points : t = <<c, n, e>>
      BY DEF Points
    <3>2. f[t] = g[t] /\ f[t] \in ok[t]
      <4>1. size[t] < size[p]
        BY <2>1, <2>4, <3>1
      <4> HIDE DEF ok
      <4> QED
        BY <1>4, <4>1
    <3>3. ok[t] = CoursesOf(Len(e))
      BY <3>1
    <3> HIDE DEF ok
    <3> QED
      BY <3>1, <3>2, <3>3 DEF Agree
  <2>5. Meant(f, s, k, d) = Meant(g, s, k, d) /\ Meant(f, s, k, d) \in CoursesOf(Len(d))
    BY <1>1, <2>4, MeantSmaller
  <2> HIDE DEF step, ok
  <2> QED
    BY <2>2, <2>3, <2>5
<1>5. PICK f \in [Points -> Courses] : \A p \in Points : f[p] = step[<<p, f>>] /\ f[p] \in ok[p]
  <2>1. \A p \in Points : \A f, g \in [Points -> Courses] :
          (\A t \in Points : size[t] < size[p] => f[t] = g[t] /\ f[t] \in ok[t])
            => step[<<p, f>>] = step[<<p, g>>] /\ step[<<p, f>>] \in ok[p]
    <3> HIDE DEF ok, step
    <3> QED
      BY <1>4
  <2>2. PICK S, V, good, by : S = Points /\ V = Courses /\ good = ok /\ by = step
    OBVIOUS
  <2> HIDE DEF ok, step
  <2>3. \E f : Solution(f, S, V, good, by)
    <3>1. r0 \in V /\ size \in [S -> Nat] /\ \A s \in S : good[s] \subseteq V
      BY <1>1, <1>2, <1>3, <2>2
    <3>2. Narrows(S, size, V, good, by)
      BY <2>1, <2>2 DEF Narrows
    <3> QED
      BY <3>1, <3>2, NestedRecursion
  <2> QED
    BY <2>2, <2>3 DEF Solution
<1>6. \A p \in Points : f[p] = Meant(f, p[1], p[2], p[3]) /\ f[p] \in CoursesOf(Len(p[3]))
  <2> SUFFICES ASSUME NEW p \in Points
               PROVE  f[p] = Meant(f, p[1], p[2], p[3]) /\ f[p] \in CoursesOf(Len(p[3]))
    OBVIOUS
  <2>1. step[<<p, f>>] = Meant(f, p[1], p[2], p[3]) /\ ok[p] = CoursesOf(Len(p[3]))
    OBVIOUS
  <2> HIDE DEF step, ok
  <2> QED
    BY <1>5, <2>1
<1>7. f = [p \in Points |-> Meant(f, p[1], p[2], p[3])]
  <2>1. f = [p \in Points |-> f[p]]
    OBVIOUS
  <2> HIDE DEF step, ok
  <2> QED
    BY <1>6, <2>1, Zenon
<1> HIDE DEF step, ok
<1>8. meaning = [p \in Points |-> Meant(meaning, p[1], p[2], p[3])]
  BY <1>7, Zenon DEF meaning
<1>9. ASSUME NEW s \in DOMAIN scopes, NEW k \in Nat \ {0}, NEW d \in Seq(BOOLEAN)
      PROVE  meaning[<<s, k, d>>] = Meant(meaning, s, k, d)
  <2>1. <<s, k, d>> \in Points
    BY DEF Points
  <2>2. PICK p \in Points : p = <<s, k, d>>
    BY <2>1
  <2>3. meaning[p] = Meant(meaning, p[1], p[2], p[3])
    BY <1>8, Zenon
  <2>4. p[1] = s /\ p[2] = k /\ p[3] = d
    BY <2>2
  <2> QED
    BY <2>2, <2>3, <2>4
<1> DEFINE Typed == { n \in Nat : \A s \in DOMAIN scopes, k \in Nat \ {0}, d \in Seq(BOOLEAN) :
                        size[<<s, k, d>>] < n => meaning[<<s, k, d>>] \in CoursesOf(Len(d)) }
<1>10. \A s \in DOMAIN scopes, k \in Nat \ {0}, d \in Seq(BOOLEAN) : size[<<s, k, d>>] \in Nat
  BY DEF Points
<1>11. Nat \subseteq Typed
  <2>1. 0 \in Typed
    BY <1>10
  <2>2. ASSUME NEW n \in Nat, n \in Typed PROVE n + 1 \in Typed
    <3>1. ASSUME NEW s \in DOMAIN scopes, NEW k \in Nat \ {0}, NEW d \in Seq(BOOLEAN),
                 size[<<s, k, d>>] < n + 1
          PROVE  meaning[<<s, k, d>>] \in CoursesOf(Len(d))
      <4>1. ASSUME NEW c \in DOMAIN scopes, NEW m \in Nat \ {0}, NEW e \in Seq(BOOLEAN),
                   size[<<c, m, e>>] < size[<<s, k, d>>]
            PROVE  Agree(meaning, meaning, c, m, e)
        <5>1. size[<<c, m, e>>] < n
          BY <1>10, <3>1, <4>1
        <5> QED
          BY <2>2, <5>1 DEF Agree
      <4>2. Meant(meaning, s, k, d) \in CoursesOf(Len(d))
        BY <1>1, <4>1, MeantSmaller
      <4> QED
        BY <1>9, <4>2
    <3> QED
      BY <3>1
  <2> HIDE DEF Typed
  <2> QED
    BY <2>1, <2>2, Induction
<1>12. ASSUME NEW s \in DOMAIN scopes, NEW k \in Nat \ {0}, NEW d \in Seq(BOOLEAN)
       PROVE  meaning[<<s, k, d>>] \in CoursesOf(Len(d))
  <2>1. PICK n \in Nat : n = size[<<s, k, d>>] + 1 /\ size[<<s, k, d>>] < n
    <3>1. size[<<s, k, d>>] \in Nat
      BY <1>10
    <3> QED
      BY <3>1
  <2>2. n \in Typed
    <3> HIDE DEF Typed
    <3> QED
      BY <1>11
  <2> QED
    BY <2>1, <2>2
<1>13. \A n : CoursesOf(n) \subseteq Courses
  BY DEF CoursesOf
<1> HIDE DEF Typed, CoursesOf, Courses
<1>14. ASSUME NEW s \in DOMAIN scopes, NEW k \in Nat \ {0}, NEW d \in Seq(BOOLEAN)
       PROVE  /\ meaning[<<s, k, d>>] = Meant(meaning, s, k, d)
              /\ meaning[<<s, k, d>>] \in CoursesOf(Len(d))
              /\ meaning[<<s, k, d>>] \in Courses
  BY <1>9, <1>12, <1>13, Zenon
<1> QED
  BY <1>14, Zenon

-----------------------------------------------------------------------------
(* How the function goes on.                                               *)

\* How a run of a scope ends; and when one has: the decisions left, and how.
Outs == {"next", "break", "return", "cut"}
Exits == (DOMAIN scopes) \X Seq(BOOLEAN) \X Outs

\* f tells how the function goes on when a scope has ended in some way: then it does what it
\* does from the end of r, a run of scope s.
Finish(f, s, r) == Before(r.events, f[<<s, r.left, r.out>>])

\* Where the scope around it goes on when s has ended, or has been left by a break.
Resumes(s, out) == IF out = "next" /\ IsLoop(s) THEN scopes[s].opener ELSE scopes[s].opener + 1
\* It goes on there, unless scopes further out are left as well: then what the instruction
\* that opened s leaves behind is destroyed.
Goes(f, s, left, out) ==
  LET p == scopes[s].parent_scope
  IN  IF out = "cut" THEN Run(<<>>, left, "cut")
      ELSE IF s = main THEN Run(<<>>, left, IF out = "return" THEN "next" ELSE out)
      ELSE IF out = "next" \/ (out = "break" /\ IsLoop(s))
           THEN Finish(f, p, meaning[<<p, Resumes(s, out), left>>])
      ELSE Before(Destroyed(p, scopes[s].opener), f[<<p, left, out>>])
GoesOn(f) == /\ f \in [Exits -> Courses]
             /\ \A s \in DOMAIN scopes, left \in Seq(BOOLEAN), out \in Outs :
                  f[<<s, left, out>>] = Goes(f, s, left, out)
go == CHOOSE f : GoesOn(f)

\* A scope below main has a parent that was opened earlier, and an instruction there.
LEMMA ParentIs ==
  ASSUME BuilderType, TreeInv, NEW s \in DOMAIN scopes, s # main
  PROVE  /\ scopes[s].parent_scope \in DOMAIN scopes /\ scopes[s].parent_scope < s
         /\ scopes[s].parent_scope \in Nat /\ s \in Nat
         /\ scopes[s].opener \in DOMAIN instructions(scopes[s].parent_scope)
         /\ scopes[s].opener \in Nat \ {0} /\ scopes[s].opener + 1 \in Nat \ {0}
         /\ \A out : Resumes(s, out) \in Nat \ {0}
<1>1. PICK p, o : p = scopes[s].parent_scope /\ o = scopes[s].opener
  OBVIOUS
<1>2. p \in DOMAIN scopes /\ p < s /\ o \in DOMAIN instructions(p)
  BY <1>1 DEF TreeInv, ParentInv
<1>3. p \in Nat /\ s \in Nat /\ o \in Nat \ {0} /\ o + 1 \in Nat \ {0}
  BY <1>2, ScopeTyped DEF BuilderType
<1> QED
  BY <1>1, <1>2, <1>3 DEF Resumes

\* How a run goes on when it has left a scope is a course, and what happened before stays in
\* front.
LEMMA FinishIs ==
  ASSUME NEW f \in [Exits -> Courses], NEW s \in DOMAIN scopes, NEW r \in Courses
  PROVE  /\ <<s, r.left, r.out>> \in Exits /\ f[<<s, r.left, r.out>>] \in Courses
         /\ Finish(f, s, r) \in Courses
         /\ \A events \in Seq(Event) : Finish(f, s, Before(events, r)) = Before(events, Finish(f, s, r))
<1>1. r.events \in Seq(Event) /\ r.left \in Seq(BOOLEAN) /\ r.out \in Outs
  <2> HIDE DEF Event
  <2> QED
    BY DEF Courses, Outs
<1>2. <<s, r.left, r.out>> \in Exits
  BY <1>1 DEF Exits
<1>3. PICK x \in Courses : x = f[<<s, r.left, r.out>>]
  BY <1>2
<1>4. Before(r.events, x) \in Courses
  BY <1>1, BeforeIs
<1>5. ASSUME NEW events \in Seq(Event)
      PROVE  Finish(f, s, Before(events, r)) = Before(events, Finish(f, s, r))
  <2>1. PICK y : y = Before(events, r)
    OBVIOUS
  <2>2. y.events = events \o r.events /\ y.left = r.left /\ y.out = r.out
    BY <2>1, BeforeIs
  <2>3. Finish(f, s, y) = Before(events \o r.events, x)
    BY <1>3, <2>2 DEF Finish
  <2>4. Before(events, Before(r.events, x)) = Before(events \o r.events, x)
    BY <1>1, BeforeIs
  <2> QED
    BY <1>3, <2>1, <2>3, <2>4 DEF Finish
<1> QED
  BY <1>2, <1>3, <1>4, <1>5 DEF Finish

\* It depends on the scopes around s only.
LEMMA GoesUp ==
  ASSUME BuilderType, TreeInv, NEW f \in [Exits -> Courses], NEW g \in [Exits -> Courses],
         NEW s \in DOMAIN scopes, NEW left \in Seq(BOOLEAN), NEW out \in Outs,
         \A p \in DOMAIN scopes, l \in Seq(BOOLEAN), o \in Outs :
           p < s => f[<<p, l, o>>] = g[<<p, l, o>>]
  PROVE  Goes(f, s, left, out) = Goes(g, s, left, out) /\ Goes(f, s, left, out) \in Courses
<1>1. \A o \in Outs : Run(<<>>, left, o) \in Courses
  <2>1. PICK x \in Seq(Event) : x = <<>>
    BY DestructionsHappen
  <2> QED
    BY <2>1, RunIs DEF Outs
<1>2. CASE out = "cut"
  BY <1>1, <1>2 DEF Goes, Outs
<1>3. CASE out # "cut" /\ s = main
  BY <1>1, <1>3 DEF Goes, Outs
<1>4. CASE out # "cut" /\ s # main
  <2>1. PICK p \in DOMAIN scopes : p = scopes[s].parent_scope /\ p < s
    BY <1>4, ParentIs
  <2>2. PICK o \in Nat : o = scopes[s].opener
    BY <1>4, ParentIs
  <2>3. CASE out = "next" \/ (out = "break" /\ IsLoop(s))
    <3>1. PICK n \in Nat \ {0} : n = Resumes(s, out)
      BY <1>4, ParentIs
    <3>2. PICK r \in Courses : r = meaning[<<p, n, left>>]
      BY MeaningIs
    <3>3. Goes(f, s, left, out) = Finish(f, p, r) /\ Goes(g, s, left, out) = Finish(g, p, r)
      BY <1>4, <2>1, <2>3, <3>1, <3>2, Zenon DEF Goes
    <3>4. r.left \in Seq(BOOLEAN) /\ r.out \in Outs
      BY DEF Courses, Outs
    <3>5. f[<<p, r.left, r.out>>] = g[<<p, r.left, r.out>>]
      BY <2>1, <3>4
    <3> QED
      BY <3>3, <3>5, FinishIs DEF Finish
  <2>4. CASE ~ (out = "next" \/ (out = "break" /\ IsLoop(s)))
    <3>1. PICK ev \in Seq(Event) : ev = Destroyed(p, o)
      BY DestroyedIs, DestructionsHappen
    <3>2. PICK x \in Courses : x = f[<<p, left, out>>] /\ x = g[<<p, left, out>>]
      <4>1. <<p, left, out>> \in Exits
        BY DEF Exits
      <4> QED
        BY <2>1, <4>1
    <3>3. Goes(f, s, left, out) = Before(ev, x) /\ Goes(g, s, left, out) = Before(ev, x)
      BY <1>4, <2>1, <2>2, <2>4, <3>1, <3>2, Zenon DEF Goes
    <3> QED
      BY <3>3, BeforeIs
  <2> QED
    BY <2>3, <2>4
<1> QED
  BY <1>2, <1>3, <1>4

\* The continuation exists: when a scope is left, what goes on is in scopes opened earlier.
LEMMA GoIs ==
  ASSUME BuilderType, TreeInv
  PROVE  GoesOn(go)
<1> DEFINE ok == [x \in Exits |-> Courses]
           size == [x \in Exits |-> x[1]]
           step == [x \in Exits \X [Exits -> Courses] |-> Goes(x[2], x[1][1], x[1][2], x[1][3])]
<1>1. size \in [Exits -> Nat] /\ \A x \in Exits : ok[x] \subseteq Courses
  BY ScopeTyped DEF Exits, BuilderType
<1>2. PICK r0 : r0 \in Courses
  <2>1. PICK x \in Seq(Event), d \in Seq(BOOLEAN) : x = <<>> /\ d = <<>>
    <3>1. \A T : <<>> \in Seq(T)
      OBVIOUS
    <3> QED
      BY <3>1
  <2> QED
    BY RunIs
<1>3. ASSUME NEW x \in Exits, NEW f \in [Exits -> Courses], NEW g \in [Exits -> Courses],
             \A y \in Exits : size[y] < size[x] => f[y] = g[y]
      PROVE  step[<<x, f>>] = step[<<x, g>>] /\ step[<<x, f>>] \in ok[x]
  <2>1. PICK s \in DOMAIN scopes, left \in Seq(BOOLEAN), out \in Outs : x = <<s, left, out>>
    BY DEF Exits
  <2>2. /\ step[<<x, f>>] = Goes(f, s, left, out) /\ step[<<x, g>>] = Goes(g, s, left, out)
        /\ ok[x] = Courses /\ size[x] = s
    BY <2>1
  <2>3. ASSUME NEW p \in DOMAIN scopes, NEW l \in Seq(BOOLEAN), NEW o \in Outs, p < s
        PROVE  f[<<p, l, o>>] = g[<<p, l, o>>]
    <3>1. PICK y \in Exits : y = <<p, l, o>>
      BY DEF Exits
    <3>2. size[y] = p
      BY <3>1
    <3> HIDE DEF size
    <3> QED
      BY <1>3, <2>2, <2>3, <3>1, <3>2
  <2>4. Goes(f, s, left, out) = Goes(g, s, left, out) /\ Goes(f, s, left, out) \in Courses
    BY <2>3, GoesUp
  <2> HIDE DEF step, ok, size
  <2> QED
    BY <2>2, <2>4
<1>4. PICK f : Solution(f, Exits, Courses, ok, step)
  <2>1. PICK S, V, good, by : S = Exits /\ V = Courses /\ good = ok /\ by = step
    OBVIOUS
  <2> HIDE DEF ok, step, size
  <2>2. r0 \in V /\ size \in [S -> Nat] /\ \A s \in S : good[s] \subseteq V
    BY <1>1, <1>2, <2>1
  <2>3. Narrows(S, size, V, good, by)
    BY <1>3, <2>1 DEF Narrows
  <2>4. \E f : Solution(f, S, V, good, by)
    BY <2>2, <2>3, NestedRecursion
  <2> QED
    BY <2>1, <2>4
<1>5. GoesOn(f)
  <2>1. f \in [Exits -> Courses] /\ \A x \in Exits : f[x] = step[<<x, f>>]
    BY <1>4 DEF Solution
  <2>2. ASSUME NEW s \in DOMAIN scopes, NEW left \in Seq(BOOLEAN), NEW out \in Outs
        PROVE  f[<<s, left, out>>] = Goes(f, s, left, out)
    <3>1. PICK x \in Exits : x = <<s, left, out>>
      BY DEF Exits
    <3>2. step[<<x, f>>] = Goes(f, s, left, out)
      BY <2>1, <3>1
    <3> HIDE DEF step
    <3> QED
      BY <2>1, <3>1, <3>2
  <2> QED
    BY <2>1, <2>2 DEF GoesOn
<1> QED
  BY <1>5, Zenon DEF go

\* What the function does from the kth instruction of s on, with the decisions d, to its end.
Plan(s, k, d) == Finish(go, s, meaning[<<s, k, d>>])

\* Plans are courses.
LEMMA PlanIs ==
  ASSUME BuilderType, TreeInv, NEW s \in DOMAIN scopes, NEW d \in Seq(BOOLEAN)
  PROVE  /\ go \in [Exits -> Courses]
         /\ \A out \in Outs : go[<<s, d, out>>] \in Courses
         /\ \A k \in Nat \ {0} : Plan(s, k, d) \in Courses
<1>1. go \in [Exits -> Courses]
  BY GoIs DEF GoesOn
<1>2. ASSUME NEW out \in Outs PROVE go[<<s, d, out>>] \in Courses
  <2>1. <<s, d, out>> \in Exits
    BY DEF Exits
  <2> QED
    BY <1>1, <2>1
<1>3. ASSUME NEW k \in Nat \ {0} PROVE Plan(s, k, d) \in Courses
  <2>1. PICK f \in [Exits -> Courses] : f = go
    BY <1>1
  <2>2. PICK r \in Courses : r = meaning[<<s, k, d>>]
    BY MeaningIs
  <2>3. Finish(f, s, r) \in Courses
    BY FinishIs
  <2> QED
    BY <2>1, <2>2, <2>3 DEF Plan
<1> QED
  BY <1>1, <1>2, <1>3

\* The ways a scope ends.
Ending(c, s, k, l) ==
  /\ go[<<c, l, "cut">>] = Run(<<>>, l, "cut")
  /\ go[<<c, l, "next">>] = Plan(s, IF IsLoop(c) THEN k ELSE k + 1, l)
  /\ go[<<c, l, "return">>] = Before(Destroyed(s, k), go[<<s, l, "return">>])
  /\ go[<<c, l, "break">>] = IF IsLoop(c) THEN Plan(s, k + 1, l)
                             ELSE Before(Destroyed(s, k), go[<<s, l, "break">>])

\* How the function goes on when a scope is left, by the way it is left.
LEMMA GoEnds ==
  ASSUME BuilderType, TreeInv, NEW s \in DOMAIN scopes, NEW d \in Seq(BOOLEAN),
         NEW p, NEW o, p = scopes[s].parent_scope, o = scopes[s].opener
  PROVE  /\ go[<<s, d, "cut">>] = Run(<<>>, d, "cut")
         /\ s = main => /\ go[<<s, d, "next">>] = Run(<<>>, d, "next")
                        /\ go[<<s, d, "return">>] = Run(<<>>, d, "next")
         /\ s # main =>
              /\ go[<<s, d, "next">>] = Plan(p, IF IsLoop(s) THEN o ELSE o + 1, d)
              /\ go[<<s, d, "return">>] = Before(Destroyed(p, o), go[<<p, d, "return">>])
              /\ IsLoop(s) => go[<<s, d, "break">>] = Plan(p, o + 1, d)
              /\ ~ IsLoop(s) => go[<<s, d, "break">>] = Before(Destroyed(p, o), go[<<p, d, "break">>])
         /\ s # main => Ending(s, p, o, d)
<1>1. \A out \in Outs : go[<<s, d, out>>] = Goes(go, s, d, out)
  BY GoIs DEF GoesOn
<1>2. "cut" \in Outs /\ "next" \in Outs /\ "return" \in Outs /\ "break" \in Outs
  BY DEF Outs
<1>3. go[<<s, d, "cut">>] = Run(<<>>, d, "cut")
  BY <1>1, <1>2 DEF Goes
<1>4. ASSUME s = main
      PROVE  /\ go[<<s, d, "next">>] = Run(<<>>, d, "next")
             /\ go[<<s, d, "return">>] = Run(<<>>, d, "next")
  BY <1>1, <1>2, <1>4 DEF Goes
<1>5. ASSUME s # main
      PROVE  /\ go[<<s, d, "next">>] = Plan(p, IF IsLoop(s) THEN o ELSE o + 1, d)
             /\ go[<<s, d, "return">>] = Before(Destroyed(p, o), go[<<p, d, "return">>])
             /\ IsLoop(s) => go[<<s, d, "break">>] = Plan(p, o + 1, d)
             /\ ~ IsLoop(s) => go[<<s, d, "break">>] = Before(Destroyed(p, o), go[<<p, d, "break">>])
  <2>1. /\ Goes(go, s, d, "next") = Finish(go, p, meaning[<<p, Resumes(s, "next"), d>>])
        /\ Goes(go, s, d, "return") = Before(Destroyed(p, o), go[<<p, d, "return">>])
    BY <1>5 DEF Goes
  <2>2. IsLoop(s) => Goes(go, s, d, "break") = Finish(go, p, meaning[<<p, Resumes(s, "break"), d>>])
    BY <1>5 DEF Goes
  <2>3. ~ IsLoop(s) => Goes(go, s, d, "break") = Before(Destroyed(p, o), go[<<p, d, "break">>])
    BY <1>5 DEF Goes
  <2>4. Resumes(s, "next") = (IF IsLoop(s) THEN o ELSE o + 1) /\ Resumes(s, "break") = o + 1
    BY DEF Resumes
  <2> QED
    BY <1>1, <1>2, <2>1, <2>2, <2>3, <2>4 DEF Plan
<1>6. s # main => Ending(s, p, o, d)
  BY <1>3, <1>5, Zenon DEF Ending
<1> QED
  BY <1>3, <1>4, <1>5, <1>6

\* An instruction that is over leads to the next; a run that has left the scope destroys its
\* variables and goes on as the scope does when it is left that way.
LEMMA PlanThen ==
  ASSUME BuilderType, TreeInv, NEW s \in DOMAIN scopes, NEW k \in Nat \ {0}, NEW r \in Courses
  PROVE  /\ Finish(go, s, Then(meaning, s, k, r)) = Before(r.events, Plan(s, k + 1, r.left))
         /\ r.out = "next" => Finish(go, s, After(meaning, s, k, r))
                                = Before(r.events, Plan(s, k + 1, r.left))
         /\ r.out = "cut" => Finish(go, s, After(meaning, s, k, r))
                                = Before(r.events, Run(<<>>, r.left, "cut"))
         /\ r.out \in {"return", "break"} =>
              Finish(go, s, After(meaning, s, k, r))
                = Before(r.events, Before(Destroyed(s, k), go[<<s, r.left, r.out>>]))
<1>1. r.events \in Seq(Event) /\ r.left \in Seq(BOOLEAN) /\ r.out \in Outs
  <2> HIDE DEF Event
  <2> QED
    BY DEF Courses, Outs
<1>2. PICK l \in Seq(BOOLEAN), a \in Seq(Event) : l = r.left /\ a = r.events
  BY <1>1
<1>3. PICK f \in [Exits -> Courses] : f = go
  BY PlanIs, <1>1
<1>4. Finish(go, s, Then(meaning, s, k, r)) = Before(a, Plan(s, k + 1, l))
  <2>1. k + 1 \in Nat \ {0}
    OBVIOUS
  <2>2. PICK x \in Courses : x = meaning[<<s, k + 1, l>>]
    BY <2>1, MeaningIs
  <2>3. Then(meaning, s, k, r) = Before(a, x)
    BY <1>2, <2>2 DEF Then
  <2>4. Finish(f, s, Before(a, x)) = Before(a, Finish(f, s, x))
    BY FinishIs
  <2> QED
    BY <1>3, <2>2, <2>3, <2>4 DEF Plan
<1>5. CASE r.out = "next"
  <2>1. After(meaning, s, k, r) = Then(meaning, s, k, r)
    BY <1>5 DEF After
  <2> QED
    BY <1>2, <1>4, <1>5, <2>1
<1>6. CASE r.out = "cut"
  <2>1. After(meaning, s, k, r) = r
    BY <1>6 DEF After
  <2>2. go[<<s, l, "cut">>] = Run(<<>>, l, "cut")
    BY GoEnds
  <2>3. Finish(go, s, r) = Before(a, Run(<<>>, l, "cut"))
    BY <1>2, <1>6, <2>2 DEF Finish
  <2> QED
    BY <1>2, <1>4, <1>6, <2>1, <2>3
<1>7. CASE r.out \in {"return", "break"}
  <2> DEFINE y == [r EXCEPT !.events = @ \o Destroyed(s, k)]
  <2>1. After(meaning, s, k, r) = y
    BY <1>7 DEF After
  <2>2. PICK b \in Seq(Event) : b = Destroyed(s, k)
    BY DestroyedIs, DestructionsHappen
  <2>3. y.events = a \o b /\ y.left = l /\ y.out = r.out
    <3>1. PICK o : o = r.out
      OBVIOUS
    <3>2. y = [events |-> a \o b, left |-> l, out |-> o]
      <4>1. r = [events |-> a, left |-> l, out |-> o]
        BY <1>2, <3>1 DEF Courses
      <4>2. PICK z : z = a \o b
        OBVIOUS
      <4>3. y = [r EXCEPT !.events = z]
        BY <1>2, <2>2, <4>2
      <4> HIDE DEF y
      <4> QED
        BY <4>1, <4>2, <4>3
    <3> HIDE DEF y
    <3> QED
      BY <3>1, <3>2
  <2>4. PICK x \in Courses : x = go[<<s, l, r.out>>]
    BY <1>1, PlanIs
  <2>5. Finish(go, s, y) = Before(a \o b, x)
    <3> HIDE DEF y
    <3> QED
      BY <2>3, <2>4 DEF Finish
  <2>6. Before(a, Before(b, x)) = Before(a \o b, x)
    BY BeforeIs
  <2> HIDE DEF y
  <2> QED
    BY <1>2, <1>4, <1>7, <2>1, <2>2, <2>4, <2>5, <2>6
<1> QED
  BY <1>1, <1>2, <1>4, <1>5, <1>6, <1>7 DEF Outs

\* A scope that is no loop ends where the run of the instruction that opened it goes on, and so
\* does the else that follows the instruction.
LEMMA PlanInside ==
  ASSUME BuilderType, TreeInv, NEW s \in DOMAIN scopes, NEW k \in DOMAIN instructions(s),
         NEW c \in DOMAIN scopes, c # main, scopes[c].parent_scope = s, ~ IsLoop(c),
         \/ scopes[c].opener = k
         \/ /\ scopes[c].opener = k + 1 /\ k + 1 \in DOMAIN instructions(s)
            /\ instructions(s)[k + 1].op = "else",
         NEW r \in Courses
  PROVE  Finish(go, s, After(meaning, s, k, r)) = Finish(go, c, r)
<1>1. r.events \in Seq(Event) /\ r.left \in Seq(BOOLEAN) /\ r.out \in Outs
  <2> HIDE DEF Event
  <2> QED
    BY DEF Courses, Outs
<1>2. PICK l \in Seq(BOOLEAN), a \in Seq(Event), o \in Nat \ {0} :
        l = r.left /\ a = r.events /\ o = scopes[c].opener
  BY <1>1, ParentIs
<1>3. PICK n \in Nat \ {0} : n = k /\ n + 1 \in Nat \ {0}
  BY ScopeTyped DEF BuilderType
<1>4. /\ go[<<c, l, "cut">>] = Run(<<>>, l, "cut")
      /\ go[<<c, l, "next">>] = Plan(s, o + 1, l)
      /\ go[<<c, l, "return">>] = Before(Destroyed(s, o), go[<<s, l, "return">>])
      /\ go[<<c, l, "break">>] = Before(Destroyed(s, o), go[<<s, l, "break">>])
  BY <1>2, GoEnds
<1>5. Plan(s, o + 1, l) = Plan(s, n + 1, l) /\ Destroyed(s, o) = Destroyed(s, n)
  <2>1. CASE o = n
    BY <2>1
  <2>2. CASE o = n + 1 /\ n + 1 \in DOMAIN instructions(s) /\ instructions(s)[n + 1].op = "else"
    <3>1. Destroyed(s, n + 1) = Destroyed(s, n)
      BY <2>2, DestroyedAtElse
    <3>2. meaning[<<s, n + 1, l>>] = Meant(meaning, s, n + 1, l)
      BY <1>3, MeaningIs
    <3>3. n + 1 <= Len(instructions(s)) /\ Len(instructions(s)) \in Nat
      BY <2>2, ScopeTyped DEF BuilderType
    <3>4. Meant(meaning, s, n + 1, l) = meaning[<<s, (n + 1) + 1, l>>]
      <4>1. PICK m : m = n + 1
        OBVIOUS
      <4>2. m <= Len(instructions(s)) /\ instructions(s)[m].op = "else" /\ m \in Nat
        BY <2>2, <3>3, <4>1
      <4>3. Meant(meaning, s, m, l) = meaning[<<s, m + 1, l>>]
        BY <3>3, <4>2 DEF Meant
      <4> QED
        BY <4>1, <4>3
    <3> QED
      BY <2>2, <3>1, <3>2, <3>4 DEF Plan
  <2> QED
    BY <1>2, <1>3, <2>1, <2>2
<1>6. /\ r.out = "next" => Finish(go, s, After(meaning, s, n, r)) = Before(a, Plan(s, n + 1, l))
      /\ r.out = "cut" => Finish(go, s, After(meaning, s, n, r)) = Before(a, Run(<<>>, l, "cut"))
      /\ r.out \in {"return", "break"} =>
           Finish(go, s, After(meaning, s, n, r)) = Before(a, Before(Destroyed(s, n), go[<<s, l, r.out>>]))
  BY <1>2, PlanThen
<1>7. Finish(go, c, r) = Before(a, go[<<c, l, r.out>>])
  BY <1>2 DEF Finish
<1>8. CASE r.out \in {"next", "cut"}
  BY <1>3, <1>4, <1>5, <1>6, <1>7, <1>8
<1>9. CASE r.out \in {"return", "break"}
  BY <1>3, <1>4, <1>5, <1>6, <1>7, <1>9
<1> QED
  BY <1>1, <1>8, <1>9 DEF Outs

\* Courses on which nothing happens.
LEMMA NoEvents ==
  /\ <<>> \in Seq(Event)
  /\ \A left \in Seq(BOOLEAN), out \in Outs :
       Run(<<>>, left, out) \in Courses /\ Run(<<>>, left, out).events = <<>>
       /\ Run(<<>>, left, out).left = left /\ Run(<<>>, left, out).out = out
<1>1. PICK x \in Seq(Event) : x = <<>>
  BY DestructionsHappen
<1>2. ASSUME NEW left \in Seq(BOOLEAN), NEW out \in Outs
      PROVE  /\ Run(x, left, out) \in Courses /\ Run(x, left, out).events = x
             /\ Run(x, left, out).left = left /\ Run(x, left, out).out = out
  BY RunIs DEF Outs
<1> HIDE DEF Event, Outs
<1> QED
  BY <1>1, <1>2

\* What each instruction does, and what comes after it.
Stepping(s, k, ins, d) ==
  /\ ins.op \in {"declare", "else"} \/ (ins.op = "break" /\ ~ InLoop(s)) =>
       Plan(s, k, d) = Plan(s, k + 1, d)
  /\ ins.op = "construct" =>
       Plan(s, k, d) = Before(<< <<"construct", <<s, ins.arg>>>> >>, Plan(s, k + 1, d))
  /\ ins.op = "return" => Plan(s, k, d) = Before(Destroyed(s, k), go[<<s, d, "return">>])
  /\ ins.op = "break" /\ InLoop(s) =>
       Plan(s, k, d) = Before(Destroyed(s, k), go[<<s, d, "break">>])
  /\ ins.op = "scope" => Plan(s, k, d) = Plan(ins.arg, 1, d)

\* What is to be done from an instruction on that tests nothing: what it does itself, then the
\* rest.
LEMMA PlanSteps ==
  ASSUME BuilderType, TreeInv, NEW s \in DOMAIN scopes, NEW k \in DOMAIN instructions(s),
         NEW ins, ins = instructions(s)[k], NEW d \in Seq(BOOLEAN)
  PROVE  Stepping(s, k, ins, d)
<1>1. /\ ins.op \in {"if", "else", "while", "declare", "construct", "return", "scope", "break"}
      /\ ins.arg \in Nat /\ s \in Nat /\ k \in Nat \ {0} /\ k + 1 \in Nat \ {0}
      /\ k <= Len(instructions(s)) /\ Len(instructions(s)) \in Nat
      /\ ins.op \in {"if", "else", "while", "scope"} =>
           /\ ins.arg \in DOMAIN scopes \ {main} /\ s < ins.arg
           /\ scopes[ins.arg].parent_scope = s /\ scopes[ins.arg].opener = k
           /\ opener(ins.arg) = ins
  BY InstructionIs
<1>2. meaning[<<s, k, d>>] = Meant(meaning, s, k, d)
  BY <1>1, MeaningIs
<1>3. /\ Run(<<>>, d, "return") \in Courses /\ Run(<<>>, d, "break") \in Courses
      /\ Run(<<>>, d, "return").events = <<>> /\ Run(<<>>, d, "break").events = <<>>
      /\ Run(<<>>, d, "return").left = d /\ Run(<<>>, d, "break").left = d
      /\ Run(<<>>, d, "return").out = "return" /\ Run(<<>>, d, "break").out = "break"
  BY NoEvents DEF Outs
<1>4. ASSUME NEW out \in Outs
      PROVE  Before(<<>>, Before(Destroyed(s, k), go[<<s, d, out>>]))
               = Before(Destroyed(s, k), go[<<s, d, out>>])
  <2>1. PICK x \in Courses, b \in Seq(Event) : x = go[<<s, d, out>>] /\ b = Destroyed(s, k)
    BY <1>1, PlanIs, DestroyedIs, DestructionsHappen
  <2>2. PICK y \in Courses : y = Before(b, x)
    BY BeforeIs
  <2>3. Before(<<>>, y) = y
    BY BeforeIs, NoEvents
  <2> QED
    BY <2>1, <2>2, <2>3
<1>5. ASSUME ins.op \in {"declare", "else"} \/ (ins.op = "break" /\ ~ InLoop(s))
      PROVE  Plan(s, k, d) = Plan(s, k + 1, d)
  <2>1. ins.op = "declare" => Meant(meaning, s, k, d) = meaning[<<s, k + 1, d>>]
    BY <1>1 DEF Meant
  <2>2. ins.op = "else" => Meant(meaning, s, k, d) = meaning[<<s, k + 1, d>>]
    BY <1>1 DEF Meant
  <2>3. ins.op = "break" /\ ~ InLoop(s) => Meant(meaning, s, k, d) = meaning[<<s, k + 1, d>>]
    BY <1>1 DEF Meant
  <2> QED
    BY <1>2, <1>5, <2>1, <2>2, <2>3 DEF Plan
<1>6. ASSUME ins.op = "construct"
      PROVE  Plan(s, k, d) = Before(<< <<"construct", <<s, ins.arg>>>> >>, Plan(s, k + 1, d))
  <2>1. PICK x \in Seq(Event) : x = << <<"construct", <<s, ins.arg>>>> >>
    BY <1>1, DestructionsHappen
  <2>2. PICK r \in Courses : r = Run(x, d, "next") /\ r.events = x /\ r.left = d
    BY RunIs
  <2>3. Meant(meaning, s, k, d) = Then(meaning, s, k, r)
    BY <1>1, <1>6, <2>1, <2>2 DEF Meant
  <2>4. Finish(go, s, Then(meaning, s, k, r)) = Before(r.events, Plan(s, k + 1, r.left))
    <3>1. PICK n \in Nat \ {0} : n = k
      BY <1>1
    <3>2. Finish(go, s, Then(meaning, s, n, r)) = Before(r.events, Plan(s, n + 1, r.left))
      BY PlanThen
    <3> QED
      BY <3>1, <3>2
  <2> QED
    BY <1>2, <1>6, <2>1, <2>2, <2>3, <2>4 DEF Plan
<1>7. ASSUME NEW out \in {"return", "break"}, out = ins.op, ins.op = "break" => InLoop(s)
      PROVE  Plan(s, k, d) = Before(Destroyed(s, k), go[<<s, d, out>>])
  <2>2. PICK r \in Courses : r = Run(<<>>, d, out) /\ r.events = <<>> /\ r.left = d /\ r.out = out
    BY <1>3
  <2>3. Meant(meaning, s, k, d) = After(meaning, s, k, r)
    BY <1>1, <1>7, <2>2 DEF Meant
  <2>4. Finish(go, s, After(meaning, s, k, r))
          = Before(r.events, Before(Destroyed(s, k), go[<<s, r.left, r.out>>]))
    BY <1>1, <2>2, PlanThen
  <2>5. Plan(s, k, d) = Before(Destroyed(s, k), go[<<s, d, out>>])
    BY <1>2, <1>4, <2>2, <2>3, <2>4 DEF Plan, Outs
  <2> QED
    BY <2>5
<1>8. ASSUME ins.op = "scope"
      PROVE  Plan(s, k, d) = Plan(ins.arg, 1, d)
  <2>1. PICK c \in DOMAIN scopes : c = ins.arg /\ c # main
    BY <1>1, <1>8
  <2>2. PICK r \in Courses : r = meaning[<<c, 1, d>>]
    <3>1. 1 \in Nat \ {0}
      OBVIOUS
    <3> QED
      BY <3>1, MeaningIs
  <2>3. Meant(meaning, s, k, d) = After(meaning, s, k, r)
    BY <1>1, <1>8, <2>1, <2>2 DEF Meant
  <2>4. ~ IsLoop(c)
    BY <1>1, <1>8, <2>1 DEF IsLoop
  <2>5. Finish(go, s, After(meaning, s, k, r)) = Finish(go, c, r)
    BY <1>1, <1>8, <2>1, <2>4, PlanInside
  <2> QED
    BY <1>2, <1>8, <2>1, <2>2, <2>3, <2>5 DEF Plan
<1> QED
  BY <1>5, <1>6, <1>7, <1>8, Zenon DEF Stepping

\* With the first decision spent on c, what comes after it, and what comes in its scope.
Testing(c, d) ==
  /\ << <<"eval", c>> >> \in Seq(Event) /\ Tail(d) \in Seq(BOOLEAN)
  /\ \A s \in DOMAIN scopes, k \in Nat \ {0} :
       Finish(go, s, Then(meaning, s, k, Tested(c, d)))
         = Before(<< <<"eval", c>> >>, Plan(s, k + 1, Tail(d)))
  /\ \A b \in DOMAIN scopes :
       /\ Inside(meaning, c, b, d) \in Courses
       /\ Finish(go, b, Inside(meaning, c, b, d)) = Before(<< <<"eval", c>> >>, Plan(b, 1, Tail(d)))

\* The condition of c is evaluated: then the function goes on in scope b, or after the instruction.
LEMMA PlanTested ==
  ASSUME BuilderType, TreeInv, NEW c \in DOMAIN scopes, NEW d \in Seq(BOOLEAN), d # <<>>
  PROVE  Testing(c, d)
<1>0. PICK t, e : t = << <<"eval", c>> >> /\ e = Tail(d)
  OBVIOUS
<1>1. t \in Seq(Event)
  BY <1>0, ScopeTyped, DestructionsHappen DEF BuilderType
<1>2. e \in Seq(BOOLEAN)
  BY <1>0, TailIs
<1>3. PICK x \in Seq(Event), l \in Seq(BOOLEAN) : x = t /\ l = e
  BY <1>1, <1>2
<1>4. PICK r \in Courses : r = Tested(c, d) /\ r.events = x /\ r.left = l
  <2>1. Tested(c, d) = Run(x, l, "next")
    BY <1>0, <1>3, Zenon DEF Tested
  <2> QED
    BY <2>1, RunIs
<1>5. ASSUME NEW s \in DOMAIN scopes, NEW k \in Nat \ {0}
      PROVE  Finish(go, s, Then(meaning, s, k, Tested(c, d))) = Before(t, Plan(s, k + 1, e))
  <2>1. Finish(go, s, Then(meaning, s, k, r)) = Before(r.events, Plan(s, k + 1, r.left))
    BY PlanThen
  <2> QED
    BY <1>3, <1>4, <2>1
<1>6. ASSUME NEW b \in DOMAIN scopes
      PROVE  /\ Inside(meaning, c, b, d) \in Courses
             /\ Finish(go, b, Inside(meaning, c, b, d)) = Before(t, Plan(b, 1, e))
  <2>1. PICK m \in Courses : m = meaning[<<b, 1, l>>]
    <3>1. 1 \in Nat \ {0}
      OBVIOUS
    <3> QED
      BY <3>1, MeaningIs
  <2>2. Inside(meaning, c, b, d) = Before(x, m)
    BY <1>0, <1>3, <1>4, <2>1 DEF Inside
  <2>3. PICK f \in [Exits -> Courses] : f = go
    BY <1>2, PlanIs
  <2>4. Finish(f, b, Before(x, m)) = Before(x, Finish(f, b, m))
    BY FinishIs
  <2>5. Before(x, m) \in Courses
    BY BeforeIs
  <2> QED
    BY <1>3, <2>1, <2>2, <2>3, <2>4, <2>5 DEF Plan
<1> QED
  BY <1>0, <1>1, <1>2, <1>5, <1>6, Zenon DEF Testing

\* A function that is cut short for want of decisions stays so.
LEMMA PlanCut ==
  ASSUME BuilderType, TreeInv, NEW s \in DOMAIN scopes
  PROVE  Finish(go, s, Run(<<>>, <<>>, "cut")) = Run(<<>>, <<>>, "cut")
<1>1. PICK d \in Seq(BOOLEAN) : d = <<>>
  <2>1. \A T : <<>> \in Seq(T)
    OBVIOUS
  <2> QED
    BY <2>1
<1>2. PICK r \in Courses : r = Run(<<>>, d, "cut") /\ r.events = <<>> /\ r.left = d /\ r.out = "cut"
  BY NoEvents DEF Outs
<1>3. go[<<s, d, "cut">>] = r
  BY <1>2, GoEnds
<1>4. Finish(go, s, r) = Before(<<>>, r)
  BY <1>2, <1>3 DEF Finish
<1>5. Before(<<>>, r) = r
  BY BeforeIs, NoEvents
<1> QED
  BY <1>1, <1>2, <1>4, <1>5

\* The else of a condition is the next instruction, and there is none besides.
LEMMA ElseOf ==
  ASSUME BuilderType, TreeInv, NEW s \in DOMAIN scopes, NEW k \in DOMAIN instructions(s),
         NEW c \in DOMAIN scopes, c # main, scopes[c].parent_scope = s, scopes[c].opener = k
  PROVE  /\ else_branch(c) # {} =>
              \E e \in DOMAIN scopes :
                /\ else_branch(c) = {e} /\ e # main /\ scopes[e].parent_scope = s
                /\ scopes[e].opener = k + 1 /\ k + 1 \in DOMAIN instructions(s)
                /\ instructions(s)[k + 1] = opener(e) /\ opener(e).op = "else"
                /\ instructions(s)[k + 1].arg = e
         /\ else_branch(c) = {} => ~ (k + 1 \in DOMAIN instructions(s)
                                      /\ instructions(s)[k + 1].op = "else")
<1>1. k \in Nat /\ Len(instructions(s)) \in Nat /\ DOMAIN instructions(s) = 1 .. Len(instructions(s))
      /\ k >= 1
  BY ScopeTyped DEF BuilderType
<1>2. else_branch(c) = IF k + 1 <= Len(instructions(s)) /\ instructions(s)[k + 1].op = "else"
                       THEN {instructions(s)[k + 1].arg} ELSE {}
  BY Zenon DEF else_branch
<1>3. CASE k + 1 <= Len(instructions(s)) /\ instructions(s)[k + 1].op = "else"
  <2>1. PICK ins, n : n = k + 1 /\ ins = instructions(s)[n]
    OBVIOUS
  <2>2. n \in DOMAIN instructions(s) /\ ins.op = "else"
    BY <1>1, <1>3, <2>1
  <2>3. /\ ins.arg \in DOMAIN scopes \ {main}
        /\ scopes[ins.arg].parent_scope = s /\ scopes[ins.arg].opener = n
        /\ opener(ins.arg) = ins
    BY <2>1, <2>2, InstructionIs
  <2>4. PICK e \in DOMAIN scopes : e = ins.arg /\ e # main
    BY <2>3
  <2>5. else_branch(c) = {e}
    BY <1>2, <1>3, <2>1, <2>4
  <2> QED
    BY <2>1, <2>2, <2>3, <2>4, <2>5
<1>4. CASE ~ (k + 1 <= Len(instructions(s)) /\ instructions(s)[k + 1].op = "else")
  <2>1. else_branch(c) = {}
    BY <1>2, <1>4
  <2>2. ~ (k + 1 \in DOMAIN instructions(s) /\ instructions(s)[k + 1].op = "else")
    BY <1>1, <1>4
  <2> QED
    BY <2>1, <2>2
<1> QED
  BY <1>3, <1>4

\* The first of the decisions d.
Holds(d) == Head(d)

\* An if goes on in its scope, in that of its else, or after it; a while in its body or after it,
\* and the end of the body is where it is evaluated again.
Branching(s, k, c, d, t, e) ==
  /\ d = <<>> => Plan(s, k, d) = Run(<<>>, <<>>, "cut")
  /\ d # <<>> /\ Holds(d) => Plan(s, k, d) = Before(t, Plan(c, 1, e))
  /\ d # <<>> /\ ~ Holds(d) =>
       IF instructions(s)[k].op = "if" /\ else_branch(c) # {}
       THEN \A b \in else_branch(c) : Plan(s, k, d) = Before(t, Plan(b, 1, e))
       ELSE Plan(s, k, d) = Before(t, Plan(s, k + 1, e))

\* What is to be done from a condition on: its test, then its body or what comes after.
LEMMA PlanBranches ==
  ASSUME BuilderType, TreeInv, NEW s \in DOMAIN scopes, NEW k \in DOMAIN instructions(s),
         NEW c, c = instructions(s)[k].arg, instructions(s)[k].op \in {"if", "while"},
         NEW d \in Seq(BOOLEAN),
         NEW t, t = << <<"eval", c>> >>, NEW e, e = Tail(d)
  PROVE  Branching(s, k, c, d, t, e)
<1> SUFFICES /\ d = <<>> => Plan(s, k, d) = Run(<<>>, <<>>, "cut")
             /\ d # <<>> /\ Holds(d) => Plan(s, k, d) = Before(t, Plan(c, 1, e))
             /\ d # <<>> /\ ~ Holds(d) =>
                  IF instructions(s)[k].op = "if" /\ else_branch(c) # {}
                  THEN \A b \in else_branch(c) : Plan(s, k, d) = Before(t, Plan(b, 1, e))
                  ELSE Plan(s, k, d) = Before(t, Plan(s, k + 1, e))
  BY Zenon DEF Branching
<1>0. PICK ins : ins = instructions(s)[k]
  OBVIOUS
<1>1. /\ s \in Nat /\ k \in Nat \ {0} /\ k + 1 \in Nat \ {0}
      /\ k <= Len(instructions(s)) /\ Len(instructions(s)) \in Nat
      /\ c \in DOMAIN scopes \ {main} /\ s < c /\ c \in DOMAIN scopes /\ c # main
      /\ scopes[c].parent_scope = s /\ scopes[c].opener = k /\ opener(c) = ins
  <2>1. ins.op \in {"if", "else", "while", "scope"}
    BY <1>0
  <2> QED
    BY <1>0, <2>1, InstructionIs
<1>2. meaning[<<s, k, d>>] = Meant(meaning, s, k, d)
  BY <1>1, MeaningIs
<1>3. ins.op = "if" => Meant(meaning, s, k, d) = MeantIf(meaning, s, k, d)
  BY <1>0, <1>1 DEF Meant
<1>4. ins.op = "while" => Meant(meaning, s, k, d) = MeantWhile(meaning, s, k, d)
  BY <1>0, <1>1 DEF Meant
<1>5. CASE d = <<>>
  <2>1. MeantIf(meaning, s, k, d) = Run(<<>>, d, "cut") /\ MeantWhile(meaning, s, k, d) = Run(<<>>, d, "cut")
    BY <1>5, Zenon DEF MeantIf, MeantWhile
  <2>2. Finish(go, s, Run(<<>>, <<>>, "cut")) = Run(<<>>, <<>>, "cut")
    BY PlanCut
  <2>3. Meant(meaning, s, k, d) = Run(<<>>, <<>>, "cut")
    BY <1>0, <1>3, <1>4, <1>5, <2>1
  <2> QED
    BY <1>0, <1>1, <1>2, <1>5, <2>2, <2>3 DEF Plan
<1>6. CASE d # <<>>
  <2>1. /\ t \in Seq(Event) /\ e \in Seq(BOOLEAN)
        /\ \A n \in Nat \ {0} :
             Finish(go, s, Then(meaning, s, n, Tested(c, d))) = Before(t, Plan(s, n + 1, e))
        /\ \A b \in DOMAIN scopes :
             /\ Inside(meaning, c, b, d) \in Courses
             /\ Finish(go, b, Inside(meaning, c, b, d)) = Before(t, Plan(b, 1, e))
    <3>1. Testing(c, d)
      BY <1>1, <1>6, PlanTested
    <3> QED
      BY <3>1, Zenon DEF Testing
  <2>2. PICK r \in Courses : r = Inside(meaning, c, c, d) /\ Finish(go, c, r) = Before(t, Plan(c, 1, e))
    BY <1>1, <2>1
  <2>3. ASSUME ins.op = "if", Holds(d) PROVE Plan(s, k, d) = Before(t, Plan(c, 1, e))
    <3>1. MeantIf(meaning, s, k, d) = After(meaning, s, k, r)
      BY <1>6, <2>2, <2>3, Zenon DEF MeantIf, Holds
    <3>2. ~ IsLoop(c)
      BY <1>1, <2>3 DEF IsLoop
    <3>3. Finish(go, s, After(meaning, s, k, r)) = Finish(go, c, r)
      BY <1>1, <3>2, PlanInside
    <3>4. Plan(s, k, d) = Finish(go, s, After(meaning, s, k, r))
      BY <1>2, <1>3, <2>3, <3>1, Zenon DEF Plan
    <3> QED
      BY <2>2, <3>3, <3>4
  <2>4. ASSUME ins.op = "if", ~ Holds(d), else_branch(c) = {}
        PROVE  Plan(s, k, d) = Before(t, Plan(s, k + 1, e))
    <3>1. MeantIf(meaning, s, k, d) = Then(meaning, s, k, Tested(c, d))
      BY <1>6, <2>4, Zenon DEF MeantIf, Holds
    <3>2. Plan(s, k, d) = Finish(go, s, Then(meaning, s, k, Tested(c, d)))
      BY <1>2, <1>3, <2>4, <3>1, Zenon DEF Plan
    <3> QED
      BY <1>1, <2>1, <3>2
  <2>5. ASSUME ins.op = "if", ~ Holds(d), NEW b \in else_branch(c)
        PROVE  Plan(s, k, d) = Before(t, Plan(b, 1, e))
    <3>1. /\ b \in DOMAIN scopes /\ b # main /\ scopes[b].parent_scope = s
          /\ scopes[b].opener = k + 1 /\ k + 1 \in DOMAIN instructions(s)
          /\ instructions(s)[k + 1].op = "else" /\ opener(b).op = "else"
          /\ instructions(s)[k + 1].arg = b
      <4>1. PICK c0 \in DOMAIN scopes : c0 = c /\ c0 # main
        BY <1>1
      <4>2. else_branch(c0) # {}
        BY <2>5, <4>1
      <4>3. scopes[c0].parent_scope = s /\ scopes[c0].opener = k
        BY <1>1, <4>1
      <4>4. PICK x \in DOMAIN scopes :
              /\ else_branch(c0) = {x} /\ x # main /\ scopes[x].parent_scope = s
              /\ scopes[x].opener = k + 1 /\ k + 1 \in DOMAIN instructions(s)
              /\ instructions(s)[k + 1] = opener(x) /\ opener(x).op = "else"
              /\ instructions(s)[k + 1].arg = x
        BY <4>1, <4>2, <4>3, ElseOf
      <4>5. b = x
        BY <2>5, <4>1, <4>4
      <4> QED
        BY <4>4, <4>5
    <3>2. PICK q \in Courses : q = Inside(meaning, c, b, d) /\ Finish(go, b, q) = Before(t, Plan(b, 1, e))
      BY <2>1, <3>1
    <3>3. else_branch(c) # {}
      BY <2>5
    <3>4. MeantIf(meaning, s, k, d) = After(meaning, s, k, q)
      BY <1>6, <2>5, <3>1, <3>2, <3>3, Zenon DEF MeantIf, Holds
    <3>5. ~ IsLoop(b)
      BY <3>1 DEF IsLoop
    <3>6. Finish(go, s, After(meaning, s, k, q)) = Finish(go, b, q)
      BY <3>1, <3>5, PlanInside
    <3>7. Plan(s, k, d) = Finish(go, s, After(meaning, s, k, q))
      BY <1>2, <1>3, <2>5, <3>4, Zenon DEF Plan
    <3> QED
      BY <3>2, <3>6, <3>7
  <2>6. ASSUME ins.op = "while", ~ Holds(d) PROVE Plan(s, k, d) = Before(t, Plan(s, k + 1, e))
    <3>1. MeantWhile(meaning, s, k, d) = Then(meaning, s, k, Tested(c, d))
      BY <1>6, <2>6, Zenon DEF MeantWhile, Holds
    <3>2. Plan(s, k, d) = Finish(go, s, Then(meaning, s, k, Tested(c, d)))
      BY <1>2, <1>4, <2>6, <3>1, Zenon DEF Plan
    <3> QED
      BY <1>1, <2>1, <3>2
  <2>7. ASSUME ins.op = "while", Holds(d) PROVE Plan(s, k, d) = Before(t, Plan(c, 1, e))
    <3> DEFINE w == CASE r.out = "next" -> Before(r.events, meaning[<<s, k, r.left>>])
                      [] r.out = "break" -> Then(meaning, s, k, r)
                      [] OTHER -> After(meaning, s, k, r)
    <3>1. MeantWhile(meaning, s, k, d) = w
      BY <1>6, <2>2, <2>7, Zenon DEF MeantWhile, Holds
    <3>2. Plan(s, k, d) = Finish(go, s, w)
      <4> HIDE DEF w
      <4> QED
        BY <1>2, <1>4, <2>7, <3>1, Zenon DEF Plan
    <3>3. IsLoop(c)
      BY <1>1, <2>7 DEF IsLoop
    <3>4. r.events \in Seq(Event) /\ r.left \in Seq(BOOLEAN) /\ r.out \in Outs
      <4> HIDE DEF Event
      <4> QED
        BY DEF Courses, Outs
    <3>5. PICK l \in Seq(BOOLEAN) : l = r.left
      BY <3>4
    <3>6. /\ go[<<c, l, "cut">>] = Run(<<>>, l, "cut")
          /\ go[<<c, l, "next">>] = Plan(s, k, l)
          /\ go[<<c, l, "return">>] = Before(Destroyed(s, k), go[<<s, l, "return">>])
          /\ go[<<c, l, "break">>] = Plan(s, k + 1, l)
      <4>1. Ending(c, s, k, l)
        BY <1>1, GoEnds
      <4> QED
        BY <3>3, <4>1, Zenon DEF Ending
    <3>7. Finish(go, c, r) = Before(r.events, go[<<c, l, r.out>>])
      BY <3>5 DEF Finish
    <3>8. CASE r.out = "next"
      <4>1. PICK m \in Courses : m = meaning[<<s, k, l>>]
        BY <1>1, MeaningIs
      <4>2. w = Before(r.events, m)
        BY <3>5, <3>8, <4>1
      <4>3. PICK f \in [Exits -> Courses] : f = go
        BY <2>1, PlanIs
      <4>4. Finish(f, s, Before(r.events, m)) = Before(r.events, Finish(f, s, m))
        BY <3>4, FinishIs
      <4> HIDE DEF w
      <4> QED
        BY <2>2, <3>2, <3>6, <3>7, <3>8, <4>1, <4>2, <4>3, <4>4 DEF Plan
    <3>9. CASE r.out = "break"
      <4>1. w = Then(meaning, s, k, r)
        BY <3>9
      <4>2. Finish(go, s, Then(meaning, s, k, r)) = Before(r.events, Plan(s, k + 1, r.left))
        BY <1>1, PlanThen, Zenon
      <4> HIDE DEF w
      <4> QED
        BY <2>2, <3>2, <3>5, <3>6, <3>7, <3>9, <4>1, <4>2
    <3>10. CASE r.out \in {"return", "cut"}
      <4>1. w = After(meaning, s, k, r)
        BY <3>10
      <4>2. /\ r.out = "cut" => Finish(go, s, After(meaning, s, k, r))
                                 = Before(r.events, Run(<<>>, r.left, "cut"))
            /\ r.out \in {"return", "break"} =>
                 Finish(go, s, After(meaning, s, k, r))
                   = Before(r.events, Before(Destroyed(s, k), go[<<s, r.left, r.out>>]))
        BY <1>1, PlanThen, Zenon
      <4> HIDE DEF w
      <4>3. CASE r.out = "cut"
        BY <2>2, <3>2, <3>5, <3>6, <3>7, <4>1, <4>2, <4>3
      <4>4. CASE r.out = "return"
        BY <2>2, <3>2, <3>5, <3>6, <3>7, <4>1, <4>2, <4>4
      <4> QED
        BY <3>10, <4>3, <4>4
    <3> QED
      BY <3>4, <3>8, <3>9, <3>10 DEF Outs
  <2>8. CASE ins.op = "if"
    <3>1. Holds(d) => Plan(s, k, d) = Before(t, Plan(c, 1, e))
      BY <2>3, <2>8
    <3>2. ~ Holds(d) /\ else_branch(c) = {} => Plan(s, k, d) = Before(t, Plan(s, k + 1, e))
      BY <2>4, <2>8
    <3>3. ~ Holds(d) => \A b \in else_branch(c) : Plan(s, k, d) = Before(t, Plan(b, 1, e))
      BY <2>5, <2>8
    <3> QED
      BY <1>0, <1>1, <1>6, <2>8, <3>1, <3>2, <3>3, Zenon
  <2>9. CASE ins.op = "while"
    <3>1. instructions(s)[k].op # "if"
      BY <1>0, <2>9
    <3>2. Holds(d) => Plan(s, k, d) = Before(t, Plan(c, 1, e))
      BY <2>7, <2>9
    <3>3. ~ Holds(d) => Plan(s, k, d) = Before(t, Plan(s, k + 1, e))
      BY <2>6, <2>9
    <3> QED
      BY <1>6, <3>1, <3>2, <3>3, Zenon
  <2> QED
    BY <1>0, <2>8, <2>9
<1> QED
  BY <1>5, <1>6

\* Past its last instruction a scope destroys its variables.
LEMMA PlanEnds ==
  ASSUME BuilderType, TreeInv, NEW s \in DOMAIN scopes, NEW n, n = Len(instructions(s)),
         NEW d \in Seq(BOOLEAN)
  PROVE  Plan(s, n + 1, d) = Before(Destroyed(s, n), go[<<s, d, "next">>])
<1>1. n \in Nat /\ n + 1 \in Nat \ {0} /\ n + 1 > n
  BY ScopeTyped DEF BuilderType
<1>2. PICK x \in Seq(Event) : x = Destroyed(s, n)
  BY <1>1, DestroyedIs, DestructionsHappen
<1>3. PICK r \in Courses : r = Run(x, d, "next") /\ r.events = x /\ r.left = d /\ r.out = "next"
  BY RunIs
<1>4. meaning[<<s, n + 1, d>>] = Meant(meaning, s, n + 1, d)
  BY <1>1, MeaningIs
<1>5. Meant(meaning, s, n + 1, d) = r
  BY <1>1, <1>2, <1>3, MeantAtEnd
<1> QED
  BY <1>2, <1>3, <1>4, <1>5 DEF Plan, Finish

-----------------------------------------------------------------------------
(* What the code does.                                                     *)

\* What the code does from a place on, given the outcome in al and the decisions to come.
Inputs == BOOLEAN \X Seq(BOOLEAN)
Plans == [Inputs -> Courses]
Told(p) == p[1]

\* From an instruction on, when a scope is left, at the end, and after some events.
From(s, k) == [p \in Inputs |-> Plan(s, k, p[2])]
Gone(s, out) == [p \in Inputs |-> go[<<s, p[2], out>>]]
Done == [p \in Inputs |-> Run(<<>>, p[2], "next")]
Prefixed(events, F) == [p \in Inputs |-> Before(events, F[p])]

\* What is to be done at a label.
Landing(l) == IF l = exit_label THEN Done
              ELSE IF l[1] = "begin_of_scope" THEN From(l[2], 1)
              ELSE IF l[1] = "end_of_scope" THEN Gone(l[2], "next")
              ELSE Gone(l[2], "break")

\* Nothing jumps to the end of an if that has an else.
Idle(l) == \E c \in DOMAIN scopes \ {main} :
             opener(c).op = "if" /\ else_branch(c) # {} /\ l = end_of_scope(c)

\* An instruction before which F is to be done, and after which G is.
Does(ins, F, G) ==
  CASE ins[1] \in {"construct", "destruct"} -> F = Prefixed(<<ins>>, G)
    [] ins[1] = "eval" ->
         \A p \in Inputs : F[p] = IF p[2] = <<>> THEN Run(<<>>, <<>>, "cut")
                                  ELSE Before(<<ins>>, G[<<Head(p[2]), Tail(p[2])>>])
    [] ins[1] = "bind" -> F = G /\ (Idle(ins[2]) \/ F = Landing(ins[2]))
    [] ins[1] = "je" -> /\ ~ Idle(ins[2])
                        /\ \A p \in Inputs : F[p] = IF Told(p) THEN G[p] ELSE Landing(ins[2])[p]
    [] ins[1] = "jne" -> /\ ~ Idle(ins[2])
                         /\ \A p \in Inputs : F[p] = IF Told(p) THEN Landing(ins[2])[p] ELSE G[p]
    [] ins[1] = "jmp" -> ~ Idle(ins[2]) /\ F = Landing(ins[2])

IsTrail(f, F, q, G) ==
  /\ f \in [1 .. Len(q) + 1 -> Plans]
  /\ f[1] = F /\ f[Len(q) + 1] = G
  /\ \A k \in 1 .. Len(q) : Does(q[k], f[k], f[k + 1])
Trail(F, q, G) == \E f : IsTrail(f, F, q, G)

\* No code changes no plan.
LEMMA TrailNone ==
  ASSUME NEW F \in Plans
  PROVE  Trail(F, <<>>, F)
<1> DEFINE f == [k \in 1 .. 1 |-> F]
<1>1. Len(<<>>) = 0
  OBVIOUS
<1>2. f \in [1 .. 1 -> Plans] /\ f[1] = F /\ 0 + 1 = 1 /\ 1 .. 0 = {}
  <2> HIDE DEF Plans
  <2> QED
    OBVIOUS
<1> HIDE DEF f
<1>3. IsTrail(f, F, <<>>, F)
  BY <1>1, <1>2 DEF IsTrail
<1> QED
  BY <1>3 DEF Trail

\* One instruction leads from one plan to another.
LEMMA TrailOne ==
  ASSUME NEW F \in Plans, NEW G \in Plans, NEW ins, Does(ins, F, G)
  PROVE  Trail(F, <<ins>>, G)
<1> DEFINE f == [k \in 1 .. 2 |-> IF k = 1 THEN F ELSE G]
<1>1. Len(<<ins>>) = 1 /\ <<ins>>[1] = ins
  OBVIOUS
<1>2. f \in [1 .. 2 -> Plans] /\ f[1] = F /\ f[2] = G /\ 1 + 1 = 2 /\ 1 .. 1 = {1}
  <2> HIDE DEF Plans
  <2> QED
    OBVIOUS
<1> HIDE DEF f
<1>3. IsTrail(f, F, <<ins>>, G)
  BY <1>1, <1>2 DEF IsTrail
<1> QED
  BY <1>3 DEF Trail

\* Two pieces of code, the second of which starts with the plan the first ends with.
LEMMA TrailJoined ==
  ASSUME NEW S, NEW q \in Seq(S), NEW r \in Seq(S), NEW F, NEW G, NEW H,
         Trail(F, q, G), Trail(G, r, H)
  PROVE  Trail(F, q \o r, H)
<1>1. PICK f : IsTrail(f, F, q, G)
  BY DEF Trail
<1>2. PICK g : IsTrail(g, G, r, H)
  BY DEF Trail
<1>3. PICK m \in Nat, n \in Nat : m = Len(q) /\ n = Len(r)
  OBVIOUS
<1>4. /\ f \in [1 .. m + 1 -> Plans] /\ f[1] = F /\ f[m + 1] = G
      /\ \A k \in 1 .. m : Does(q[k], f[k], f[k + 1])
      /\ g \in [1 .. n + 1 -> Plans] /\ g[1] = G /\ g[n + 1] = H
      /\ \A k \in 1 .. n : Does(r[k], g[k], g[k + 1])
  BY <1>1, <1>2, <1>3 DEF IsTrail
<1> DEFINE h == [k \in 1 .. m + n + 1 |-> IF k <= m THEN f[k] ELSE g[k - m]]
<1>5. /\ Len(q \o r) = m + n
      /\ \A k \in 1 .. m : (q \o r)[k] = q[k]
      /\ \A k \in 1 .. n : (q \o r)[m + k] = r[k]
  BY <1>3, Concatenated
<1>6. h \in [1 .. m + n + 1 -> Plans]
  <2> HIDE DEF Plans
  <2> SUFFICES ASSUME NEW k \in 1 .. m + n + 1 PROVE (IF k <= m THEN f[k] ELSE g[k - m]) \in Plans
    OBVIOUS
  <2>1. CASE k <= m
    <3>1. k \in 1 .. m + 1
      BY <1>3, <2>1
    <3> QED
      BY <1>4, <2>1, <3>1
  <2>2. CASE ~ (k <= m)
    <3>1. k - m \in 1 .. n + 1
      BY <1>3, <2>2
    <3> QED
      BY <1>4, <2>2, <3>1
  <2> QED
    BY <2>1, <2>2
<1>7. \A k \in 1 .. m : h[k] = f[k] /\ k \in 1 .. m + n + 1
  BY <1>3
<1>8. \A k \in 1 .. n + 1 : h[m + k] = g[k]
  <2> SUFFICES ASSUME NEW k \in 1 .. n + 1 PROVE h[m + k] = g[k]
    OBVIOUS
  <2>1. m + k \in 1 .. m + n + 1 /\ ~ (m + k <= m) /\ (m + k) - m = k
    BY <1>3
  <2> QED
    BY <2>1
<1> HIDE DEF h
<1>9. h[m + 1] = G
  <2>1. 1 \in 1 .. n + 1
    BY <1>3
  <2> QED
    BY <1>4, <1>8, <2>1
<1>10. h[1] = F
  <2>1. CASE m = 0
    BY <1>4, <1>9, <2>1
  <2>2. CASE m # 0
    <3>1. 1 \in 1 .. m
      BY <1>3, <2>2
    <3> QED
      BY <1>4, <1>7, <3>1
  <2> QED
    BY <2>1, <2>2
<1>11. h[m + n + 1] = H
  <2>1. n + 1 \in 1 .. n + 1 /\ m + (n + 1) = m + n + 1
    BY <1>3
  <2> QED
    BY <1>4, <1>8, <2>1
<1>12. ASSUME NEW k \in 1 .. m + n PROVE Does((q \o r)[k], h[k], h[k + 1])
  <2>1. CASE k <= m
    <3>1. k \in 1 .. m /\ (k = m \/ k + 1 \in 1 .. m)
      BY <1>3, <2>1
    <3>2. h[k + 1] = f[k + 1]
      BY <1>4, <1>7, <1>9, <3>1
    <3> QED
      BY <1>4, <1>5, <1>7, <3>1, <3>2
  <2>2. CASE k > m
    <3>1. PICK j \in 1 .. n : k = m + j /\ k + 1 = m + (j + 1) /\ j + 1 \in 1 .. n + 1 /\ j \in 1 .. n + 1
      <4>1. k - m \in 1 .. n /\ k = m + (k - m) /\ k + 1 = m + ((k - m) + 1)
            /\ (k - m) + 1 \in 1 .. n + 1 /\ k - m \in 1 .. n + 1
        BY <1>3, <2>2
      <4> QED
        BY <4>1
    <3>2. h[k] = g[j] /\ h[k + 1] = g[j + 1] /\ (q \o r)[k] = r[j]
      BY <1>5, <1>8, <3>1
    <3> QED
      BY <1>4, <3>1, <3>2
  <2> QED
    BY <1>3, <2>1, <2>2
<1>13. IsTrail(h, F, q \o r, H)
  BY <1>5, <1>6, <1>10, <1>11, <1>12 DEF IsTrail
<1> QED
  BY <1>13 DEF Trail

\* Events in front of a plan add up.
LEMMA PrefixedIs ==
  ASSUME NEW F \in Plans, NEW a \in Seq(Event)
  PROVE  /\ Prefixed(a, F) \in Plans
         /\ Prefixed(<<>>, F) = F
         /\ \A b \in Seq(Event) : Prefixed(b, Prefixed(a, F)) = Prefixed(b \o a, F)
<1>1. \A p \in Inputs : F[p] \in Courses
  BY DEF Plans
<1>2. \A p \in Inputs : Before(a, F[p]) \in Courses /\ Before(<<>>, F[p]) = F[p]
  BY <1>1, BeforeIs
<1>3. Prefixed(a, F) \in Plans
  BY <1>2 DEF Prefixed, Plans
<1>4. F = [p \in Inputs |-> F[p]]
  BY DEF Plans
<1>5. Prefixed(<<>>, F) = F
  BY <1>2, <1>4 DEF Prefixed
<1>6. ASSUME NEW b \in Seq(Event)
      PROVE  Prefixed(b, Prefixed(a, F)) = Prefixed(b \o a, F)
  <2>1. \A p \in Inputs : Before(b, Before(a, F[p])) = Before(b \o a, F[p])
    BY <1>1, BeforeIs
  <2>2. \A p \in Inputs : Prefixed(a, F)[p] = Before(a, F[p])
    BY DEF Prefixed
  <2> QED
    BY <2>1, <2>2 DEF Prefixed
<1> QED
  BY <1>3, <1>5, <1>6

\* Calls of constructors and destructors.
Calling == {"construct", "destruct"} \X (Nat \X Nat)

\* A list of calls works off the events in front of a plan.
LEMMA TrailCalls ==
  ASSUME NEW q \in Seq(Calling), NEW G \in Plans
  PROVE  /\ Prefixed(q, G) \in Plans /\ q \in Seq(Event)
         /\ Trail(Prefixed(q, G), q, G)
<1> DEFINE Ok(r, H) == /\ Prefixed(r, H) \in Plans /\ r \in Seq(Event)
                       /\ Trail(Prefixed(r, H), r, H)
           D == { n \in Nat : \A r \in Seq(Calling), H \in Plans : Len(r) = n => Ok(r, H) }
<1>1. 0 \in D
  <2> SUFFICES ASSUME NEW r \in Seq(Calling), NEW H \in Plans, Len(r) = 0 PROVE Ok(r, H)
    OBVIOUS
  <2>1. r = <<>>
    <3>1. PICK C : C = Calling
      OBVIOUS
    <3>2. r \in Seq(C)
      BY <3>1
    <3> QED
      BY <3>2
  <2>2. Prefixed(<<>>, H) = H /\ <<>> \in Seq(Event)
    BY PrefixedIs, NoEvents
  <2>3. Trail(H, <<>>, H)
    BY TrailNone
  <2> HIDE DEF Plans, Event
  <2> QED
    BY <2>1, <2>2, <2>3
<1>2. ASSUME NEW n \in Nat, n \in D PROVE n + 1 \in D
  <2> SUFFICES ASSUME NEW r \in Seq(Calling), NEW H \in Plans, Len(r) = n + 1 PROVE Ok(r, H)
    OBVIOUS
  <2>1. PICK C : C = Calling
    OBVIOUS
  <2>2. PICK a \in Seq(C), x \in C : r = a \o <<x>> /\ Len(a) = n
    <3> DEFINE a == SubSeq(r, 1, n)
    <3>0. r \in Seq(C)
      BY <2>1
    <3>1. a \in Seq(C) /\ Len(a) = n /\ r[n + 1] \in C /\ r = a \o <<r[n + 1]>>
      BY <3>0
    <3> HIDE DEF a
    <3> QED
      BY <3>1
  <2>3. x \in Event /\ x[1] \in {"construct", "destruct"}
    BY <2>1 DEF Event, Calling
  <2>4. <<x>> \in Seq(Event)
    <3> HIDE DEF Event
    <3> QED
      BY <2>3
  <2>5. PICK K \in Plans : K = Prefixed(<<x>>, H)
    BY <2>4, PrefixedIs
  <2>6. Does(x, K, H)
    BY <2>3, <2>5 DEF Does
  <2>7. Trail(K, <<x>>, H)
    BY <2>6, TrailOne
  <2>8. Ok(a, K)
    BY <1>2, <2>1, <2>2
  <2>9. a \in Seq(Event) /\ Trail(Prefixed(a, K), a, K)
    BY <2>8
  <2>10. Trail(Prefixed(a, K), a \o <<x>>, H)
    <3>1. a \in Seq(Event)
      BY <2>9
    <3> QED
      BY <2>4, <2>7, <2>9, <3>1, TrailJoined
  <2>11. Prefixed(a, K) = Prefixed(a \o <<x>>, H)
    BY <2>4, <2>5, <2>9, PrefixedIs
  <2>12. a \o <<x>> \in Seq(Event)
    <3> HIDE DEF Event
    <3> QED
      BY <2>4, <2>9
  <2>13. Prefixed(a \o <<x>>, H) \in Plans
    BY <2>12, PrefixedIs
  <2> HIDE DEF Plans, Event
  <2> QED
    BY <2>2, <2>10, <2>11, <2>12, <2>13
<1>3. Nat \subseteq D
  <2> HIDE DEF D
  <2> QED
    BY <1>1, <1>2, Induction
<1>4. Len(q) \in Nat
  OBVIOUS
<1>5. Len(q) \in D
  BY <1>3, <1>4
<1>6. Ok(q, G)
  BY <1>5
<1> QED
  BY <1>6

\* What is done at the points of the function.
LEMMA PlansAre ==
  ASSUME BuilderType, TreeInv, NEW s \in DOMAIN scopes
  PROVE  /\ \A k \in Nat \ {0} : From(s, k) \in Plans
         /\ From(s, 1) \in Plans
         /\ \A out \in Outs : Gone(s, out) \in Plans
         /\ Done \in Plans
<1>1. \A p \in Inputs : p[2] \in Seq(BOOLEAN)
  BY DEF Inputs
<1>2. ASSUME NEW k \in Nat \ {0} PROVE From(s, k) \in Plans
  <2>1. \A p \in Inputs : Plan(s, k, p[2]) \in Courses
    BY <1>1, PlanIs
  <2> QED
    BY <2>1 DEF From, Plans
<1>3. ASSUME NEW out \in Outs PROVE Gone(s, out) \in Plans
  <2>1. \A p \in Inputs : go[<<s, p[2], out>>] \in Courses
    BY <1>1, PlanIs
  <2> QED
    BY <2>1 DEF Gone, Plans
<1>4. \A p \in Inputs : Run(<<>>, p[2], "next") \in Courses
  BY <1>1, NoEvents DEF Outs
<1>5. Done \in Plans
  BY <1>4 DEF Done, Plans
<1>6. 1 \in Nat \ {0}
  OBVIOUS
<1> QED
  BY <1>2, <1>3, <1>5, <1>6

\* They are equal when they are for every decisions to come.
LEMMA SamePlans ==
  ASSUME NEW s, NEW k, NEW c, NEW n, NEW out, NEW more, NEW x
  PROVE  /\ (\A d \in Seq(BOOLEAN) : Plan(s, k, d) = Plan(c, n, d)) => From(s, k) = From(c, n)
         /\ (\A d \in Seq(BOOLEAN) : go[<<s, d, out>>] = Plan(c, n, d)) => Gone(s, out) = From(c, n)
         /\ (\A d \in Seq(BOOLEAN) : go[<<s, d, out>>] = go[<<c, d, more>>]) => Gone(s, out) = Gone(c, more)
         /\ (\A d \in Seq(BOOLEAN) : go[<<s, d, out>>] = Run(<<>>, d, "next")) => Gone(s, out) = Done
         /\ (\A d \in Seq(BOOLEAN) : Plan(s, k, d) = Before(x, Plan(c, n, d)))
              => From(s, k) = Prefixed(x, From(c, n))
         /\ (\A d \in Seq(BOOLEAN) : Plan(s, k, d) = Before(x, go[<<c, d, out>>]))
              => From(s, k) = Prefixed(x, Gone(c, out))
         /\ (\A d \in Seq(BOOLEAN) : Plan(s, k, d) = Before(x, Run(<<>>, d, "next")))
              => From(s, k) = Prefixed(x, Done)
<1>1. \A p \in Inputs : p[2] \in Seq(BOOLEAN)
  BY DEF Inputs
<1>2. \A p \in Inputs : /\ From(c, n)[p] = Plan(c, n, p[2])
                        /\ Gone(c, out)[p] = go[<<c, p[2], out>>]
                        /\ Done[p] = Run(<<>>, p[2], "next")
  BY DEF From, Gone, Done
<1>3. (\A d \in Seq(BOOLEAN) : Plan(s, k, d) = Plan(c, n, d)) => From(s, k) = From(c, n)
  BY <1>1 DEF From
<1>4. (\A d \in Seq(BOOLEAN) : go[<<s, d, out>>] = Plan(c, n, d)) => Gone(s, out) = From(c, n)
  BY <1>1 DEF From, Gone
<1>5. (\A d \in Seq(BOOLEAN) : go[<<s, d, out>>] = go[<<c, d, more>>]) => Gone(s, out) = Gone(c, more)
  BY <1>1 DEF Gone
<1>6. (\A d \in Seq(BOOLEAN) : go[<<s, d, out>>] = Run(<<>>, d, "next")) => Gone(s, out) = Done
  BY <1>1 DEF Gone, Done
<1>7. (\A d \in Seq(BOOLEAN) : Plan(s, k, d) = Before(x, Plan(c, n, d)))
        => From(s, k) = Prefixed(x, From(c, n))
  BY <1>1, <1>2 DEF From, Prefixed
<1>8. (\A d \in Seq(BOOLEAN) : Plan(s, k, d) = Before(x, go[<<c, d, out>>]))
        => From(s, k) = Prefixed(x, Gone(c, out))
  BY <1>1, <1>2 DEF From, Gone, Prefixed
<1>9. (\A d \in Seq(BOOLEAN) : Plan(s, k, d) = Before(x, Run(<<>>, d, "next")))
        => From(s, k) = Prefixed(x, Done)
  BY <1>1, <1>2 DEF From, Done, Prefixed
<1> QED
  BY <1>3, <1>4, <1>5, <1>6, <1>7, <1>8, <1>9

\* What is to be done at each label, and which labels promise nothing.
LEMMA Landings ==
  /\ Landing(exit_label) = Done /\ ~ Idle(exit_label)
  /\ \A s : /\ Landing(begin_of_scope(s)) = From(s, 1) /\ ~ Idle(begin_of_scope(s))
            /\ Landing(end_of_scope(s)) = Gone(s, "next")
            /\ Landing(loop_end_of_scope(s)) = Gone(s, "break") /\ ~ Idle(loop_end_of_scope(s))
  /\ \A c \in DOMAIN scopes \ {main} : opener(c).op = "if" /\ else_branch(c) # {} => Idle(end_of_scope(c))
  /\ \A c : opener(c).op # "if" \/ else_branch(c) = {} => ~ Idle(end_of_scope(c))
<1>1. Landing(exit_label) = Done
  BY DEF Landing
<1>2. ASSUME NEW s
      PROVE  /\ begin_of_scope(s) # exit_label /\ begin_of_scope(s)[1] = "begin_of_scope"
             /\ begin_of_scope(s)[2] = s
             /\ end_of_scope(s) # exit_label /\ end_of_scope(s)[1] = "end_of_scope"
             /\ end_of_scope(s)[2] = s
             /\ loop_end_of_scope(s) # exit_label /\ loop_end_of_scope(s)[1] = "loop_end_of_scope"
             /\ loop_end_of_scope(s)[2] = s
             /\ \A c : /\ exit_label # end_of_scope(c) /\ begin_of_scope(s) # end_of_scope(c)
                       /\ loop_end_of_scope(s) # end_of_scope(c)
                       /\ end_of_scope(s) = end_of_scope(c) => s = c
  BY DEF begin_of_scope, end_of_scope, loop_end_of_scope, exit_label
<1>3. \A s : /\ Landing(begin_of_scope(s)) = From(s, 1)
             /\ Landing(end_of_scope(s)) = Gone(s, "next")
             /\ Landing(loop_end_of_scope(s)) = Gone(s, "break")
  BY <1>2 DEF Landing
<1>4. ~ Idle(exit_label) /\ \A s : ~ Idle(begin_of_scope(s)) /\ ~ Idle(loop_end_of_scope(s))
  BY <1>2 DEF Idle
<1>5. \A c \in DOMAIN scopes \ {main} : opener(c).op = "if" /\ else_branch(c) # {} => Idle(end_of_scope(c))
  BY DEF Idle
<1>6. ASSUME NEW c, opener(c).op # "if" \/ else_branch(c) = {}, Idle(end_of_scope(c)) PROVE FALSE
  <2>1. PICK b \in DOMAIN scopes \ {main} :
          opener(b).op = "if" /\ else_branch(b) # {} /\ end_of_scope(c) = end_of_scope(b)
    BY <1>6 DEF Idle
  <2>2. b = c
    BY <1>2, <2>1
  <2> QED
    BY <1>6, <2>1, <2>2
<1> QED
  BY <1>1, <1>3, <1>4, <1>5, <1>6

\* Where the code is when the compiler comes to an instruction: an else is entered from its if
\* when the condition is not met.
Arrives(s, n) == IF n \in DOMAIN instructions(s) /\ instructions(s)[n].op = "else"
                 THEN From(instructions(s)[n].arg, 1) ELSE From(s, n)
Here(st) == IF st = <<>> THEN Done ELSE Arrives(st[1].scope, st[1].iterating + 1)

\* else_branch looks for the instruction before it.
ElseLater == \A s \in DOMAIN scopes : 1 \in DOMAIN instructions(s) => instructions(s)[1].op # "else"

\* What the compiler has still to emit code for when it comes to an instruction.
LEMMA ArrivesIs ==
  ASSUME BuilderType, TreeInv, ElseLater, Regular, NEW s \in DOMAIN scopes
  PROVE  /\ \A n \in Nat \ {0} : Arrives(s, n) \in Plans
         /\ Arrives(s, 1) = From(s, 1)
         /\ \A n : n \notin DOMAIN instructions(s) => Arrives(s, n) = From(s, n)
         /\ \A n \in DOMAIN instructions(s) :
              /\ instructions(s)[n].op # "else" => Arrives(s, n) = From(s, n)
              /\ instructions(s)[n].op = "else" => Arrives(s, n) = From(instructions(s)[n].arg, 1)
              /\ instructions(s)[n].op # "if" => Arrives(s, n + 1) = From(s, n + 1)
<1>1. \A n : n \notin DOMAIN instructions(s) => Arrives(s, n) = From(s, n)
  BY Zenon DEF Arrives
<1>2. \A n \in DOMAIN instructions(s) :
        /\ instructions(s)[n].op # "else" => Arrives(s, n) = From(s, n)
        /\ instructions(s)[n].op = "else" => Arrives(s, n) = From(instructions(s)[n].arg, 1)
  BY Zenon DEF Arrives
<1>3. Arrives(s, 1) = From(s, 1)
  BY <1>1, <1>2 DEF ElseLater
<1>4. ASSUME NEW n \in Nat \ {0} PROVE Arrives(s, n) \in Plans
  <2>1. CASE n \in DOMAIN instructions(s) /\ instructions(s)[n].op = "else"
    <3>1. PICK ins : ins = instructions(s)[n]
      OBVIOUS
    <3>2. ins.arg \in DOMAIN scopes
      BY <2>1, <3>1, InstructionIs
    <3>3. PICK c \in DOMAIN scopes : c = ins.arg
      BY <3>2
    <3>4. From(c, 1) \in Plans
      BY PlansAre
    <3> QED
      BY <1>2, <2>1, <3>1, <3>3, <3>4
  <2>2. CASE ~ (n \in DOMAIN instructions(s) /\ instructions(s)[n].op = "else")
    <3>1. From(s, n) \in Plans
      BY PlansAre
    <3> QED
      BY <1>1, <1>2, <2>2, <3>1
  <2> QED
    BY <2>1, <2>2
<1>5. ASSUME NEW n \in DOMAIN instructions(s), instructions(s)[n].op # "if"
      PROVE  Arrives(s, n + 1) = From(s, n + 1)
  <2>1. PICK m : m = n + 1
    OBVIOUS
  <2>2. n \in Nat /\ m - 1 = n
    BY <2>1, ScopeTyped DEF BuilderType
  <2>3. ASSUME m \in DOMAIN instructions(s), instructions(s)[m].op = "else" PROVE FALSE
    <3>1. PICK ins : ins = instructions(s)[m]
      OBVIOUS
    <3>2. /\ ins.arg \in DOMAIN scopes \ {main} /\ scopes[ins.arg].parent_scope = s
          /\ scopes[ins.arg].opener = m /\ opener(ins.arg) = ins
      BY <2>3, <3>1, InstructionIs
    <3>3. ElsesFollowIfs(ins.arg)
      BY <3>2 DEF Regular
    <3>4. instructions(s)[m - 1].op = "if"
      BY <2>3, <3>1, <3>2, <3>3 DEF ElsesFollowIfs
    <3> QED
      BY <1>5, <2>2, <3>4
  <2>4. Arrives(s, m) = From(s, m)
    BY <1>1, <1>2, <2>3
  <2> QED
    BY <2>1, <2>4
<1> QED
  BY <1>1, <1>2, <1>3, <1>4, <1>5

\* A scope left: what the code does at its end is what it does at the instruction after it.
LEMMA ScopeLeft ==
  ASSUME BuilderType, TreeInv, ElseLater, Regular, NEW c \in DOMAIN scopes, c # main,
         NEW s, s = scopes[c].parent_scope, NEW k, k = scopes[c].opener
  PROVE  /\ IsLoop(c) => /\ Gone(c, "next") = From(s, k) /\ Gone(c, "break") = From(s, k + 1)
                         /\ Arrives(s, k + 1) = From(s, k + 1)
         /\ ~ IsLoop(c) => Gone(c, "next") = From(s, k + 1)
         /\ opener(c).op # "if" \/ else_branch(c) = {} => Arrives(s, k + 1) = From(s, k + 1)
         /\ opener(c).op = "if" =>
              \A e \in else_branch(c) : /\ e \in DOMAIN scopes \ {main} /\ opener(e).op = "else"
                                        /\ Gone(c, "next") = Gone(e, "next")
<1>1. /\ s \in DOMAIN scopes /\ k \in DOMAIN instructions(s) /\ opener(c) = instructions(s)[k]
      /\ scopes[c].parent_scope = s /\ scopes[c].opener = k
  BY DEF TreeInv, ParentInv, opener
<1>2. k \in Nat \ {0}
  BY <1>1, ScopeTyped DEF BuilderType
<1>3. \A d \in Seq(BOOLEAN) : Ending(c, s, k, d)
  BY GoEnds
<1>4. ASSUME IsLoop(c)
      PROVE  Gone(c, "next") = From(s, k) /\ Gone(c, "break") = From(s, k + 1)
  <2>1. \A d \in Seq(BOOLEAN) : go[<<c, d, "next">>] = Plan(s, k, d) /\ go[<<c, d, "break">>] = Plan(s, k + 1, d)
    BY <1>3, <1>4, Zenon DEF Ending
  <2>2. Gone(c, "next") = From(s, k)
    BY <2>1 DEF Gone, From, Inputs
  <2>3. Gone(c, "break") = From(s, k + 1)
    BY <2>1 DEF Gone, From, Inputs
  <2> QED
    BY <2>2, <2>3
<1>5. ASSUME ~ IsLoop(c) PROVE Gone(c, "next") = From(s, k + 1)
  <2>1. \A d \in Seq(BOOLEAN) : go[<<c, d, "next">>] = Plan(s, k + 1, d)
    BY <1>3, <1>5, Zenon DEF Ending
  <2> QED
    BY <2>1 DEF Gone, From, Inputs
<1>6. ASSUME opener(c).op # "if" \/ else_branch(c) = {} PROVE Arrives(s, k + 1) = From(s, k + 1)
  <2>1. CASE opener(c).op # "if"
    BY <1>1, <2>1, ArrivesIs
  <2>2. CASE else_branch(c) = {}
    <3>1. ~ (k + 1 \in DOMAIN instructions(s) /\ instructions(s)[k + 1].op = "else")
      BY <1>1, <2>2, ElseOf
    <3> QED
      BY <3>1, Zenon DEF Arrives
  <2> QED
    BY <1>6, <2>1, <2>2
<1>7. ASSUME opener(c).op = "if", NEW e \in else_branch(c)
      PROVE  /\ e \in DOMAIN scopes \ {main} /\ opener(e).op = "else"
             /\ Gone(c, "next") = Gone(e, "next")
  <2>1. /\ e \in DOMAIN scopes /\ e # main /\ opener(e).op = "else"
        /\ scopes[e].parent_scope = s /\ scopes[e].opener = k + 1
    BY ElseIs
  <2>2. ~ IsLoop(c) /\ ~ IsLoop(e)
    BY <1>7, <2>1 DEF IsLoop
  <2>3. PICK n : n = k + 1
    OBVIOUS
  <2>4. n \in DOMAIN instructions(s) /\ instructions(s)[n].op = "else"
    BY <2>1, <2>3 DEF TreeInv, ParentInv, opener
  <2>5. \A d \in Seq(BOOLEAN) : go[<<e, d, "next">>] = Plan(s, n + 1, d)
    <3>1. \A d \in Seq(BOOLEAN) : Ending(e, s, n, d)
      BY <2>1, <2>3, GoEnds
    <3> QED
      BY <2>2, <3>1, Zenon DEF Ending
  <2>6. \A d \in Seq(BOOLEAN) : Plan(s, n, d) = Plan(s, n + 1, d)
    <3>1. PICK ins : ins = instructions(s)[n]
      OBVIOUS
    <3>2. \A d \in Seq(BOOLEAN) : Stepping(s, n, ins, d)
      BY <1>1, <2>4, <3>1, PlanSteps
    <3>3. ins.op = "else"
      BY <2>4, <3>1
    <3> QED
      BY <3>2, <3>3 DEF Stepping
  <2>7. Gone(e, "next") = From(s, n + 1)
    BY <2>5 DEF Gone, From, Inputs
  <2>8. From(s, n) = From(s, n + 1)
    BY <2>6, SamePlans
  <2> QED
    BY <1>5, <2>1, <2>2, <2>3, <2>7, <2>8
<1>8. IsLoop(c) => opener(c).op # "if"
  BY DEF IsLoop
<1> QED
  BY <1>4, <1>5, <1>6, <1>7, <1>8

\* A break in a loop goes on as the innermost loop does when it is left: between the two there is
\* nothing to destroy.
LEMMA BreakGoes ==
  ASSUME BuilderType, TreeInv, Calm, NEW st, StackInv(st), NEW lp, LoopInv(st, lp),
         st # <<>>, lp # <<>>, Has(st[1].scope, "break")
  PROVE  /\ Head(lp) \in DOMAIN scopes /\ IsLoop(Head(lp))
         /\ \A d \in Seq(BOOLEAN) : go[<<st[1].scope, d, "break">>] = go[<<Head(lp), d, "break">>]
<1>1. PICK k \in DOMAIN st :
        /\ IsLoop(st[k].scope) /\ Head(lp) = st[k].scope
        /\ \A j \in DOMAIN st : j < k =>
             /\ ~ IsLoop(st[j].scope)
             /\ Variables(scopes[st[j].scope].parent_scope, scopes[st[j].scope].opener) = <<>>
  BY BreakLeaves
<1>2. /\ Len(st) \in Nat /\ DOMAIN st = 1 .. Len(st) /\ 1 \in DOMAIN st
      /\ \A m \in DOMAIN st : st[m].scope \in DOMAIN scopes /\ st[m].iterating \in Nat /\ m \in Nat
  BY FrameIs
<1> DEFINE Same(m) == \A d \in Seq(BOOLEAN) :
                        go[<<st[m].scope, d, "break">>] = go[<<st[k].scope, d, "break">>]
           D == { n \in Nat : k - n \in DOMAIN st => Same(k - n) }
<1>3. 0 \in D
  <2>1. k - 0 = k
    BY <1>2
  <2> QED
    BY <2>1
<1>4. ASSUME NEW n \in Nat, n \in D PROVE n + 1 \in D
  <2>1. PICK j : j = k - (n + 1)
    OBVIOUS
  <2> SUFFICES ASSUME j \in DOMAIN st PROVE Same(j)
    BY <2>1
  <2>2. j + 1 = k - n /\ j + 1 \in DOMAIN st /\ j < k
    BY <1>2, <2>1
  <2>3. Same(j + 1)
    BY <1>4, <2>2
  <2>4. PICK c, p, o : /\ c \in DOMAIN scopes /\ c = st[j].scope /\ c # main
                      /\ p = scopes[c].parent_scope /\ p = st[j + 1].scope
                      /\ o = scopes[c].opener
    <3>1. OpenedAt(st[j].scope, st[j + 1])
      BY <2>2 DEF StackInv
    <3> QED
      BY <1>2, <3>1 DEF OpenedAt
  <2>5. ~ IsLoop(c) /\ Variables(p, o) = <<>>
    BY <1>1, <2>2, <2>4
  <2>6. p \in DOMAIN scopes /\ o \in Nat
    <3>1. p \in DOMAIN scopes /\ o \in DOMAIN instructions(p)
      <4>1. ParentInv(c)
        BY <2>4 DEF TreeInv
      <4> QED
        BY <2>4, <4>1 DEF ParentInv
    <3> QED
      BY <3>1, ScopeTyped DEF BuilderType
  <2>7. Destroyed(p, o) = <<>>
    BY <2>5, <2>6, DestroyedIs
  <2>8. ASSUME NEW d \in Seq(BOOLEAN)
        PROVE  go[<<c, d, "break">>] = go[<<p, d, "break">>]
    <3>1. go[<<c, d, "break">>] = Before(Destroyed(p, o), go[<<p, d, "break">>])
      <4>1. c \in DOMAIN scopes /\ c # main /\ p = scopes[c].parent_scope /\ o = scopes[c].opener
        BY <2>4
      <4>2. Ending(c, p, o, d)
        BY <4>1, GoEnds
      <4> QED
        BY <2>5, <4>2, Zenon DEF Ending
    <3>2. PICK x \in Courses : x = go[<<p, d, "break">>]
      BY <2>6, PlanIs DEF Outs
    <3>3. Before(<<>>, x) = x
      BY BeforeIs, NoEvents
    <3> QED
      BY <2>7, <3>1, <3>2, <3>3
  <2> QED
    BY <2>3, <2>4, <2>8
<1>5. Nat \subseteq D
  <2> HIDE DEF D
  <2> QED
    BY <1>3, <1>4, Induction
<1>6. k - 1 \in Nat /\ k - (k - 1) = 1
  BY <1>2
<1>7. k - 1 \in D
  BY <1>5, <1>6
<1>8. Same(1)
  BY <1>2, <1>6, <1>7
<1> QED
  BY <1>1, <1>2, <1>8

\* A scope is in a loop when the stack of loops is not empty.
LEMMA LoopsAround ==
  ASSUME BuilderType, TreeInv, NEW st, StackInv(st), NEW lp, LoopInv(st, lp), st # <<>>
  PROVE  InLoop(st[1].scope) <=> lp # <<>>
<1>1. PICK place : Nesting(st, lp, place)
  BY DEF LoopInv
<1>2. Len(st) \in Nat /\ DOMAIN st = 1 .. Len(st) /\ 1 \in DOMAIN st
  BY FrameIs
<1>3. ancestors[st[1].scope] = { st[j].scope : j \in DOMAIN st }
  <2>1. { m \in DOMAIN st : 1 <= m } = DOMAIN st
    BY <1>2
  <2>2. ancestors[st[1].scope] = { st[j].scope : j \in { m \in DOMAIN st : 1 <= m } }
    BY <1>2, StackAncestors
  <2> QED
    BY <2>1, <2>2
<1>4. InLoop(st[1].scope) <=> \E j \in DOMAIN st : IsLoop(st[j].scope)
  BY <1>3 DEF InLoop
<1>5. lp \in Seq(DOMAIN scopes) /\ (lp # <<>> <=> 1 \in DOMAIN lp)
  <2>1. lp \in Seq(DOMAIN scopes)
    BY DEF LoopInv
  <2> QED
    BY <2>1
<1>6. ASSUME lp # <<>> PROVE \E j \in DOMAIN st : IsLoop(st[j].scope)
  BY <1>1, <1>5, <1>6 DEF Nesting, LoopsOf
<1>7. ASSUME NEW j \in DOMAIN st, IsLoop(st[j].scope) PROVE lp # <<>>
  <2>1. PICK n \in DOMAIN lp : place[n] = j
    BY <1>1, <1>7 DEF Nesting, LoopsOf
  <2>2. DOMAIN <<>> = {}
    OBVIOUS
  <2> QED
    BY <2>1, <2>2
<1> QED
  BY <1>4, <1>6, <1>7

\* A return destroys what every scope on the stack declares up to where it was left, from the
\* innermost to main, and ends the function.
LEMMA ReturnGoes ==
  ASSUME BuilderType, TreeInv, Regular, NEW st, StackInv(st), st # <<>>,
         NEW s, s = st[1].scope, NEW n, n = st[1].iterating,
         n \in DOMAIN instructions(s), instructions(s)[n].op = "return",
         NEW d \in Seq(BOOLEAN), NEW list,
         list = [k \in DOMAIN st |-> Destructors(st[k].scope, st[k].iterating)]
  PROVE  Plan(s, n, d) = Before(FlattenSeq(list), Run(<<>>, d, "next"))
<1>1. /\ Len(st) \in Nat \ {0} /\ DOMAIN st = 1 .. Len(st) /\ 1 \in DOMAIN st
      /\ \A m \in DOMAIN st : st[m].scope \in DOMAIN scopes /\ st[m].iterating \in Nat /\ m \in Nat
  BY FrameIs
<1>0. Plan(s, n, d) = Before(Destroyed(s, n), go[<<s, d, "return">>])
  <2>1. PICK t \in DOMAIN scopes : t = s
    BY <1>1
  <2>2. PICK k \in DOMAIN instructions(t) : k = n
    BY <2>1
  <2>3. PICK ins : ins = instructions(t)[k]
    OBVIOUS
  <2>4. ins.op = "return"
    BY <2>1, <2>2, <2>3
  <2>5. ins.op = "return" => Plan(t, k, d) = Before(Destroyed(t, k), go[<<t, d, "return">>])
    BY <2>3, PlanSteps, Zenon DEF Stepping
  <2> QED
    BY <2>1, <2>2, <2>4, <2>5
<1> DEFINE size == Len(st)
           C == Seq(Destruction)
<1>2. \A k \in DOMAIN st : list[k] = Destructors(st[k].scope, st[k].iterating) /\ list[k] \in C
  BY <1>1, DestructorsAre DEF Destruction
<1>3. list \in Seq(Seq(Destruction)) /\ Len(list) = size /\ list # <<>>
  <2>1. list \in [1 .. size -> C] /\ size \in Nat /\ size # 0
    <3>1. list = [k \in 1 .. size |-> list[k]]
      BY <1>1
    <3> HIDE DEF C
    <3> QED
      BY <1>1, <1>2, <3>1
  <2> HIDE DEF C, size
  <2>2. list \in Seq(C) /\ Len(list) = size /\ list # <<>>
    BY <2>1
  <2> QED
    BY <2>2 DEF C
<1>4. PICK g : /\ IsFlat(g, list) /\ FlattenSeq(list) = g[Len(list)]
               /\ \A m \in 1 .. Len(list) : g[m] \in Seq(Destruction)
  BY <1>3, FlatIs
<1>5. \A m \in 1 .. size : /\ g[m] = IF m = 1 THEN list[m] ELSE g[m - 1] \o list[m]
                           /\ g[m] \in Seq(Event) /\ list[m] \in Seq(Event)
  <2>1. \A m \in 1 .. size : g[m] = IF m = 1 THEN list[m] ELSE g[m - 1] \o list[m]
    BY <1>3, <1>4, Zenon DEF IsFlat
  <2>2. \A m \in 1 .. size : g[m] \in Seq(Event) /\ list[m] \in Seq(Event)
    BY <1>1, <1>2, <1>3, <1>4, DestructionsHappen
  <2> QED
    BY <2>1, <2>2
<1>6. \A c \in DOMAIN scopes : go[<<c, d, "return">>] \in Courses
  BY PlanIs DEF Outs
<1> DEFINE Left(m) == Plan(s, n, d) = Before(g[m], go[<<st[m].scope, d, "return">>])
           D == { m \in Nat : m + 1 \in 1 .. size => Left(m + 1) }
<1>7. 0 \in D
  <2>1. 0 + 1 = 1 /\ 1 \in 1 .. size
    BY <1>1
  <2>2. s \in DOMAIN scopes /\ n \in Nat
    BY <1>1
  <2>4. Plan(s, n, d) = Before(Destroyed(s, n), go[<<s, d, "return">>])
    BY <1>0
  <2>5. ConstructedAtOnce(s)
    BY <2>2 DEF Regular
  <2>6. Destroyed(s, n) = Destructors(s, n)
    BY <2>2, <2>5, DestroyedAtOnce
  <2>7. g[1] = Destructors(s, n)
    BY <1>1, <1>2, <1>5, <2>1
  <2> QED
    BY <2>1, <2>4, <2>6, <2>7
<1>8. ASSUME NEW m \in Nat, m \in D PROVE m + 1 \in D
  <2>1. PICK j \in Nat : j = m + 1 /\ j # 0
    OBVIOUS
  <2> SUFFICES ASSUME j + 1 \in 1 .. size PROVE Left(j + 1)
    BY <2>1
  <2>2. j \in 1 .. size /\ j \in DOMAIN st /\ j + 1 \in DOMAIN st /\ j + 1 # 1 /\ (j + 1) - 1 = j
    BY <1>1, <2>1
  <2>3. Left(j)
    BY <1>8, <2>1, <2>2
  <2>4. PICK c \in DOMAIN scopes, p \in DOMAIN scopes, o \in Nat :
          /\ c = st[j].scope /\ c # main
          /\ p = st[j + 1].scope /\ o = st[j + 1].iterating
          /\ scopes[c].parent_scope = p /\ scopes[c].opener = o
    <3>1. OpenedAt(st[j].scope, st[j + 1])
      BY <2>2 DEF StackInv
    <3> QED
      BY <1>1, <2>2, <3>1 DEF OpenedAt
  <2>5. o \in DOMAIN instructions(p) /\ instructions(p)[o].op \in Opening
    <3>1. ParentInv(c)
      BY <2>4 DEF TreeInv
    <3> QED
      BY <2>4, <3>1 DEF ParentInv, opener
  <2>6. go[<<c, d, "return">>] = Before(Destroyed(p, o), go[<<p, d, "return">>])
    <3>1. Ending(c, p, o, d)
      BY <2>4, GoEnds
    <3> QED
      BY <3>1, Zenon DEF Ending
  <2>7. Destroyed(p, o) = list[j + 1]
    <3>1. ConstructedAtOnce(p)
      BY DEF Regular
    <3>2. instructions(p)[o].op \notin {"declare", "construct"}
      BY <2>5 DEF Opening, Branch
    <3>3. Destroyed(p, o) = Destructors(p, o)
      BY <2>5, <3>1, <3>2, DestroyedAtOnce
    <3> QED
      BY <1>2, <2>2, <2>4, <3>3
  <2>8. PICK x \in Courses, a \in Seq(Event), b \in Seq(Event) :
          x = go[<<p, d, "return">>] /\ a = g[j] /\ b = list[j + 1]
    BY <1>5, <1>6, <2>2
  <2>9. g[j + 1] = a \o b
    BY <1>5, <2>2, <2>8
  <2>10. Before(a, Before(b, x)) = Before(a \o b, x)
    BY BeforeIs
  <2> QED
    BY <2>3, <2>4, <2>6, <2>7, <2>8, <2>9, <2>10
<1>9. Nat \subseteq D
  <2> HIDE DEF D
  <2> QED
    BY <1>7, <1>8, Induction
<1>10. PICK e : e = size - 1 /\ e \in Nat /\ e + 1 = size /\ e + 1 \in 1 .. size
  BY <1>1
<1>11. Left(size)
  <2>1. e \in D
    <3> HIDE DEF D
    <3> QED
      BY <1>9, <1>10
  <2> QED
    BY <1>10, <2>1
<1>12. st[size].scope = main
  BY DEF StackInv
<1>13. go[<<main, d, "return">>] = Run(<<>>, d, "next")
  <2>1. main \in DOMAIN scopes
    BY DEF TreeInv
  <2> QED
    BY <2>1, GoEnds
<1> QED
  BY <1>3, <1>4, <1>11, <1>12, <1>13

\* A label is bound where its plan is what is to be done.
LEMMA DoesBind ==
  ASSUME NEW l, NEW F, Idle(l) \/ F = Landing(l)
  PROVE  Does(<<"bind", l>>, F, F)
<1> PICK ins : ins = <<"bind", l>>
  OBVIOUS
<1>1. ins[1] = "bind" /\ ins[2] = l
  OBVIOUS
<1> QED
  BY <1>1 DEF Does

\* A jump leads to where its plan is what is to be done, whatever code comes after it.
LEMMA DoesJump ==
  ASSUME NEW l, NEW F, NEW G, ~ Idle(l), F = Landing(l)
  PROVE  Does(<<"jmp", l>>, F, G)
<1> PICK ins : ins = <<"jmp", l>>
  OBVIOUS
<1>1. ins[1] = "jmp" /\ ins[2] = l
  OBVIOUS
<1> QED
  BY <1>1 DEF Does

\* Two instructions.
LEMMA Paired ==
  ASSUME NEW S, NEW x \in S, NEW y \in S
  PROVE  <<x>> \o <<y>> = <<x, y>>
<1> DEFINE a == <<x>> \o <<y>>
           b == <<x, y>>
<1>1. /\ a \in Seq(S) /\ b \in Seq(S) /\ DOMAIN a = 1 .. 2 /\ DOMAIN b = 1 .. 2
      /\ a[1] = x /\ a[2] = y /\ b[1] = x /\ b[2] = y
  OBVIOUS
<1> HIDE DEF a, b
<1>2. \A k \in 1 .. 2 : a[k] = b[k]
  BY <1>1
<1>3. a = b
  BY <1>1, <1>2
<1> QED
  BY <1>3 DEF a, b

\* Calls of destructors are instructions.
LEMMA DestructorsCall ==
  ASSUME NEW q \in Seq({"destruct"} \X (Nat \X Nat))
  PROVE  q \in Seq(Calling) /\ q \in Seq(Emitted)
<1>1. {"destruct"} \X (Nat \X Nat) \subseteq Calling
  BY DEF Calling
<1> DEFINE X == {"destruct"} \X (Nat \X Nat)
<1>2. q \in Seq(X)
  OBVIOUS
<1> HIDE DEF X
<1>3. X \subseteq Calling
  BY <1>1 DEF X
<1>4. q \in Seq(Calling)
  <2> HIDE DEF Calling
  <2> QED
    BY <1>2, <1>3
<1> QED
  BY <1>4, CallsEmitted

\* What an instruction of the function compiles to follows the code before it.
LEMMA EmitsTrail ==
  ASSUME CompilingInv, ElseLater, Regular, scope_stack # <<>>,
         Trail(From(main, 1), code, Here(scope_stack)),
         NEW list \in Seq(Emitted), Emit(list), NEW G, Trail(Arrives(TopScope, TopNext), list, G)
  PROVE  Trail(From(main, 1), code', G)
<1>1. BuilderType /\ TreeInv /\ StackInv(scope_stack) /\ code \in Seq(Emitted)
  BY DEF CompilingInv
<1>2. /\ current.scope = TopScope /\ i = TopNext /\ Begin \in Seq(Emitted)
      /\ TopScope \in DOMAIN scopes /\ TopNext \in Nat \ {0}
  BY TopSteps
<1>3. PICK H \in Plans : H = Arrives(TopScope, TopNext) /\ H = Here(scope_stack)
  <2>1. Arrives(TopScope, TopNext) \in Plans
    BY <1>1, <1>2, ArrivesIs
  <2> QED
    BY <2>1 DEF Here, TopScope, TopNext
<1>4. Trail(H, Begin, H)
  <2>1. CASE IsBranch(TopScope) /\ TopNext = 1
    <3>1. H = From(TopScope, 1)
      BY <1>1, <1>2, <1>3, <2>1, ArrivesIs
    <3>2. H = Landing(begin_of_scope(TopScope))
      BY <3>1, Landings
    <3> DEFINE x == <<"bind", begin_of_scope(TopScope)>>
    <3>3. Does(x, H, H)
      BY <3>2, DoesBind
    <3>4. Begin = <<x>>
      BY <1>2, <2>1 DEF Begin
    <3> HIDE DEF x
    <3> QED
      BY <3>3, <3>4, TrailOne
  <2>2. CASE ~ (IsBranch(TopScope) /\ TopNext = 1)
    <3>1. Begin = <<>>
      BY <1>2, <2>2 DEF Begin
    <3> QED
      BY <3>1, TrailNone
  <2> QED
    BY <2>1, <2>2
<1>5. PICK E : E = Emitted
  OBVIOUS
<1>6. PICK a \in Seq(E), b \in Seq(E), c \in Seq(E) : a = code /\ b = Begin /\ c = list
  BY <1>1, <1>2, <1>5
<1>7. Trail(From(main, 1), a \o b, H)
  BY <1>3, <1>4, <1>6, TrailJoined
<1>8. a \o b \in Seq(E)
  OBVIOUS
<1>9. Trail(From(main, 1), (a \o b) \o c, G)
  <2>1. PICK q \in Seq(E) : q = a \o b
    BY <1>8
  <2>2. Trail(From(main, 1), q, H) /\ Trail(H, c, G)
    BY <1>3, <1>6, <1>7, <2>1
  <2>3. Trail(From(main, 1), q \o c, G)
    BY <2>2, TrailJoined
  <2> QED
    BY <2>1, <2>3
<1> QED
  BY <1>6, <1>9 DEF Emit

\* The steps that move on within a scope.
LEMMA TrailContinues ==
  ASSUME CompilingInv, ElseLater, Regular, Trail(From(main, 1), code, Here(scope_stack)),
         Declare \/ Construct \/ Break, NEW st2, st2 = scope_stack'
  PROVE  Trail(From(main, 1), code', Here(st2))
<1>1. /\ scope_stack # <<>> /\ Continue /\ ~ Ends
      /\ instruction.op \in {"declare", "construct", "break"}
      /\ Declare => instruction.op = "declare"
      /\ Construct => instruction.op = "construct"
      /\ Break => instruction.op = "break"
  BY DEF Declare, Construct, Break, Visits
<1>2. BuilderType /\ TreeInv /\ StackInv(scope_stack) /\ LoopInv(scope_stack, loop_stack)
  BY DEF CompilingInv
<1>3. PICK s \in DOMAIN scopes, n \in Nat \ {0} : s = TopScope /\ n = TopNext
  BY <1>1, TopSteps
<1>4. PICK ins : ins = instructions(s)[n]
  OBVIOUS
<1>5. /\ current.scope = s /\ i = n /\ instruction = ins /\ n \in DOMAIN instructions(s)
      /\ Moves(scope_stack, st2)
      /\ s = scope_stack[1].scope /\ n = scope_stack[1].iterating + 1
  <2>1. /\ current.scope = s /\ i = n /\ instruction = ins /\ n \in DOMAIN instructions(s)
        /\ Moves(scope_stack, st2)
    BY <1>1, <1>3, <1>4, TopSteps DEF TopIns
  <2> QED
    BY <1>3, <2>1 DEF TopScope, TopNext
<1>6. Here(st2) = From(s, n + 1) /\ Arrives(TopScope, TopNext) = From(s, n)
  <2>1. st2[1].scope = s /\ st2[1].iterating = n /\ st2 # <<>>
    <3>1. st2[1].scope = s /\ st2[1].iterating = n /\ DOMAIN st2 = DOMAIN scope_stack /\ 1 \in DOMAIN st2
      BY <1>2, <1>5, MovesIs
    <3> QED
      BY <3>1
  <2>2. ins.op # "if" /\ ins.op # "else"
    BY <1>1, <1>5
  <2>3. Arrives(s, n) = From(s, n) /\ Arrives(s, n + 1) = From(s, n + 1)
    BY <1>2, <1>4, <1>5, <2>2, ArrivesIs
  <2> QED
    BY <1>3, <2>1, <2>3 DEF Here
<1>7. PICK F \in Plans, G \in Plans : F = From(s, n) /\ G = From(s, n + 1)
  <2>1. n + 1 \in Nat \ {0}
    OBVIOUS
  <2>2. From(s, n) \in Plans /\ From(s, n + 1) \in Plans
    BY <1>2, <2>1, PlansAre
  <2> QED
    BY <2>2
<1>8. ASSUME NEW list \in Seq(Emitted), Emit(list), Trail(F, list, G)
      PROVE  Trail(From(main, 1), code', Here(st2))
  BY <1>1, <1>6, <1>7, <1>8, EmitsTrail
<1>9. ASSUME Emit(<<>>), F = G PROVE Trail(From(main, 1), code', Here(st2))
  <2>1. <<>> \in Seq(Emitted) /\ Trail(F, <<>>, G)
    BY <1>9, NoneEmitted, TrailNone
  <2> QED
    BY <1>8, <1>9, <2>1
<1>10. \A d \in Seq(BOOLEAN) :
         /\ ins.op = "declare" \/ (ins.op = "break" /\ ~ InLoop(s)) => Plan(s, n, d) = Plan(s, n + 1, d)
         /\ ins.op = "construct" =>
              Plan(s, n, d) = Before(<< <<"construct", <<s, ins.arg>>>> >>, Plan(s, n + 1, d))
         /\ ins.op = "break" /\ InLoop(s) =>
              Plan(s, n, d) = Before(Destroyed(s, n), go[<<s, d, "break">>])
  <2>1. \A d \in Seq(BOOLEAN) : Stepping(s, n, ins, d)
    BY <1>2, <1>4, <1>5, PlanSteps
  <2> QED
    BY <2>1, Zenon DEF Stepping
<1>11. CASE Declare
  <2>1. Emit(<<>>) /\ ins.op = "declare"
    BY <1>1, <1>5, <1>11 DEF Declare
  <2>2. From(s, n) = From(s, n + 1)
    BY <1>10, <2>1 DEF From, Inputs
  <2> QED
    BY <1>7, <1>9, <2>1, <2>2
<1>12. CASE Construct
  <2> DEFINE x == <<"construct", <<s, ins.arg>>>>
  <2>1. Emit(<<x>>) /\ ins.op = "construct"
    BY <1>1, <1>5, <1>12 DEF Construct
  <2>2. From(s, n) = Prefixed(<<x>>, From(s, n + 1))
    <3>1. \A d \in Seq(BOOLEAN) : Plan(s, n, d) = Before(<<x>>, Plan(s, n + 1, d))
      BY <1>10, <2>1
    <3> HIDE DEF x
    <3> QED
      BY <3>1 DEF From, Prefixed, Inputs
  <2>3. x \in Calling /\ x \in Emitted
    <3>1. ins.arg \in Nat /\ s \in Nat
      BY <1>2, <1>4, <1>5, InstructionIs
    <3> QED
      BY <3>1 DEF Emitted, Calling
  <2>4. PICK q : q = <<x>>
    OBVIOUS
  <2> HIDE DEF x
  <2>5. q \in Seq(Emitted) /\ q \in Seq(Calling)
    BY <2>3, <2>4, OneEmitted
  <2>6. Trail(F, q, G)
    BY <1>7, <2>2, <2>4, <2>5, TrailCalls
  <2> QED
    BY <1>8, <2>1, <2>4, <2>5, <2>6
<1>13. CASE Break
  <2>0. ins.op = "break" /\ (InLoop(s) <=> loop_stack # <<>>)
    BY <1>1, <1>2, <1>5, <1>13, LoopsAround
  <2>1. CASE loop_stack = <<>>
    <3>1. Emit(<<>>)
      BY <1>13, <2>1 DEF Break
    <3>2. From(s, n) = From(s, n + 1)
      BY <1>10, <2>0, <2>1 DEF From, Inputs
    <3> QED
      BY <1>7, <1>9, <3>1, <3>2
  <2>2. CASE loop_stack # <<>>
    <3> DEFINE h == Head(loop_stack)
               x == <<"jmp", loop_end_of_scope(h)>>
    <3>1. PICK a : a = Destructors(s, n)
      OBVIOUS
    <3>2. Emit(a \o <<x>>)
      BY <1>5, <1>13, <2>2, <3>1 DEF Break
    <3>3. /\ h \in DOMAIN scopes
          /\ \A d \in Seq(BOOLEAN) : go[<<s, d, "break">>] = go[<<h, d, "break">>]
      <4>1. Calm /\ Has(scope_stack[1].scope, "break")
        BY <1>4, <1>5, <2>0 DEF Regular, Calm, Has
      <4> QED
        BY <1>1, <1>2, <1>5, <2>2, <4>1, BreakGoes
    <3>4. Destroyed(s, n) = a
      <4>1. ConstructedAtOnce(s)
        BY DEF Regular
      <4> QED
        BY <1>2, <1>4, <1>5, <2>0, <3>1, <4>1, DestroyedAtOnce
    <3>5. PICK K \in Plans : K = Gone(h, "break")
      BY <1>2, <3>3, PlansAre DEF Outs
    <3>6. F = Prefixed(a, K)
      <4>1. \A d \in Seq(BOOLEAN) : Plan(s, n, d) = Before(a, go[<<h, d, "break">>])
        BY <1>10, <2>0, <2>2, <3>3, <3>4
      <4> HIDE DEF h
      <4>2. From(s, n) = Prefixed(a, Gone(h, "break"))
        BY <4>1 DEF From, Gone, Prefixed, Inputs
      <4> QED
        BY <1>7, <3>5, <4>2
    <3>7. a \in Seq(Calling) /\ a \in Seq(Emitted)
      BY <1>2, <3>1, DestructorsAre, DestructorsCall
    <3>8. Trail(F, a, K)
      BY <3>6, <3>7, TrailCalls
    <3>9. Does(x, K, G)
      BY <3>5, DoesJump, Landings
    <3>10. x \in Emitted
      BY <3>3, EmittedIs DEF Jumping
    <3> HIDE DEF x
    <3>11. <<x>> \in Seq(Emitted) /\ Trail(K, <<x>>, G)
      BY <3>9, <3>10, OneEmitted, TrailOne
    <3>12. Trail(F, a \o <<x>>, G)
      BY <3>7, <3>8, <3>11, TrailJoined
    <3>13. a \o <<x>> \in Seq(Emitted)
      <4> HIDE DEF Emitted
      <4> QED
        BY <3>7, <3>11
    <3>14. PICK list \in Seq(Emitted) : list = a \o <<x>>
      BY <3>13
    <3> QED
      BY <1>8, <3>2, <3>12, <3>14
  <2> QED
    BY <2>1, <2>2
<1> QED
  BY <1>11, <1>12, <1>13

\* After the condition, on the way to a if it holds, and to b if not.
Either(A, B) == [p \in Inputs |-> IF Told(p) THEN A[p] ELSE B[p]]

\* F is a test of t and then A or B, as the first decision says.
Tests(F, A, B, t) ==
  \A b \in BOOLEAN, d \in Seq(BOOLEAN) :
    /\ d = <<>> => F[<<b, d>>] = Run(<<>>, <<>>, "cut")
    /\ d # <<>> /\ Holds(d) => F[<<b, d>>] = Before(t, A[<<TRUE, Tail(d)>>])
    /\ d # <<>> /\ ~ Holds(d) => F[<<b, d>>] = Before(t, B[<<FALSE, Tail(d)>>])

\* The evaluation of a condition leaves a choice.
LEMMA DoesTest ==
  ASSUME NEW c, NEW F, NEW A \in Plans, NEW B \in Plans, NEW t, t = << <<"eval", c>> >>,
         Tests(F, A, B, t)
  PROVE  Either(A, B) \in Plans /\ Does(<<"eval", c>>, F, Either(A, B))
<1> PICK M : M = Either(A, B)
  OBVIOUS
<1>1. M \in Plans
  <2>1. ASSUME NEW p \in Inputs
        PROVE  (IF Told(p) THEN A[p] ELSE B[p]) \in Courses
    <3>1. A[p] \in Courses /\ B[p] \in Courses
      <4> HIDE DEF Inputs, Courses
      <4> QED
        BY DEF Plans
    <3> QED
      BY <3>1, Zenon
  <2> HIDE DEF Inputs, Courses
  <2> QED
    BY <2>1 DEF Either, Plans
<1>2. ASSUME NEW b \in BOOLEAN, NEW d \in Seq(BOOLEAN)
      PROVE  F[<<b, d>>] = IF d = <<>> THEN Run(<<>>, <<>>, "cut")
                           ELSE Before(t, M[<<Head(d), Tail(d)>>])
  <2>1. CASE d = <<>>
    BY <2>1, Zenon DEF Tests
  <2>2. CASE d # <<>>
    <3>1. Head(d) \in BOOLEAN /\ Tail(d) \in Seq(BOOLEAN)
      BY <2>2, TailIs
    <3>2. PICK x \in BOOLEAN, e \in Seq(BOOLEAN) : x = Head(d) /\ e = Tail(d)
      BY <3>1
    <3>3. <<x, e>> \in Inputs
      BY DEF Inputs
    <3>4. M[<<x, e>>] = IF Told(<<x, e>>) THEN A[<<x, e>>] ELSE B[<<x, e>>]
      BY <3>3 DEF Either
    <3>5. Told(<<x, e>>) <=> x
      BY DEF Told
    <3>6. Holds(d) <=> x
      BY <3>2, Zenon DEF Holds
    <3>7. CASE x = TRUE
      <4>1. M[<<x, e>>] = A[<<TRUE, e>>]
        BY <3>4, <3>5, <3>7, Zenon
      <4>2. F[<<b, d>>] = Before(t, A[<<TRUE, e>>])
        BY <2>2, <3>2, <3>6, <3>7, Zenon DEF Tests
      <4> QED
        BY <2>2, <3>2, <4>1, <4>2, Zenon
    <3>8. CASE x = FALSE
      <4>1. M[<<x, e>>] = B[<<FALSE, e>>]
        BY <3>4, <3>5, <3>8, Zenon
      <4>2. F[<<b, d>>] = Before(t, B[<<FALSE, e>>])
        BY <2>2, <3>2, <3>6, <3>8, Zenon DEF Tests
      <4> QED
        BY <2>2, <3>2, <4>1, <4>2, Zenon
    <3> QED
      BY <3>7, <3>8
  <2> QED
    BY <2>1, <2>2
<1>3. ASSUME NEW p \in Inputs
      PROVE  F[p] = IF p[2] = <<>> THEN Run(<<>>, <<>>, "cut")
                    ELSE Before(t, M[<<Head(p[2]), Tail(p[2])>>])
  <2>1. PICK b \in BOOLEAN, d \in Seq(BOOLEAN) : p = <<b, d>>
    BY DEF Inputs
  <2>2. p[2] = d
    BY <2>1
  <2> QED
    BY <1>2, <2>1, <2>2, Zenon
<1>4. Does(<<"eval", c>>, F, M)
  <2>1. PICK ins : ins = <<"eval", c>>
    OBVIOUS
  <2>2. ins[1] = "eval" /\ t = <<ins>> /\ ins[1] \notin {"construct", "destruct"}
    BY <2>1
  <2> HIDE DEF Inputs
  <2>3. \A p \in Inputs : F[p] = IF p[2] = <<>> THEN Run(<<>>, <<>>, "cut")
                                 ELSE Before(<<ins>>, M[<<Head(p[2]), Tail(p[2])>>])
    BY <1>3, <2>2, Zenon
  <2>4. Does(ins, F, M)
    BY <2>2, <2>3 DEF Does
  <2> QED
    BY <2>1, <2>4
<1> QED
  BY <1>1, <1>4

\* A conditional jump takes the choice: the label has one plan, the next instruction the other.
LEMMA DoesBranch ==
  ASSUME NEW l, ~ Idle(l), NEW A, NEW B
  PROVE  /\ Landing(l) = B => Does(<<"je", l>>, Either(A, B), A)
         /\ Landing(l) = A => Does(<<"jne", l>>, Either(A, B), B)
<1> PICK M : M = Either(A, B)
  OBVIOUS
<1> HIDE DEF Inputs
<1>1. \A p \in Inputs : M[p] = IF Told(p) THEN A[p] ELSE B[p]
  BY DEF Either
<1>2. ASSUME Landing(l) = B PROVE Does(<<"je", l>>, M, A)
  <2>1. PICK ins : ins = <<"je", l>>
    OBVIOUS
  <2>2. ins[1] = "je" /\ ins[2] = l
    BY <2>1
  <2>3. \A p \in Inputs : M[p] = IF Told(p) THEN A[p] ELSE Landing(ins[2])[p]
    BY <1>1, <1>2, <2>2, Zenon
  <2> QED
    BY <2>1, <2>2, <2>3 DEF Does
<1>3. ASSUME Landing(l) = A PROVE Does(<<"jne", l>>, M, B)
  <2>1. PICK ins : ins = <<"jne", l>>
    OBVIOUS
  <2>2. ins[1] = "jne" /\ ins[2] = l
    BY <2>1
  <2>3. \A p \in Inputs : M[p] = IF Told(p) THEN Landing(ins[2])[p] ELSE B[p]
    BY <1>1, <1>3, <2>2, Zenon
  <2> QED
    BY <2>1, <2>2, <2>3 DEF Does
<1> QED
  BY <1>2, <1>3

\* The condition of an if or a while.
LEMMA ConditionIs ==
  ASSUME BuilderType, TreeInv, NEW s \in DOMAIN scopes, NEW k \in DOMAIN instructions(s),
         NEW c, c = instructions(s)[k].arg, instructions(s)[k].op \in {"if", "while"},
         NEW B \in Plans,
         IF instructions(s)[k].op = "if" /\ else_branch(c) # {}
         THEN \E b \in else_branch(c) : B = From(b, 1) ELSE B = From(s, k + 1)
  PROVE  /\ From(c, 1) \in Plans /\ Either(From(c, 1), B) \in Plans
         /\ Does(<<"eval", c>>, From(s, k), Either(From(c, 1), B))
<1>1. PICK t : t = << <<"eval", c>> >>
  OBVIOUS
<1>2. PICK op : op = instructions(s)[k].op
  OBVIOUS
<1>3. c \in DOMAIN scopes /\ k \in Nat \ {0} /\ <<>> \in Seq(BOOLEAN)
      /\ \A d \in Seq(BOOLEAN) :
         /\ d = <<>> => Plan(s, k, d) = Run(<<>>, <<>>, "cut")
         /\ d # <<>> /\ Holds(d) => Plan(s, k, d) = Before(t, Plan(c, 1, Tail(d)))
         /\ d # <<>> /\ ~ Holds(d) =>
              IF op = "if" /\ else_branch(c) # {}
              THEN \A b \in else_branch(c) : Plan(s, k, d) = Before(t, Plan(b, 1, Tail(d)))
              ELSE Plan(s, k, d) = Before(t, Plan(s, k + 1, Tail(d)))
  <2>1. c \in DOMAIN scopes /\ <<>> \in Seq(BOOLEAN) /\ k \in Nat \ {0}
    <3>1. <<>> \in Seq(BOOLEAN)
      OBVIOUS
    <3>2. k \in Nat \ {0}
      BY ScopeTyped DEF BuilderType
    <3>3. c \in DOMAIN scopes
      BY Opens DEF Opening, Branch
    <3> QED
      BY <3>1, <3>2, <3>3
  <2>2. ASSUME NEW d \in Seq(BOOLEAN)
        PROVE  /\ d = <<>> => Plan(s, k, d) = Run(<<>>, <<>>, "cut")
               /\ d # <<>> /\ Holds(d) => Plan(s, k, d) = Before(t, Plan(c, 1, Tail(d)))
               /\ d # <<>> /\ ~ Holds(d) =>
                    IF op = "if" /\ else_branch(c) # {}
                    THEN \A b \in else_branch(c) : Plan(s, k, d) = Before(t, Plan(b, 1, Tail(d)))
                    ELSE Plan(s, k, d) = Before(t, Plan(s, k + 1, Tail(d)))
    <3>1. PICK e : e = Tail(d)
      OBVIOUS
    <3>2. Branching(s, k, c, d, t, e)
      BY <1>1, <3>1, PlanBranches
    <3> QED
      BY <1>2, <3>1, <3>2, Zenon DEF Branching
  <2> QED
    BY <2>1, <2>2
<1>4. PICK A \in Plans, F \in Plans : A = From(c, 1) /\ F = From(s, k)
  BY <1>3, PlansAre
<1>5. ASSUME NEW b \in BOOLEAN, NEW d \in Seq(BOOLEAN)
      PROVE  /\ F[<<b, d>>] = Plan(s, k, d) /\ A[<<b, d>>] = Plan(c, 1, d)
             /\ \A x, n : B = From(x, n) => B[<<b, d>>] = Plan(x, n, d)
  <2>1. <<b, d>> \in Inputs
    BY DEF Inputs
  <2> HIDE DEF Inputs
  <2>2. \A x, n : From(x, n)[<<b, d>>] = Plan(x, n, d)
    BY <2>1 DEF From
  <2> QED
    BY <1>4, <2>2
<1>6. ASSUME NEW b \in BOOLEAN, NEW d \in Seq(BOOLEAN), d = <<>>
      PROVE  F[<<b, d>>] = Run(<<>>, <<>>, "cut")
  BY <1>3, <1>5, <1>6, Zenon
<1>7. ASSUME NEW b \in BOOLEAN, NEW d \in Seq(BOOLEAN), d # <<>>
      PROVE  /\ Holds(d) => F[<<b, d>>] = Before(t, A[<<TRUE, Tail(d)>>])
             /\ ~ Holds(d) => F[<<b, d>>] = Before(t, B[<<FALSE, Tail(d)>>])
  <2>1. PICK e \in Seq(BOOLEAN) : e = Tail(d)
    BY <1>7, TailIs
  <2>2. F[<<b, d>>] = Plan(s, k, d) /\ A[<<TRUE, e>>] = Plan(c, 1, e)
        /\ \A x, n : B = From(x, n) => B[<<FALSE, e>>] = Plan(x, n, e)
    BY <1>5
  <2>3. Holds(d) => F[<<b, d>>] = Before(t, A[<<TRUE, e>>])
    BY <1>3, <1>7, <2>1, <2>2, Zenon
  <2>4. ASSUME ~ Holds(d) PROVE F[<<b, d>>] = Before(t, B[<<FALSE, e>>])
    <3>1. CASE op = "if" /\ else_branch(c) # {}
      <4>1. PICK x \in else_branch(c) : B = From(x, 1)
        BY <1>2, <3>1
      <4>2. Plan(s, k, d) = Before(t, Plan(x, 1, e))
        BY <1>3, <1>7, <2>1, <2>4, <3>1, <4>1, Zenon
      <4> QED
        BY <2>2, <4>1, <4>2, Zenon
    <3>2. CASE ~ (op = "if" /\ else_branch(c) # {})
      <4>1. B = From(s, k + 1)
        BY <1>2, <3>2
      <4>2. Plan(s, k, d) = Before(t, Plan(s, k + 1, e))
        BY <1>3, <1>7, <2>1, <2>4, <3>2, Zenon
      <4> QED
        BY <2>2, <4>1, <4>2, Zenon
    <3> QED
      BY <3>1, <3>2
  <2> QED
    BY <2>1, <2>3, <2>4, Zenon
<1>8. Either(A, B) \in Plans /\ Does(<<"eval", c>>, F, Either(A, B))
  <2>1. Tests(F, A, B, t)
    BY <1>6, <1>7, Zenon DEF Tests
  <2> QED
    BY <1>1, <2>1, DoesTest
<1> QED
  BY <1>4, <1>8

\* Where the code goes when the condition of an if is not met.
LEMMA UnmetGoes ==
  ASSUME BuilderType, TreeInv, NEW s \in DOMAIN scopes, NEW k \in DOMAIN instructions(s),
         NEW c, c = instructions(s)[k].arg, instructions(s)[k].op = "if"
  PROVE  \E B \in Plans :
           /\ ~ Idle(Unmet(c)) /\ Landing(Unmet(c)) = B
           /\ IF else_branch(c) # {} THEN \E b \in else_branch(c) : B = From(b, 1)
              ELSE B = From(s, k + 1)
<1>1. /\ c \in DOMAIN scopes \ {main} /\ c \in DOMAIN scopes /\ c # main
      /\ scopes[c].parent_scope = s /\ scopes[c].opener = k
      /\ opener(c).op = "if" /\ ~ IsLoop(c) /\ k + 1 \in Nat \ {0}
  <2>1. /\ c \in DOMAIN scopes \ {main} /\ scopes[c].parent_scope = s /\ scopes[c].opener = k
        /\ opener(c) = instructions(s)[k]
    BY Opens DEF Opening, Branch
  <2>2. k \in Nat \ {0}
    BY ScopeTyped DEF BuilderType
  <2> QED
    BY <2>1, <2>2 DEF IsLoop
<1>2. CASE else_branch(c) = {} /\ Unmet(c) = end_of_scope(c)
  <2>1. \A d \in Seq(BOOLEAN) : go[<<c, d, "next">>] = Plan(s, k + 1, d)
    <3>1. \A d \in Seq(BOOLEAN) : Ending(c, s, k, d)
      BY <1>1, GoEnds
    <3> QED
      BY <1>1, <3>1, Zenon DEF Ending
  <2>2. Gone(c, "next") = From(s, k + 1)
    BY <2>1 DEF Gone, From, Inputs
  <2>3. From(s, k + 1) \in Plans
    BY <1>1, PlansAre
  <2>4. Landing(Unmet(c)) = From(s, k + 1) /\ ~ Idle(Unmet(c))
    BY <1>2, <2>2, Landings
  <2> QED
    BY <1>2, <2>3, <2>4
<1>3. CASE \E e \in else_branch(c) : Unmet(c) = begin_of_scope(e)
  <2>1. PICK e \in else_branch(c) : Unmet(c) = begin_of_scope(e)
    BY <1>3
  <2>2. e \in DOMAIN scopes
    BY <1>1, ElseIs
  <2>3. From(e, 1) \in Plans
    BY <2>2, PlansAre
  <2>4. Landing(Unmet(c)) = From(e, 1) /\ ~ Idle(Unmet(c))
    BY <2>1, Landings
  <2>5. else_branch(c) # {}
    BY <2>1
  <2> QED
    BY <2>1, <2>3, <2>4, <2>5
<1> QED
  BY <1>1, <1>2, <1>3, UnmetIs

\* The steps that open a scope.
LEMMA TrailOpens ==
  ASSUME CompilingInv, ElseLater, Regular, Trail(From(main, 1), code, Here(scope_stack)),
         ScopeCreate \/ If \/ Else \/ While, NEW st2, st2 = scope_stack'
  PROVE  Trail(From(main, 1), code', Here(st2))
<1>1. /\ scope_stack # <<>> /\ ~ Ends /\ instruction.op \in Opening /\ Enter(instruction.arg)
      /\ ScopeCreate => instruction.op = "scope"
      /\ If => instruction.op = "if"
      /\ Else => instruction.op = "else"
      /\ While => instruction.op = "while"
  BY DEF ScopeCreate, If, Else, While, VisitsBranch, Visits, Opening, Branch
<1>2. BuilderType /\ TreeInv /\ StackInv(scope_stack)
  BY DEF CompilingInv
<1>3. PICK s \in DOMAIN scopes, n \in Nat \ {0} : s = TopScope /\ n = TopNext
  BY <1>1, TopSteps
<1>4. PICK ins, c : ins = instructions(s)[n] /\ c = ins.arg
  OBVIOUS
<1>5. /\ current.scope = s /\ i = n /\ instruction = ins /\ n \in DOMAIN instructions(s)
      /\ Enters(scope_stack, c, st2)
      /\ s = scope_stack[1].scope /\ n = scope_stack[1].iterating + 1
  <2>1. /\ current.scope = s /\ i = n /\ instruction = ins /\ n \in DOMAIN instructions(s)
        /\ \A x : Enter(x) => Enters(scope_stack, x, scope_stack')
    BY <1>1, <1>3, <1>4, TopSteps DEF TopIns
  <2> QED
    BY <1>1, <1>3, <1>4, <2>1 DEF TopScope, TopNext
<1>6. /\ c \in DOMAIN scopes \ {main} /\ scopes[c].parent_scope = s /\ scopes[c].opener = n
      /\ opener(c) = ins
  BY <1>1, <1>2, <1>4, <1>5, Opens
<1>7. Here(st2) = From(c, 1)
  <2>1. st2[1].scope = c /\ st2[1].iterating = 0 /\ st2 # <<>>
    <3>1. st2[1].scope = c /\ st2[1].iterating = 0 /\ DOMAIN st2 = 1 .. Len(scope_stack) + 1
          /\ Len(scope_stack) \in Nat \ {0}
      BY <1>2, <1>5, <1>6, EntersIs
    <3>2. 1 \in DOMAIN st2
      BY <3>1
    <3> QED
      BY <3>1, <3>2
  <2>2. Arrives(c, 1) = From(c, 1)
    BY <1>2, <1>6, ArrivesIs
  <2> QED
    BY <2>1, <2>2 DEF Here
<1>8. PICK G \in Plans : G = From(c, 1)
  BY <1>2, <1>6, PlansAre
<1>9. PICK F \in Plans : /\ F = Arrives(TopScope, TopNext)
                         /\ ins.op # "else" => F = From(s, n)
                         /\ ins.op = "else" => F = G
  <2>1. Arrives(s, n) \in Plans
    BY <1>2, ArrivesIs
  <2>2. ins.op # "else" => Arrives(s, n) = From(s, n)
    BY <1>2, <1>4, <1>5, ArrivesIs
  <2>3. ins.op = "else" => Arrives(s, n) = From(c, 1)
    BY <1>2, <1>4, <1>5, ArrivesIs
  <2> QED
    BY <1>3, <1>8, <2>1, <2>2, <2>3
<1>10. ASSUME NEW list \in Seq(Emitted), Emit(list), Trail(F, list, G)
       PROVE  Trail(From(main, 1), code', Here(st2))
  BY <1>1, <1>7, <1>8, <1>9, <1>10, EmitsTrail
<1>11. CASE ScopeCreate \/ Else
  <2>1. Emit(<<>>) /\ ins.op \in {"scope", "else"}
    BY <1>1, <1>5, <1>11 DEF ScopeCreate, Else
  <2>2. F = G
    <3>1. CASE ins.op = "else"
      BY <1>9, <3>1
    <3>2. CASE ins.op = "scope"
      <4>1. \A d \in Seq(BOOLEAN) : Plan(s, n, d) = Plan(c, 1, d)
        <5>1. \A d \in Seq(BOOLEAN) : Stepping(s, n, ins, d)
          BY <1>2, <1>4, <1>5, PlanSteps
        <5> QED
          BY <1>4, <3>2, <5>1, Zenon DEF Stepping
      <4>2. From(s, n) = From(c, 1)
        BY <4>1 DEF From, Inputs
      <4>3. ins.op # "else"
        BY <3>2
      <4> QED
        BY <1>8, <1>9, <4>2, <4>3
    <3> QED
      BY <2>1, <3>1, <3>2
  <2>3. <<>> \in Seq(Emitted) /\ Trail(F, <<>>, G)
    BY <2>2, NoneEmitted, TrailNone
  <2> QED
    BY <1>10, <2>1, <2>3
<1>12. CASE If
  <2> DEFINE x == <<"eval", c>>
             y == <<"je", Unmet(c)>>
  <2>1. Emit(<<x, y>>) /\ ins.op = "if"
    BY <1>1, <1>4, <1>5, <1>12 DEF If
  <2>2. x \in Emitted /\ y \in Emitted
    BY <1>2, <1>6, EmittedIs, UnmetIs
  <2>3. PICK B \in Plans :
          /\ ~ Idle(Unmet(c)) /\ Landing(Unmet(c)) = B
          /\ IF else_branch(c) # {} THEN \E b \in else_branch(c) : B = From(b, 1)
             ELSE B = From(s, n + 1)
    BY <1>2, <1>4, <1>5, <2>1, UnmetGoes
  <2>4. PICK M \in Plans : M = Either(G, B) /\ Does(x, F, M)
    <3>1. instructions(s)[n].op \in {"if", "while"} /\ ins.op # "else" /\ c = instructions(s)[n].arg
      BY <1>4, <2>1
    <3>2. IF instructions(s)[n].op = "if" /\ else_branch(c) # {}
          THEN \E b \in else_branch(c) : B = From(b, 1) ELSE B = From(s, n + 1)
      BY <1>4, <2>1, <2>3
    <3>3. Either(From(c, 1), B) \in Plans /\ Does(x, From(s, n), Either(From(c, 1), B))
      BY <1>2, <1>5, <3>1, <3>2, ConditionIs
    <3> HIDE DEF x
    <3> QED
      BY <1>8, <1>9, <3>1, <3>3
  <2>5. Does(y, M, G)
    BY <2>3, <2>4, DoesBranch
  <2> HIDE DEF x, y
  <2>6. <<x>> \in Seq(Emitted) /\ <<y>> \in Seq(Emitted) /\ Trail(F, <<x>>, M) /\ Trail(M, <<y>>, G)
    BY <2>2, <2>4, <2>5, OneEmitted, TrailOne
  <2>7. Trail(F, <<x>> \o <<y>>, G)
    BY <2>6, TrailJoined
  <2>8. <<x>> \o <<y>> = <<x, y>> /\ <<x>> \o <<y>> \in Seq(Emitted)
    <3>2. PICK E : E = Emitted
      OBVIOUS
    <3>3. <<x>> \in Seq(E) /\ <<y>> \in Seq(E)
      BY <2>6, <3>2
    <3>4. <<x>> \o <<y>> \in Seq(E)
      BY <3>3
    <3> QED
      BY <2>2, <3>2, <3>4, Paired
  <2> QED
    BY <1>10, <2>1, <2>7, <2>8
<1>13. CASE While
  <2> DEFINE x == <<"jmp", end_of_scope(c)>>
  <2>1. Emit(<<x>>) /\ ins.op = "while"
    BY <1>1, <1>4, <1>5, <1>13 DEF While
  <2>2. x \in Emitted
    BY <1>6, EmittedIs DEF Jumping
  <2>3. F = Gone(c, "next")
    <3>1. IsLoop(c)
      BY <1>6, <2>1 DEF IsLoop
    <3>2. PICK x0 \in DOMAIN scopes : x0 = c /\ x0 # main
      BY <1>6
    <3>3. Gone(x0, "next") = From(s, n)
      BY <1>2, <1>6, <3>1, <3>2, ScopeLeft
    <3>4. ins.op # "else"
      BY <2>1
    <3> QED
      BY <1>9, <3>2, <3>3, <3>4
  <2>4. ~ Idle(end_of_scope(c)) /\ Landing(end_of_scope(c)) = Gone(c, "next")
    <3>1. opener(c).op # "if"
      BY <1>6, <2>1
    <3> QED
      BY <3>1, Landings
  <2>5. Does(x, F, G)
    BY <2>3, <2>4, DoesJump
  <2> HIDE DEF x
  <2>6. Trail(F, <<x>>, G) /\ <<x>> \in Seq(Emitted)
    BY <2>2, <2>5, TrailOne, OneEmitted
  <2> QED
    BY <1>10, <2>1, <2>6
<1> QED
  BY <1>11, <1>12, <1>13

\* What is still to be emitted is a plan.
LEMMA HereIs ==
  ASSUME BuilderType, TreeInv, ElseLater, Regular, NEW st, StackInv(st)
  PROVE  Here(st) \in Plans
<1>1. CASE st = <<>>
  <2>1. main \in DOMAIN scopes
    BY DEF TreeInv
  <2> QED
    BY <1>1, <2>1, PlansAre DEF Here
<1>2. CASE st # <<>>
  <2>1. st[1].scope \in DOMAIN scopes /\ st[1].iterating \in Nat
    BY <1>2, TopIs
  <2>2. PICK s \in DOMAIN scopes, n \in Nat \ {0} : s = st[1].scope /\ n = st[1].iterating + 1
    BY <2>1
  <2>3. Arrives(s, n) \in Plans
    BY ArrivesIs
  <2> QED
    BY <1>2, <2>2, <2>3 DEF Here
<1> QED
  BY <1>1, <1>2

\* Where the code is when a scope has been left.
LEMMA HereLeft ==
  ASSUME BuilderType, TreeInv, ElseLater, Regular, NEW st, StackInv(st), st # <<>>,
         NEW s, s = st[1].scope, NEW st2, Ended(st, st2)
  PROVE  /\ Here(st2) \in Plans
         /\ s = main => Here(st2) = Gone(s, "next")
         /\ s # main => \E p \in DOMAIN scopes : \E o \in DOMAIN instructions(p) :
              /\ p = scopes[s].parent_scope /\ o = scopes[s].opener
              /\ opener(s) = instructions(p)[o] /\ instructions(p)[o].arg = s
              /\ Here(st2) = Arrives(p, o + 1)
<1>1. s \in DOMAIN scopes /\ Len(st) \in Nat \ {0} /\ DOMAIN st = 1 .. Len(st)
  BY TopIs
<1>2. /\ StackInv(st2) /\ DOMAIN st2 = 1 .. Len(st) - 1
      /\ s # main => st2 # <<>> /\ OpenedAt(s, st2[1])
  BY EndsStack
<1>3. Here(st2) \in Plans
  BY <1>2, HereIs
<1>4. ASSUME s = main PROVE Here(st2) = Gone(s, "next")
  <2>1. st2 = <<>>
    <3>1. CASE Len(st) = 1
      <4>1. DOMAIN st2 = {}
        BY <1>2, <3>1
      <4>2. st2 \in Seq(Frame)
        BY <1>2 DEF StackInv
      <4> HIDE DEF Frame
      <4> QED
        BY <4>1, <4>2
    <3>2. CASE Len(st) # 1
      <4>1. 1 \in DOMAIN st /\ 2 \in DOMAIN st /\ 1 < 2
        BY <1>1, <3>2
      <4>2. st[2].scope < st[1].scope
        BY <4>1 DEF StackInv
      <4>3. st[2].scope \in DOMAIN scopes
        BY <4>1, TopIs
      <4>4. st[2].scope \in Nat \ {0}
        BY <4>3, ScopeTyped DEF BuilderType
      <4> QED
        BY <1>4, <4>2, <4>4 DEF main
    <3> QED
      BY <3>1, <3>2
  <2>2. \A d \in Seq(BOOLEAN) : go[<<s, d, "next">>] = Run(<<>>, d, "next")
    <3>1. ASSUME NEW d \in Seq(BOOLEAN) PROVE go[<<s, d, "next">>] = Run(<<>>, d, "next")
      <4>1. PICK p, o : p = scopes[s].parent_scope /\ o = scopes[s].opener
        OBVIOUS
      <4> QED
        BY <1>1, <1>4, <4>1, GoEnds, Zenon
    <3> QED
      BY <3>1
  <2>3. Gone(s, "next") = Done
    BY <2>2 DEF Gone, Done, Inputs
  <2> QED
    BY <2>1, <2>3 DEF Here
<1>5. ASSUME s # main
      PROVE  \E p \in DOMAIN scopes : \E o \in DOMAIN instructions(p) :
               /\ p = scopes[s].parent_scope /\ o = scopes[s].opener
               /\ opener(s) = instructions(p)[o] /\ instructions(p)[o].arg = s
               /\ Here(st2) = Arrives(p, o + 1)
  <2>1. PICK p, o : p = scopes[s].parent_scope /\ o = scopes[s].opener
    OBVIOUS
  <2>2. p \in DOMAIN scopes /\ o \in DOMAIN instructions(p) /\ opener(s) = instructions(p)[o]
        /\ instructions(p)[o].arg = s
    BY <1>1, <1>5, <2>1 DEF TreeInv, ParentInv, opener
  <2>3. st2 # <<>> /\ st2[1].scope = p /\ st2[1].iterating = o
    BY <1>2, <1>5, <2>1 DEF OpenedAt
  <2>4. Here(st2) = Arrives(p, o + 1)
    BY <2>3 DEF Here
  <2> QED
    BY <2>1, <2>2, <2>4
<1> QED
  BY <1>3, <1>4, <1>5

\* The steps that leave a scope by a return.
LEMMA TrailReturns ==
  ASSUME CompilingInv, ElseLater, Regular, Trail(From(main, 1), code, Here(scope_stack)),
         Return, NEW st2, st2 = scope_stack'
  PROVE  Trail(From(main, 1), code', Here(st2))
<1> DEFINE d == AllDestructors
           x == <<"jmp", exit_label>>
<1>1. /\ scope_stack # <<>> /\ ~ Ends /\ instruction.op = "return"
      /\ scope_stack' = Tail(scope_stack)
      /\ Emit(d \o <<x>> \o Skipped(current.scope))
  BY DEF Return, Visits
<1>2. BuilderType /\ TreeInv /\ StackInv(scope_stack)
  BY DEF CompilingInv
<1>3. PICK s \in DOMAIN scopes, n \in Nat \ {0} : s = TopScope /\ n = TopNext
  BY <1>1, TopSteps
<1>4. /\ current.scope = s /\ n \in DOMAIN instructions(s) /\ instructions(s)[n].op = "return"
      /\ s = scope_stack[1].scope /\ n = scope_stack[1].iterating + 1
      /\ scope_stack[1].iterating < Len(instructions(scope_stack[1].scope))
  <2>1. /\ current.scope = s /\ n \in DOMAIN instructions(s) /\ instruction = instructions(s)[n]
        /\ scope_stack[1].iterating < Len(instructions(s)) /\ n = scope_stack[1].iterating + 1
    BY <1>1, <1>3, TopSteps DEF TopIns
  <2> QED
    BY <1>1, <1>3, <2>1 DEF TopScope
<1>5. PICK moved : moved = <<Moved(Head(scope_stack))>> \o Tail(scope_stack)
  OBVIOUS
<1>6. Moves(scope_stack, moved) /\ StackInv(moved)
  <2>1. Moves(scope_stack, moved)
    BY <1>1, <1>5 DEF Moves
  <2> QED
    BY <1>2, <1>4, <2>1, MovesStack
<1>7. moved # <<>> /\ moved[1].scope = s /\ moved[1].iterating = n
  <2>1. moved[1].scope = s /\ moved[1].iterating = n /\ DOMAIN moved = DOMAIN scope_stack /\ 1 \in DOMAIN moved
    BY <1>2, <1>4, <1>6, MovesIs
  <2> QED
    BY <2>1
<1>8. PICK list : list = [k \in DOMAIN moved |-> Destructors(moved[k].scope, moved[k].iterating)]
  OBVIOUS
<1>9. d \in Seq({"destruct"} \X (Nat \X Nat)) /\ d = FlattenSeq(list)
  BY <1>2, <1>4, <1>6, <1>8, AllDestructorsAre
<1>10. PICK G \in Plans, F \in Plans : G = Here(st2) /\ F = From(s, n) /\ Done \in Plans
                                       /\ F = Arrives(TopScope, TopNext)
  <2>1. Ended(scope_stack, st2)
    BY <1>1 DEF Ended
  <2>2. StackInv(st2)
    BY <1>2, <2>1, EndsStack
  <2>3. Here(st2) \in Plans
    BY <1>2, <2>2, HereIs
  <2>4. Arrives(s, n) = From(s, n)
    BY <1>2, <1>4, ArrivesIs
  <2> QED
    BY <1>2, <1>3, <2>3, <2>4, PlansAre
<1>11. F = Prefixed(d, Done)
  <2>1. ASSUME NEW e \in Seq(BOOLEAN) PROVE Plan(s, n, e) = Before(d, Run(<<>>, e, "next"))
    <3>1. /\ s = moved[1].scope /\ n = moved[1].iterating /\ moved # <<>> /\ StackInv(moved)
          /\ n \in DOMAIN instructions(s) /\ instructions(s)[n].op = "return"
      BY <1>4, <1>6, <1>7
    <3>2. Plan(s, n, e) = Before(FlattenSeq(list), Run(<<>>, e, "next"))
      BY <1>2, <1>8, <3>1, ReturnGoes
    <3> QED
      BY <1>9, <3>2
  <2> HIDE DEF d
  <2>2. From(s, n) = Prefixed(d, Done)
    BY <2>1 DEF From, Prefixed, Done, Inputs
  <2> QED
    BY <1>10, <2>2
<1> HIDE DEF d
<1>12. Trail(F, d, Done) /\ d \in Seq(Emitted)
  BY <1>9, <1>10, <1>11, DestructorsCall, TrailCalls
<1>13. Does(x, Done, G)
  BY DoesJump, Landings
<1>14. x \in Emitted
  BY EmittedIs DEF Jumping
<1>15. PICK skipped \in Seq(Emitted) : skipped = Skipped(s) /\ Trail(G, skipped, G)
  <2>1. CASE IsBranch(s)
    <3> DEFINE ends == <<"bind", end_of_scope(s)>>
    <3>1. ends \in Emitted
      BY EmittedIs
    <3>2. Idle(end_of_scope(s)) \/ G = Landing(end_of_scope(s))
      <4>1. s # main /\ ~ IsLoop(s)
        <5>1. LoopsDoNotReturn(s) /\ Has(s, "return")
          BY <1>4 DEF Regular, Has
        <5> QED
          BY <2>1, <5>1 DEF IsBranch, LoopsDoNotReturn
      <4>2. Ended(scope_stack, st2)
        BY <1>1 DEF Ended
      <4>3. PICK p, o :
              /\ p \in DOMAIN scopes /\ p = scopes[s].parent_scope /\ o = scopes[s].opener /\ G = Arrives(p, o + 1)
        <5>1. s = scope_stack[1].scope /\ scope_stack # <<>>
          BY <1>1, <1>4
        <5>2. s # main => \E p \in DOMAIN scopes : \E o \in DOMAIN instructions(p) :
                /\ p = scopes[s].parent_scope /\ o = scopes[s].opener
                /\ opener(s) = instructions(p)[o] /\ instructions(p)[o].arg = s
                /\ Here(st2) = Arrives(p, o + 1)
          BY <1>2, <4>2, <5>1, HereLeft
        <5> QED
          BY <1>10, <4>1, <5>2
      <4>4. Gone(s, "next") = From(p, o + 1)
        BY <1>2, <4>1, <4>3, ScopeLeft
      <4>5. CASE opener(s).op = "if" /\ else_branch(s) # {}
        <5>1. s \in DOMAIN scopes \ {main}
          BY <4>1
        <5> QED
          BY <4>5, <5>1, Landings
      <4>6. CASE opener(s).op # "if" \/ else_branch(s) = {}
        <5>1. Arrives(p, o + 1) = From(p, o + 1)
          BY <1>2, <4>1, <4>3, <4>6, ScopeLeft
        <5> QED
          BY <4>3, <4>4, <5>1, Landings
      <4> QED
        BY <4>5, <4>6
    <3>3. Does(ends, G, G)
      BY <3>2, DoesBind
    <3>4. Skipped(s) = <<ends>>
      BY <2>1 DEF Skipped
    <3> HIDE DEF ends
    <3> QED
      BY <3>1, <3>3, <3>4, OneEmitted, TrailOne
  <2>2. CASE ~ IsBranch(s)
    <3>1. Skipped(s) = <<>>
      BY <2>2 DEF Skipped
    <3> QED
      BY <3>1, NoneEmitted, TrailNone
  <2> QED
    BY <2>1, <2>2
<1> HIDE DEF x
<1>16. Trail(Done, <<x>>, G) /\ <<x>> \in Seq(Emitted)
  BY <1>10, <1>13, <1>14, TrailOne, OneEmitted
<1>17. PICK E : E = Emitted
  OBVIOUS
<1>18. d \in Seq(E) /\ <<x>> \in Seq(E) /\ skipped \in Seq(E)
  BY <1>12, <1>16, <1>17
<1>19. PICK a \in Seq(E) : a = d \o <<x>>
  <2>1. d \o <<x>> \in Seq(E)
    BY <1>18
  <2> QED
    BY <2>1
<1>20. Trail(F, a, G)
  <2>1. Trail(F, d \o <<x>>, G)
    BY <1>12, <1>16, <1>18, TrailJoined
  <2> QED
    BY <1>19, <2>1
<1>21. Trail(F, a \o skipped, G)
  BY <1>15, <1>18, <1>20, TrailJoined
<1>22. PICK all \in Seq(E) : all = a \o skipped
  <2>1. a \o skipped \in Seq(E)
    BY <1>18
  <2> QED
    BY <2>1
<1>23. all \in Seq(Emitted) /\ Emit(all) /\ Trail(F, all, G)
  BY <1>1, <1>4, <1>15, <1>17, <1>19, <1>21, <1>22
<1> QED
  BY <1>1, <1>10, <1>23, EmitsTrail

\* Before its last instructions a scope that has come to its end destroys its variables.
LEMMA EndGoes ==
  ASSUME BuilderType, TreeInv, ElseLater, Regular, NEW s \in DOMAIN scopes,
         NEW n, n = Len(instructions(s)), NEW d, d = Destructors(s, n)
  PROVE  /\ d \in Seq({"destruct"} \X (Nat \X Nat)) /\ Gone(s, "next") \in Plans
         /\ Arrives(s, n + 1) = Prefixed(d, Gone(s, "next"))
<1>1. n \in Nat /\ n + 1 \notin DOMAIN instructions(s)
  BY ScopeTyped DEF BuilderType
<1>2. d \in Seq({"destruct"} \X (Nat \X Nat))
  BY <1>1, DestructorsAre
<1>3. Destroyed(s, n) = d
  <2>1. ConstructedAtOnce(s)
    BY DEF Regular
  <2> QED
    BY <1>1, <2>1, DestroyedAtOnce
<1>4. \A e \in Seq(BOOLEAN) : Plan(s, n + 1, e) = Before(d, go[<<s, e, "next">>])
  BY <1>3, PlanEnds
<1>5. From(s, n + 1) = Prefixed(d, Gone(s, "next"))
  BY <1>4 DEF From, Gone, Prefixed, Inputs
<1>6. Arrives(s, n + 1) = From(s, n + 1)
  BY <1>1, ArrivesIs
<1>7. Gone(s, "next") \in Plans
  BY PlansAre DEF Outs
<1> QED
  BY <1>2, <1>5, <1>6, <1>7

\* The condition of a loop, after its body.
LEMMA LoopGoes ==
  ASSUME BuilderType, TreeInv, ElseLater, Regular, NEW s \in DOMAIN scopes, IsLoop(s)
  PROVE  /\ LoopTest(s) \in Seq(Emitted)
         /\ Trail(Gone(s, "next"), LoopTest(s), Gone(s, "break"))
<1> DEFINE x == <<"eval", s>>
           y == <<"jne", begin_of_scope(s)>>
           z == <<"bind", loop_end_of_scope(s)>>
<1>1. s # main /\ opener(s).op = "while"
  BY DEF IsLoop
<1>2. PICK p, o : p = scopes[s].parent_scope /\ o = scopes[s].opener
  OBVIOUS
<1>0. /\ p \in DOMAIN scopes /\ o \in DOMAIN instructions(p)
      /\ instructions(p)[o].arg = s /\ instructions(p)[o].op = "while"
  BY <1>1, <1>2 DEF TreeInv, ParentInv, opener
<1>3. o + 1 \in Nat \ {0} /\ o \in Nat \ {0}
  <2>1. o \in Nat \ {0}
    BY <1>0, ScopeTyped DEF BuilderType
  <2> QED
    BY <2>1
<1>4. PICK F \in Plans, A \in Plans, B \in Plans :
        F = From(p, o) /\ A = From(s, 1) /\ B = From(p, o + 1)
  BY <1>0, <1>3, PlansAre
<1>5. Gone(s, "next") = F /\ Gone(s, "break") = B
  <2>1. IsLoop(s) => /\ Gone(s, "next") = From(p, o) /\ Gone(s, "break") = From(p, o + 1)
                     /\ Arrives(p, o + 1) = From(p, o + 1)
    BY <1>1, <1>2, ScopeLeft
  <2> QED
    BY <1>4, <2>1
<1>6. PICK M \in Plans : M = Either(A, B) /\ Does(x, F, M)
  <2>1. instructions(p)[o].op \in {"if", "while"} /\ ~ (instructions(p)[o].op = "if")
    BY <1>0
  <2>2. IF instructions(p)[o].op = "if" /\ else_branch(s) # {}
        THEN \E b \in else_branch(s) : B = From(b, 1) ELSE B = From(p, o + 1)
    BY <1>4, <2>1, Zenon
  <2>3. PICK k, c : k \in DOMAIN instructions(p) /\ k = o /\ c = instructions(p)[o].arg
    BY <1>0
  <2>4. Either(From(c, 1), B) \in Plans /\ Does(<<"eval", c>>, From(p, k), Either(From(c, 1), B))
    <3>1. c = s
      BY <1>0, <2>3
    <3> QED
      BY <1>0, <2>1, <2>2, <2>3, <3>1, ConditionIs
  <2> QED
    BY <1>0, <1>4, <2>3, <2>4
<1>7. Does(y, M, B)
  BY <1>4, <1>6, DoesBranch, Landings
<1>8. Does(z, B, B)
  <2>1. B = Landing(loop_end_of_scope(s))
    BY <1>5, Landings
  <2> QED
    BY <2>1, DoesBind
<1>9. x \in Emitted /\ y \in Emitted /\ z \in Emitted
  BY EmittedIs DEF Jumping
<1>10. LoopTest(s) = <<x, y, z>>
  BY DEF LoopTest
<1> HIDE DEF x, y, z
<1>11. PICK E : E = Emitted
  OBVIOUS
<1>12. x \in E /\ y \in E /\ z \in E
  BY <1>9, <1>11
<1>13. /\ <<x>> \in Seq(E) /\ Trail(F, <<x>>, M)
       /\ <<y>> \in Seq(E) /\ Trail(M, <<y>>, B)
       /\ <<z>> \in Seq(E) /\ Trail(B, <<z>>, B)
  BY <1>6, <1>7, <1>8, <1>12, OneEmitted, TrailOne
<1>14. <<x, y>> \in Seq(E) /\ Trail(F, <<x, y>>, B)
  <2>1. Trail(F, <<x>> \o <<y>>, B)
    BY <1>13, TrailJoined
  <2>2. <<x>> \o <<y>> = <<x, y>>
    BY <1>12, Paired
  <2>3. <<x, y>> \in Seq(E)
    BY <1>12
  <2> QED
    BY <2>1, <2>2, <2>3
<1>15. Trail(F, <<x, y>> \o <<z>>, B)
  BY <1>13, <1>14, TrailJoined
<1>16. <<x, y>> \o <<z>> = <<x, y, z>> /\ <<x, y, z>> \in Seq(E)
  <2> DEFINE a == <<x, y>> \o <<z>>
             b == <<x, y, z>>
  <2>1. /\ a \in Seq(E) /\ b \in Seq(E) /\ DOMAIN a = 1 .. 3 /\ DOMAIN b = 1 .. 3
        /\ a[1] = x /\ a[2] = y /\ a[3] = z /\ b[1] = x /\ b[2] = y /\ b[3] = z
    BY <1>12
  <2> HIDE DEF a, b
  <2>2. \A k \in 1 .. 3 : a[k] = b[k]
    BY <2>1
  <2>3. a = b
    BY <2>1, <2>2
  <2> QED
    BY <2>1, <2>3 DEF a, b
<1> QED
  BY <1>5, <1>10, <1>11, <1>15, <1>16

\* What comes after the end of a scope.
LEMMA AfterGoes ==
  ASSUME BuilderType, TreeInv, ElseLater, Regular, NEW st, StackInv(st), st # <<>>,
         NEW s, s = st[1].scope, NEW st2, Ended(st, st2)
  PROVE  AfterEnd(s) \in Seq(Emitted) /\ Trail(Gone(s, "next"), AfterEnd(s), Here(st2))
<1>1. s \in DOMAIN scopes
  BY TopIs
<1>2. PICK K \in Plans, G \in Plans : K = Gone(s, "next") /\ G = Here(st2)
  <2>1. Gone(s, "next") \in Plans
    BY <1>1, PlansAre DEF Outs
  <2>2. Here(st2) \in Plans
    BY HereLeft
  <2> QED
    BY <2>1, <2>2
<1>3. ASSUME K = G, AfterEnd(s) = <<>>
      PROVE  AfterEnd(s) \in Seq(Emitted) /\ Trail(K, AfterEnd(s), G)
  BY <1>3, NoneEmitted, TrailNone
<1>4. CASE s = main
  <2>1. AfterEnd(s) = <<>>
    BY <1>4 DEF AfterEnd, IsLoop
  <2>2. s = main => Here(st2) = Gone(s, "next")
    BY HereLeft, Zenon
  <2> QED
    BY <1>2, <1>3, <1>4, <2>1, <2>2
<1>5. CASE s # main
  <2>1. PICK p, o : /\ p = scopes[s].parent_scope /\ o = scopes[s].opener
                    /\ G = Arrives(p, o + 1)
    <3>1. s # main => \E p \in DOMAIN scopes : \E o \in DOMAIN instructions(p) :
            /\ p = scopes[s].parent_scope /\ o = scopes[s].opener
            /\ opener(s) = instructions(p)[o] /\ instructions(p)[o].arg = s
            /\ Here(st2) = Arrives(p, o + 1)
      BY HereLeft
    <3> QED
      BY <1>2, <1>5, <3>1
  <2>2. CASE IsLoop(s)
    <3>1. G = Gone(s, "break")
      BY <1>1, <1>5, <2>1, <2>2, ScopeLeft
    <3>2. AfterEnd(s) = LoopTest(s)
      BY <2>2 DEF AfterEnd
    <3> QED
      BY <1>1, <1>2, <2>2, <3>1, <3>2, LoopGoes
  <2>3. CASE ~ IsLoop(s) /\ opener(s).op = "if" /\ else_branch(s) # {}
    <3>1. PICK e \in else_branch(s) : TRUE
      BY <2>3
    <3>2. e \in DOMAIN scopes \ {main} /\ opener(e).op = "else" /\ K = Gone(e, "next")
      BY <1>1, <1>2, <1>5, <2>1, <2>3, ScopeLeft
    <3>3. else_branch(s) = {e}
      BY <1>1, <1>5, <3>1, ElseIs
    <3> DEFINE x == <<"jmp", end_of_scope(e)>>
    <3>4. AfterEnd(s) = <<x>>
      <4>1. { <<"jmp", end_of_scope(b)>> : b \in else_branch(s) } = {x}
        BY <3>3
      <4>2. AfterEnd(s) = SetToSeq({ <<"jmp", end_of_scope(b)>> : b \in else_branch(s) })
        BY <1>5, <2>3 DEF AfterEnd
      <4> HIDE DEF x
      <4> QED
        BY <4>1, <4>2, EnumeratedIs
    <3>5. Does(x, K, G)
      <4>1. ~ Idle(end_of_scope(e))
        BY <3>2, Landings
      <4>2. Landing(end_of_scope(e)) = K
        BY <3>2, Landings
      <4> QED
        BY <4>1, <4>2, DoesJump
    <3>6. x \in Emitted
      BY <3>2, EmittedIs DEF Jumping
    <3> HIDE DEF x
    <3> QED
      BY <1>2, <3>4, <3>5, <3>6, OneEmitted, TrailOne
  <2>4. CASE ~ IsLoop(s) /\ (opener(s).op # "if" \/ else_branch(s) = {})
    <3>1. K = G
      BY <1>1, <1>2, <1>5, <2>1, <2>4, ScopeLeft
    <3>2. AfterEnd(s) = <<>>
      <4>1. CASE opener(s).op # "if"
        BY <2>4, <4>1 DEF AfterEnd
      <4>2. CASE else_branch(s) = {} /\ opener(s).op = "if"
        <5>1. { <<"jmp", end_of_scope(b)>> : b \in else_branch(s) } = {}
          BY <4>2
        <5>2. AfterEnd(s) = SetToSeq({ <<"jmp", end_of_scope(b)>> : b \in else_branch(s) })
          BY <1>5, <2>4, <4>2 DEF AfterEnd
        <5> QED
          BY <5>1, <5>2, EnumeratedIs
      <4> QED
        BY <2>4, <4>1, <4>2
    <3> QED
      BY <1>2, <1>3, <3>1, <3>2
  <2> QED
    BY <2>2, <2>3, <2>4
<1> QED
  BY <1>4, <1>5

\* The end of a scope.
LEMMA TrailEnds ==
  ASSUME CompilingInv, ElseLater, Regular, Trail(From(main, 1), code, Here(scope_stack)),
         EndScope, NEW st2, st2 = scope_stack'
  PROVE  Trail(From(main, 1), code', Here(st2))
<1>1. /\ scope_stack # <<>> /\ Ends /\ scope_stack' = Tail(scope_stack)
      /\ code' = code \o ScopeEnd(current.scope) \o AfterEnd(current.scope)
  BY DEF EndScope
<1>2. BuilderType /\ TreeInv /\ StackInv(scope_stack) /\ code \in Seq(Emitted)
  BY DEF CompilingInv
<1>3. PICK s \in DOMAIN scopes, n \in Nat :
        /\ s = TopScope /\ s = scope_stack[1].scope /\ n = Len(instructions(s))
        /\ current.scope = s /\ scope_stack[1].iterating = n
  <2>1. /\ current.scope = TopScope /\ TopScope \in DOMAIN scopes /\ TopScope = scope_stack[1].scope
        /\ scope_stack[1].iterating \in Nat
        /\ TopNext \notin DOMAIN instructions(TopScope) /\ TopNext = scope_stack[1].iterating + 1
        /\ DOMAIN instructions(TopScope) = 1 .. Len(instructions(TopScope))
        /\ Len(instructions(TopScope)) \in Nat
    BY <1>1, TopSteps DEF TopScope
  <2>2. scope_stack[1].iterating <= Len(instructions(TopScope))
    BY <1>1, <1>2, <2>1, TopIs
  <2> QED
    BY <2>1, <2>2
<1> DEFINE d == Destructors(s, n)
           ends == <<"bind", end_of_scope(s)>>
           b == IF IsBranch(s) THEN <<ends>> ELSE <<>>
           after == AfterEnd(s)
<1>4. code' = code \o (d \o b) \o after
  BY <1>1, <1>3 DEF ScopeEnd
<1>5. PICK H \in Plans, K \in Plans :
        /\ H = Here(scope_stack) /\ K = Gone(s, "next") /\ H = Prefixed(d, K)
  <2>1. Here(scope_stack) = Arrives(s, n + 1)
    BY <1>1, <1>3 DEF Here
  <2>2. Here(scope_stack) \in Plans
    BY <1>2, HereIs
  <2>3. Gone(s, "next") \in Plans /\ Arrives(s, n + 1) = Prefixed(d, Gone(s, "next"))
    BY <1>2, <1>3, EndGoes
  <2> QED
    BY <2>1, <2>2, <2>3
<1>6. d \in Seq(Emitted) /\ Trail(H, d, K)
  <2>1. d \in Seq({"destruct"} \X (Nat \X Nat))
    BY <1>2, <1>3, EndGoes
  <2>2. d \in Seq(Calling) /\ d \in Seq(Emitted)
    BY <2>1, DestructorsCall
  <2> HIDE DEF d
  <2> QED
    BY <1>5, <2>2, TrailCalls
<1>7. b \in Seq(Emitted) /\ Trail(K, b, K)
  <2>1. ends \in Emitted
    BY EmittedIs
  <2>2. Does(ends, K, K)
    <3>1. K = Landing(end_of_scope(s))
      BY <1>5, Landings
    <3> QED
      BY <3>1, DoesBind
  <2> HIDE DEF ends
  <2>3. <<ends>> \in Seq(Emitted) /\ Trail(K, <<ends>>, K)
    BY <2>1, <2>2, OneEmitted, TrailOne
  <2>4. <<>> \in Seq(Emitted) /\ Trail(K, <<>>, K)
    BY NoneEmitted, TrailNone
  <2> QED
    BY <2>3, <2>4
<1>8. after \in Seq(Emitted) /\ Trail(K, after, Here(st2))
  <2>1. Ended(scope_stack, st2)
    BY <1>1 DEF Ended
  <2> QED
    BY <1>1, <1>2, <1>3, <1>5, <2>1, AfterGoes
<1> HIDE DEF d, b, after
<1>9. PICK E : E = Emitted
  OBVIOUS
<1>10. code \in Seq(E) /\ d \in Seq(E) /\ b \in Seq(E) /\ after \in Seq(E)
  BY <1>2, <1>6, <1>7, <1>8, <1>9
<1>11. PICK a \in Seq(E) : a = d \o b
  <2>1. d \o b \in Seq(E)
    BY <1>10
  <2> QED
    BY <2>1
<1>12. Trail(H, a, K)
  <2>1. Trail(H, d \o b, K)
    BY <1>6, <1>7, <1>10, TrailJoined
  <2> QED
    BY <1>11, <2>1
<1>13. PICK q \in Seq(E) : q = code \o a
  <2>1. code \o a \in Seq(E)
    BY <1>10
  <2> QED
    BY <2>1
<1>14. Trail(From(main, 1), q, K)
  <2>1. Trail(From(main, 1), code \o a, K)
    BY <1>5, <1>10, <1>12, TrailJoined
  <2> QED
    BY <1>13, <2>1
<1>15. Trail(From(main, 1), q \o after, Here(st2))
  BY <1>8, <1>10, <1>14, TrailJoined
<1> QED
  BY <1>4, <1>11, <1>13, <1>15

\* The epilogue ends the trail with nothing left to do.
LEMMA TrailFinishes ==
  ASSUME CompilingInv, Trail(From(main, 1), code, Here(scope_stack)), Epilogue
  PROVE  Trail(From(main, 1), code', Done)
<1> DEFINE x == <<"bind", exit_label>>
<1>1. code' = code \o <<x>> /\ Here(scope_stack) = Done
  BY DEF Epilogue, Here
<1>2. x \in Emitted /\ Done \in Plans /\ Does(x, Done, Done)
  <2>1. Done \in Plans
    BY PlansAre DEF CompilingInv, TreeInv
  <2> QED
    BY <2>1, EmittedIs, Landings, DoesBind
<1> HIDE DEF x
<1>3. PICK E : E = Emitted
  OBVIOUS
<1>4. code \in Seq(E) /\ <<x>> \in Seq(E) /\ Trail(Done, <<x>>, Done)
  BY <1>2, <1>3, OneEmitted, TrailOne DEF CompilingInv
<1>5. Trail(From(main, 1), code \o <<x>>, Done)
  BY <1>1, <1>4, TrailJoined
<1> QED
  BY <1>1, <1>5

-----------------------------------------------------------------------------
(* The code does what the function means.                                  *)

\* The builder puts an else after an if only.
LEMMA ElseBuild ==
  ASSUME BuilderType, TreeInv, ElseLater, Build
  PROVE  ElseLater'
<1>1. PICK s \in DOMAIN scopes, ins \in Instruction :
        Fits(s, ins) /\ (PushesIn(s, ins) \/ OpensIn(s, ins))
  BY BuildSteps
<1>2. /\ ins.op \notin Opening => DOMAIN scopes' = DOMAIN scopes
      /\ ins.op \in Opening => DOMAIN scopes' = DOMAIN scopes \cup {Len(scopes) + 1}
                               /\ scopes'[Len(scopes) + 1].instructions = <<>>
      /\ \A c \in DOMAIN scopes : c # s => scopes'[c].instructions = instructions(c)
      /\ scopes'[s].instructions = Append(instructions(s), ins)
  BY <1>1, BuildKeeps
<1>3. PICK list \in Seq(Instruction) : list = instructions(s)
  BY ScopeTyped DEF BuilderType
<1>4. PICK longer : longer = scopes'[s].instructions
  OBVIOUS
<1>5. /\ DOMAIN list = 1 .. Len(list) /\ Len(list) \in Nat
      /\ DOMAIN longer = DOMAIN list \cup {Len(list) + 1}
      /\ \A k \in DOMAIN list : longer[k] = list[k]
      /\ longer[Len(list) + 1] = ins
  <2> HIDE DEF Instruction
  <2> QED
    BY <1>2, <1>3, <1>4, Appended
<1>6. longer[1].op # "else"
  <2>1. CASE list # <<>>
    <3>1. 1 \in DOMAIN list
      <4> HIDE DEF Instruction
      <4> QED
        BY <1>5, <2>1
    <3> QED
      BY <1>3, <1>5, <3>1 DEF ElseLater
  <2>2. CASE list = <<>>
    <3>1. longer[1] = ins
      BY <1>5, <2>2
    <3>2. ins.op = "else" => list # <<>>
      BY <1>1, <1>3 DEF Fits
    <3> QED
      BY <2>2, <3>1, <3>2
  <2> QED
    BY <2>1, <2>2
<1>7. ASSUME NEW c \in DOMAIN scopes', 1 \in DOMAIN scopes'[c].instructions
      PROVE  scopes'[c].instructions[1].op # "else"
  <2>1. CASE c = s
    BY <1>4, <1>6, <2>1
  <2>2. CASE c \in DOMAIN scopes /\ c # s
    BY <1>2, <1>7, <2>2 DEF ElseLater, instructions
  <2>3. CASE c \notin DOMAIN scopes
    <3>1. scopes'[c].instructions = <<>>
      BY <1>2, <2>3
    <3> QED
      BY <1>7, <3>1
  <2> QED
    BY <2>1, <2>2, <2>3
<1> QED
  BY <1>7 DEF ElseLater, instructions

\* What a function means is a matter of its scopes alone.
LEMMA SameIf ==
  ASSUME NEW m, NEW s, NEW k, NEW d, instructions(s)' = instructions(s),
         \A c : else_branch(c)' = else_branch(c),
         \A r : After(m, s, k, r)' = After(m, s, k, r)
  PROVE  MeantIf(m, s, k, d)' = MeantIf(m, s, k, d)
<1> DEFINE c == instructions(s)[k].arg
<1>1. CASE d = <<>>
  BY <1>1 DEF MeantIf
<1>2. CASE d # <<>> /\ Head(d)
  BY <1>2 DEF MeantIf
<1>3. CASE d # <<>> /\ ~ Head(d) /\ else_branch(c) = {}
  BY <1>3 DEF MeantIf
<1>4. CASE d # <<>> /\ ~ Head(d) /\ else_branch(c) # {}
  BY <1>4 DEF MeantIf
<1> QED
  BY <1>1, <1>2, <1>3, <1>4

\* A step that leaves the program alone leaves the meaning of a loop alone.
LEMMA SameWhile ==
  ASSUME NEW m, NEW s, NEW k, NEW d, instructions(s)' = instructions(s),
         \A r : After(m, s, k, r)' = After(m, s, k, r)
  PROVE  MeantWhile(m, s, k, d)' = MeantWhile(m, s, k, d)
<1> DEFINE c == instructions(s)[k].arg
           iteration == Inside(m, c, c, d)
<1>1. CASE d = <<>>
  BY <1>1 DEF MeantWhile
<1>2. CASE d # <<>> /\ ~ Head(d)
  BY <1>2 DEF MeantWhile
<1>3. CASE d # <<>> /\ Head(d) /\ iteration.out = "next"
  BY <1>3 DEF MeantWhile
<1>4. CASE d # <<>> /\ Head(d) /\ iteration.out = "break"
  BY <1>4 DEF MeantWhile
<1>5. CASE d # <<>> /\ Head(d) /\ iteration.out \notin {"next", "break"}
  BY <1>5 DEF MeantWhile
<1> QED
  BY <1>1, <1>2, <1>3, <1>4, <1>5

\* A step that leaves what an instruction is made of alone leaves its meaning alone.
LEMMA SameMeant ==
  ASSUME NEW m, NEW s \in DOMAIN scopes, NEW k \in Nat \ {0}, NEW d,
         BuilderType, instructions(s)' = instructions(s), InLoop(s)' <=> InLoop(s),
         \A c : else_branch(c)' = else_branch(c),
         \A j : Destroyed(s, j)' = Destroyed(s, j),
         \A r : After(m, s, k, r)' = After(m, s, k, r)
  PROVE  Meant(m, s, k, d)' = Meant(m, s, k, d)
<1> DEFINE op == instructions(s)[k].op
<1>0. instructions(s)' = instructions(s)
  OBVIOUS
<1>1. CASE k > Len(instructions(s))
  <2>1. Destroyed(s, Len(instructions(s)))' = Destroyed(s, Len(instructions(s)))
    OBVIOUS
  <2> QED
    BY ONLY <1>0, <1>1, <2>1 DEF Meant
<1>2. CASE ~ k > Len(instructions(s)) /\ op \in {"declare", "construct", "else"}
  BY ONLY <1>0, <1>2 DEF Meant
<1>3. CASE ~ k > Len(instructions(s)) /\ op = "return"
  <2>1. After(m, s, k, Run(<<>>, d, "return"))' = After(m, s, k, Run(<<>>, d, "return"))
    OBVIOUS
  <2> QED
    BY ONLY <1>0, <1>3, <2>1 DEF Meant
<1>4. CASE ~ k > Len(instructions(s)) /\ op = "break"
  <2>1. After(m, s, k, Run(<<>>, d, "break"))' = After(m, s, k, Run(<<>>, d, "break"))
    OBVIOUS
  <2>2. InLoop(s)' <=> InLoop(s)
    OBVIOUS
  <2> QED
    BY ONLY <1>0, <1>4, <2>1, <2>2 DEF Meant
<1>5. CASE ~ k > Len(instructions(s)) /\ op = "scope"
  <2>1. After(m, s, k, m[<<instructions(s)[k].arg, 1, d>>])'
          = After(m, s, k, m[<<instructions(s)[k].arg, 1, d>>])
    OBVIOUS
  <2> QED
    BY ONLY <1>0, <1>5, <2>1 DEF Meant
<1>6. CASE ~ k > Len(instructions(s)) /\ op = "if"
  <2>1. MeantIf(m, s, k, d)' = MeantIf(m, s, k, d)
    BY SameIf
  <2> QED
    BY ONLY <1>0, <1>6, <2>1 DEF Meant
<1>7. CASE ~ k > Len(instructions(s)) /\ op = "while"
  <2>1. MeantWhile(m, s, k, d)' = MeantWhile(m, s, k, d)
    BY SameWhile
  <2> QED
    BY ONLY <1>0, <1>7, <2>1 DEF Meant
<1>8. ~ k > Len(instructions(s)) =>
        op \in {"declare", "construct", "else", "return", "break", "scope", "if", "while"}
  <2>1. instructions(s) \in Seq(Instruction)
    BY ScopeTyped DEF BuilderType
  <2>2. ~ k > Len(instructions(s)) => instructions(s)[k] \in Instruction
    <3>1. PICK list, I : list = instructions(s) /\ I = Instruction
      OBVIOUS
    <3> QED
      BY <2>1, <3>1
  <2> QED
    BY <2>2 DEF Instruction, Opening, Branch
<1> HIDE DEF op
<1> QED
  BY ONLY <1>1, <1>2, <1>3, <1>4, <1>5, <1>6, <1>7, <1>8

\* A step that leaves the program alone leaves all plans alone.
LEMMA SamePlan ==
  ASSUME BuilderType, UNCHANGED builderVars
  PROVE  /\ \A s, k, d : Plan(s, k, d)' = Plan(s, k, d)
         /\ \A s, k : From(s, k)' = From(s, k)
         /\ \A s, out : Gone(s, out)' = Gone(s, out)
<1>1. scopes' = scopes
  BY DEF builderVars
<1>2. ancestors' = ancestors
  BY <1>1 DEF ancestors
<1>3. /\ \A s : InLoop(s)' <=> InLoop(s)
      /\ \A s : IsLoop(s)' <=> IsLoop(s)
      /\ \A s : instructions(s)' = instructions(s)
      /\ \A s : else_branch(s)' = else_branch(s)
  BY <1>1, <1>2 DEF InLoop, IsLoop, opener, instructions, else_branch
<1>4. \A s, k : Destroyed(s, k)' = Destroyed(s, k)
  BY <1>1 DEF Destroyed, Constructed, instructions
<1>5. \A m, s, k, r : After(m, s, k, r)' = After(m, s, k, r)
  BY <1>4 DEF After
<1>6. \A m : \A p \in Points : Meant(m, p[1], p[2], p[3])' = Meant(m, p[1], p[2], p[3])
  <2> SUFFICES ASSUME NEW m, NEW p \in Points
               PROVE  Meant(m, p[1], p[2], p[3])' = Meant(m, p[1], p[2], p[3])
    OBVIOUS
  <2>1. p[1] \in DOMAIN scopes /\ p[2] \in Nat \ {0}
    BY DEF Points
  <2>2. \A r : After(m, p[1], p[2], r)' = After(m, p[1], p[2], r)
    BY <1>5
  <2>3. /\ instructions(p[1])' = instructions(p[1]) /\ (InLoop(p[1])' <=> InLoop(p[1]))
        /\ \A c : else_branch(c)' = else_branch(c)
        /\ \A j : Destroyed(p[1], j)' = Destroyed(p[1], j)
    BY <1>3, <1>4
  <2> QED
    BY <2>1, <2>2, <2>3, SameMeant
<1>7. meaning' = meaning
  <2>1. Points' = Points
    BY <1>1 DEF Points
  <2> DEFINE Holding(m) == m = [p \in Points |-> Meant(m, p[1], p[2], p[3])]
  <2>2. \A m : Holding(m)' <=> Holding(m)
    BY <1>6, <2>1
  <2>3. meaning = CHOOSE m : Holding(m)
    BY DEF meaning
  <2>4. meaning' = CHOOSE m : Holding(m)'
    BY DEF meaning
  <2> HIDE DEF Holding
  <2> QED
    BY <2>2, <2>3, <2>4
<1>8. \A f, s, left, out : Goes(f, s, left, out)' = Goes(f, s, left, out)
  BY <1>1, <1>3, <1>4, <1>7 DEF Goes, Resumes
<1>9. \A f : GoesOn(f)' <=> GoesOn(f)
  BY <1>1, <1>8 DEF GoesOn, Exits
<1>10. go' = go
  BY <1>9 DEF go
<1>11. \A s, k, d : Plan(s, k, d)' = Plan(s, k, d)
  BY <1>7, <1>10 DEF Plan
<1>12. \A s, k : From(s, k)' = From(s, k)
  BY <1>11 DEF From
<1>13. \A s, out : Gone(s, out)' = Gone(s, out)
  BY <1>10 DEF Gone
<1> QED
  BY <1>11, <1>12, <1>13

\* A step that leaves the program alone leaves its trails alone.
LEMMA SameFaith ==
  ASSUME BuilderType, UNCHANGED builderVars
  PROVE  /\ ElseLater' <=> ElseLater
         /\ Regular' <=> Regular
         /\ \A st2, q2 : st2 = scope_stack' /\ q2 = code' /\ Trail(From(main, 1), q2, Here(st2))
                           => Trail(From(main, 1), code, Here(scope_stack))'
         /\ \A f, q2 : q2 = code' /\ IsTrail(f, From(main, 1), q2, Done)
                           => IsTrail(f, From(main, 1), code, Done)'
<1>1. scopes' = scopes
  BY DEF builderVars
<1>2. ElseLater' <=> ElseLater
  BY <1>1 DEF ElseLater, instructions
<1>3. Regular' <=> Regular
  BY SameRegular
<1>4. /\ \A s, k : From(s, k)' = From(s, k)
      /\ \A s, out : Gone(s, out)' = Gone(s, out)
  BY SamePlan
<1>5. \A l : Landing(l)' = Landing(l)
  BY <1>4 DEF Landing
<1>6. \A l : Idle(l)' <=> Idle(l)
  BY <1>1 DEF Idle, opener, else_branch, instructions
<1>7. \A ins, F, G : Does(ins, F, G)' <=> Does(ins, F, G)
  BY <1>5, <1>6 DEF Does
<1>8. \A s, k : Arrives(s, k)' = Arrives(s, k)
  BY <1>1, <1>4 DEF Arrives, instructions
<1>9. ASSUME NEW f, NEW q2, NEW G, q2 = code', IsTrail(f, From(main, 1), q2, G)
      PROVE  IsTrail(f, From(main, 1), code, G)'
  BY <1>4, <1>7, <1>9 DEF IsTrail
<1>10. ASSUME NEW st2, NEW q2, st2 = scope_stack', q2 = code',
              Trail(From(main, 1), q2, Here(st2))
       PROVE  Trail(From(main, 1), code, Here(scope_stack))'
  <2>1. PICK G : G = Here(st2)
    OBVIOUS
  <2>2. Here(scope_stack)' = G
    BY <1>8, <1>10, <2>1 DEF Here
  <2>3. PICK f : IsTrail(f, From(main, 1), q2, G)
    BY <1>10, <2>1 DEF Trail
  <2>4. IsTrail(f, From(main, 1), code, G)'
    BY <1>9, <1>10, <2>3
  <2>5. IsTrail(f, From(main, 1), code, Here(scope_stack))'
    BY <2>2, <2>4 DEF IsTrail
  <2> QED
    BY <2>5 DEF Trail
<1>11. Done' = Done
  BY DEF Done
<1>12. ASSUME NEW f, NEW q2, q2 = code', IsTrail(f, From(main, 1), q2, Done)
       PROVE  IsTrail(f, From(main, 1), code, Done)'
  <2>1. PICK G : G = Done
    OBVIOUS
  <2>2. IsTrail(f, From(main, 1), code, G)'
    BY <1>9, <1>12, <2>1
  <2> QED
    BY <1>11, <2>1, <2>2 DEF IsTrail
<1> QED
  BY <1>2, <1>3, <1>10, <1>12

\* With the decisions e the code has done t and gets to F: with whatever decisions to come, the
\* function does t and what F tells.
Foretells(F, a, e, t) ==
  \A d \in Seq(BOOLEAN) : Plan(main, 1, e \o d) = Before(t, F[<<a, d>>])

\* After a call the rest of the plan foretells the same run.
LEMMA ForetellsCall ==
  ASSUME NEW ins \in Event, NEW F, NEW G \in Plans, F = Prefixed(<<ins>>, G),
         NEW t \in Seq(Event), NEW a \in BOOLEAN, NEW e, Foretells(F, a, e, t)
  PROVE  Foretells(G, a, e, Append(t, ins))
<1> SUFFICES ASSUME NEW d \in Seq(BOOLEAN)
             PROVE  Plan(main, 1, e \o d) = Before(Append(t, ins), G[<<a, d>>])
  BY DEF Foretells
<1>1. PICK p : p = <<a, d>>
  OBVIOUS
<1>2. p \in Inputs /\ G[p] \in Courses
  BY <1>1 DEF Inputs, Plans
<1>3. F[p] = Before(<<ins>>, G[p])
  BY <1>2 DEF Prefixed
<1>4. <<ins>> \in Seq(Event) /\ t \o <<ins>> = Append(t, ins)
  <2>1. PICK E : E = Event
    OBVIOUS
  <2>2. ins \in E /\ t \in Seq(E)
    BY <2>1
  <2>3. <<ins>> \in Seq(E) /\ t \o <<ins>> = Append(t, ins)
    BY <2>2
  <2> QED
    BY <2>1, <2>3
<1>5. Before(t, Before(<<ins>>, G[p])) = Before(t \o <<ins>>, G[p])
  BY <1>2, <1>4, BeforeIs
<1>6. Plan(main, 1, e \o d) = Before(t, F[p])
  BY <1>1 DEF Foretells
<1> QED
  BY <1>1, <1>3, <1>4, <1>5, <1>6

\* After a test the plan of the branch taken foretells the same run.
LEMMA ForetellsEval ==
  ASSUME NEW ins \in Event, ins[1] = "eval", NEW F, NEW G \in Plans, Does(ins, F, G),
         NEW t \in Seq(Event), NEW a \in BOOLEAN, NEW b \in BOOLEAN, NEW e \in Seq(BOOLEAN),
         Foretells(F, a, e, t)
  PROVE  Foretells(G, b, Append(e, b), Append(t, ins))
<1> SUFFICES ASSUME NEW d \in Seq(BOOLEAN)
             PROVE  Plan(main, 1, Append(e, b) \o d) = Before(Append(t, ins), G[<<b, d>>])
  BY DEF Foretells
<1>1. PICK n : n = <<b>> \o d
  OBVIOUS
<1>2. /\ n \in Seq(BOOLEAN) /\ n # <<>> /\ Head(n) = b /\ Tail(n) = d
      /\ Append(e, b) \o d = e \o n
  <2>1. PICK B : B = BOOLEAN
    OBVIOUS
  <2>2. b \in B /\ d \in Seq(B) /\ e \in Seq(B)
    BY <2>1
  <2>3. <<b>> \o d \in Seq(B) /\ <<b>> \o d # <<>> /\ Tail(<<b>> \o d) = d
    BY <2>2
  <2>4. Head(<<b>> \o d) = b
    BY <2>2
  <2>5. Append(e, b) \o d = e \o (<<b>> \o d)
    BY <2>2
  <2> QED
    BY <1>1, <2>1, <2>3, <2>4, <2>5, Zenon
<1>3. PICK p, r : p = <<a, n>> /\ r = <<b, d>>
  OBVIOUS
<1>4. p \in Inputs /\ p[2] = n /\ r \in Inputs /\ G[r] \in Courses
  BY <1>2, <1>3 DEF Inputs, Plans
<1>5. F[p] = Before(<<ins>>, G[<<Head(p[2]), Tail(p[2])>>])
  BY <1>2, <1>4 DEF Does
<1>6. F[p] = Before(<<ins>>, G[r])
  BY <1>2, <1>3, <1>4, <1>5, Zenon
<1>7. <<ins>> \in Seq(Event) /\ t \o <<ins>> = Append(t, ins)
  <2>1. PICK E : E = Event
    OBVIOUS
  <2>2. ins \in E /\ t \in Seq(E)
    BY <2>1
  <2>3. <<ins>> \in Seq(E) /\ t \o <<ins>> = Append(t, ins)
    BY <2>2
  <2> QED
    BY <2>1, <2>3
<1>8. Before(t, Before(<<ins>>, G[r])) = Before(t \o <<ins>>, G[r])
  BY <1>4, <1>7, BeforeIs
<1>9. Plan(main, 1, e \o n) = Before(t, F[p])
  BY <1>2, <1>3 DEF Foretells
<1> QED
  BY <1>2, <1>3, <1>6, <1>7, <1>8, <1>9

\* The code follows the function: f tells what is to be done at each place of it, and with the
\* decisions so far it has done what the function does before that.
Follows(f) == IsTrail(f, From(main, 1), code, Done) /\ Foretells(f[pc], al, decisions, trace)

\* While the compiler is at work, its code ends where it has still to go on; then the code follows
\* the function.  That concerns functions that are Regular.
FaithInv ==
  /\ ElseLater
  /\ phase \in {"building", "compiling"} => decisions = <<>>
  /\ Regular /\ phase = "compiling" => Trail(From(main, 1), code, Here(scope_stack))
  /\ Regular /\ phase = "running" => \E f : Follows(f)
  /\ Regular /\ phase = "returned" => Plan(main, 1, decisions) = Run(trace, <<>>, "next")

\* In the beginning nothing has been compiled, and main is empty.
LEMMA InitFaith == Init => FaithInv
<1> SUFFICES ASSUME Init PROVE FaithInv
  OBVIOUS
<1>1. phase = "building" /\ decisions = <<>>
  BY DEF Init, CompilerInit
<1>2. \A s \in DOMAIN scopes : DOMAIN instructions(s) = {}
  <2> DEFINE first == [parent_scope |-> 0, opener |-> 0, instructions |-> <<>>]
  <2>1. scopes = <<first>>
    BY DEF Init, BuilderInit
  <2>2. first.instructions = <<>>
    OBVIOUS
  <2> HIDE DEF first
  <2>3. DOMAIN scopes = {1} /\ scopes[1] = first
    BY <2>1
  <2> QED
    BY <2>2, <2>3 DEF instructions
<1>3. ElseLater
  BY <1>2 DEF ElseLater
<1> QED
  BY <1>1, <1>3 DEF FaithInv

\* Before its first instruction the code has done nothing, and is to do the function.
LEMMA FollowsFirst ==
  ASSUME BuilderType, TreeInv, NEW f, NEW q, IsTrail(f, From(main, 1), q, Done),
         NEW a \in BOOLEAN
  PROVE  Foretells(f[1], a, <<>>, <<>>)
<1> SUFFICES ASSUME NEW d \in Seq(BOOLEAN)
             PROVE  Plan(main, 1, <<>> \o d) = Before(<<>>, f[1][<<a, d>>])
  BY DEF Foretells
<1>1. f[1] = From(main, 1)
  BY DEF IsTrail
<1>2. PICK p : p = <<a, d>>
  OBVIOUS
<1>3. p \in Inputs /\ p[2] = d
  BY <1>2 DEF Inputs
<1>4. f[1][p] = Plan(main, 1, d)
  BY <1>1, <1>3 DEF From
<1>5. main \in DOMAIN scopes /\ 1 \in Nat \ {0}
  BY DEF TreeInv
<1>6. PICK r \in Courses : r = Plan(main, 1, d)
  BY <1>5, PlanIs
<1>7. <<>> \in Seq(Event)
  BY NoEvents
<1>8. Before(<<>>, r) = r
  BY <1>7, BeforeIs
<1>9. <<>> \o d = d
  OBVIOUS
<1> QED
  BY <1>2, <1>4, <1>6, <1>8, <1>9

\* Every step of the compiler extends the trail of its code to what it still has to emit.
LEMMA FaithCompile ==
  ASSUME TypeInv, FlowInv, FaithInv, Compile, UNCHANGED runVars
  PROVE  FaithInv'
<1>1. UNCHANGED builderVars /\ pc' = pc /\ trace' = trace /\ al' = al /\ decisions' = decisions
  BY DEF Compile, compile, Declare, Construct, Return, ScopeCreate, NotReported, If, Else,
         While, Break, EndScope, Epilogue, runVars
<1>2. phase \in {"building", "compiling"} /\ pc = 1
      /\ phase' \in {"compiling", "running", "raised"}
  BY DEF TypeInv, Compile, compile, Declare, Construct, Return, ScopeCreate, NotReported, If, Else,
         While, Break, EndScope, Epilogue, Visits, VisitsBranch
<1>3. BuilderType /\ TreeInv /\ StackInv(scope_stack) /\ al \in BOOLEAN
  BY DEF TypeInv
<1>4. ElseLater /\ ElseLater' /\ (Regular' => Regular)
  BY <1>1, <1>3, SameFaith DEF FaithInv
<1>5. decisions = <<>> /\ trace = <<>>
  BY <1>2 DEF FaithInv, FlowInv
<1> SUFFICES ASSUME Regular'
             PROVE  /\ phase' = "compiling" => Trail(From(main, 1), code, Here(scope_stack))'
                    /\ phase' = "running" => \E f : Follows(f)'
  BY <1>1, <1>2, <1>4, <1>5 DEF FaithInv
<1>6. PICK st2, q2 : st2 = scope_stack' /\ q2 = code'
  OBVIOUS
<1>7. ASSUME Trail(From(main, 1), q2, Here(st2))
      PROVE  Trail(From(main, 1), code, Here(scope_stack))'
  BY <1>1, <1>3, <1>6, <1>7, SameFaith
<1>8. CASE compile
  <2> DEFINE f == [scope |-> main, iterating |-> 0]
  <2>1. phase' = "compiling" /\ st2 = <<f>> /\ q2 = code /\ code = <<>>
    BY <1>6, <1>8 DEF compile, TypeInv
  <2>2. Here(st2) = From(main, 1)
    <3>1. f.scope = main /\ f.iterating = 0
      OBVIOUS
    <3> HIDE DEF f
    <3>2. st2 # <<>> /\ st2[1] = f
      BY <2>1
    <3>3. Here(st2) = Arrives(main, 0 + 1)
      BY <3>1, <3>2 DEF Here
    <3>4. Arrives(main, 1) = From(main, 1)
      BY <1>3, <1>4, ArrivesIs DEF TreeInv
    <3> QED
      BY <3>3, <3>4
  <2>3. From(main, 1) \in Plans
    BY <1>3, PlansAre DEF TreeInv
  <2>4. Trail(From(main, 1), q2, Here(st2))
    BY <2>1, <2>2, <2>3, TrailNone
  <2> QED
    BY <1>7, <2>1, <2>4
<1>9. CASE ~ compile
  <2>1. CompilingInv
    BY <1>9 DEF TypeInv, CompilingInv, Compile, Declare, Construct, Return, ScopeCreate,
       NotReported, If, Else, While, Break, EndScope, Epilogue, Visits, VisitsBranch
  <2>2. Trail(From(main, 1), code, Here(scope_stack))
    BY <1>4, <2>1 DEF FaithInv, CompilingInv
  <2>3. ASSUME phase' = phase, Trail(From(main, 1), q2, Here(st2))
        PROVE  /\ phase' = "compiling" => Trail(From(main, 1), code, Here(scope_stack))'
               /\ phase' = "running" => \E f : Follows(f)'
    <3>1. phase' = "compiling"
      BY <2>1, <2>3 DEF CompilingInv
    <3> QED
      BY <1>7, <2>3, <3>1
  <2>4. CASE Declare \/ Construct \/ Break
    <3>1. Trail(From(main, 1), code', Here(st2))
      BY <1>4, <1>6, <2>1, <2>2, <2>4, TrailContinues
    <3> QED
      BY <1>6, <2>3, <2>4, <3>1 DEF Declare, Construct, Break
  <2>5. CASE ScopeCreate \/ If \/ Else \/ While
    <3>1. Trail(From(main, 1), code', Here(st2))
      BY <1>4, <1>6, <2>1, <2>2, <2>5, TrailOpens
    <3> QED
      BY <1>6, <2>3, <2>5, <3>1 DEF ScopeCreate, If, Else, While
  <2>6. CASE Return
    <3>1. Trail(From(main, 1), code', Here(st2))
      BY <1>4, <1>6, <2>1, <2>2, <2>6, TrailReturns
    <3> QED
      BY <1>6, <2>3, <2>6, <3>1 DEF Return
  <2>7. CASE EndScope
    <3>1. Trail(From(main, 1), code', Here(st2))
      BY <1>4, <1>6, <2>1, <2>2, <2>7, TrailEnds
    <3> QED
      BY <1>6, <2>3, <2>7, <3>1 DEF EndScope
  <2>8. CASE NotReported
    BY <2>8 DEF NotReported
  <2>9. CASE Epilogue
    <3>1. phase' = "running"
      BY <2>9 DEF Epilogue
    <3>2. Trail(From(main, 1), q2, Done)
      BY <1>6, <2>1, <2>2, <2>9, TrailFinishes
    <3>3. PICK f : IsTrail(f, From(main, 1), q2, Done)
      BY <3>2 DEF Trail
    <3>4. IsTrail(f, From(main, 1), code, Done)'
      BY <1>1, <1>3, <1>6, <3>3, SameFaith
    <3>5. PICK g : g = f[1]
      OBVIOUS
    <3>6. Foretells(g, al, <<>>, <<>>)
      BY <1>3, <3>3, <3>5, FollowsFirst
    <3>7. Foretells(f[pc], al, decisions, trace)'
      <4>1. \A d \in Seq(BOOLEAN) : Plan(main, 1, <<>> \o d) = Before(<<>>, g[<<al, d>>])
        BY <3>6 DEF Foretells
      <4>2. \A d : Plan(main, 1, <<>> \o d)' = Plan(main, 1, <<>> \o d)
        BY <1>1, <1>3, SamePlan
      <4>3. \A d \in Seq(BOOLEAN) : Plan(main, 1, <<>> \o d)' = Before(<<>>, g[<<al, d>>])
        BY <4>1, <4>2
      <4>4. pc' = 1 /\ al' = al /\ decisions' = <<>> /\ trace' = <<>>
        BY <1>1, <1>2, <1>5
      <4> QED
        BY <3>5, <4>3, <4>4 DEF Foretells
    <3>8. Follows(f)'
      BY <3>4, <3>7 DEF Follows
    <3> QED
      BY <3>1, <3>8
  <2> QED
    BY <1>9, <2>4, <2>5, <2>6, <2>7, <2>8, <2>9 DEF Compile
<1> QED
  BY <1>8, <1>9

\* A step of the processor that leaves program and code alone keeps to the same trail.
LEMMA SameForetells ==
  ASSUME BuilderType, UNCHANGED <<builderVars, code>>, NEW f, IsTrail(f, From(main, 1), code, Done),
         Foretells(f[pc'], al', decisions', trace')
  PROVE  Follows(f)'
<1>1. PICK q2, g, a, e, t : q2 = code' /\ g = f[pc'] /\ a = al' /\ e = decisions' /\ t = trace'
  OBVIOUS
<1>2. IsTrail(f, From(main, 1), code, Done)'
  <2>1. IsTrail(f, From(main, 1), q2, Done)
    BY <1>1
  <2> QED
    BY <1>1, <2>1, SameFaith
<1>3. Foretells(f[pc], al, decisions, trace)'
  <2>1. \A d \in Seq(BOOLEAN) : Plan(main, 1, e \o d) = Before(t, g[<<a, d>>])
    BY <1>1 DEF Foretells
  <2>2. \A d : Plan(main, 1, e \o d)' = Plan(main, 1, e \o d)
    BY SamePlan
  <2>3. \A d \in Seq(BOOLEAN) : Plan(main, 1, e \o d)' = Before(t, g[<<a, d>>])
    BY <2>1, <2>2
  <2> QED
    BY <1>1, <2>3 DEF Foretells
<1> QED
  BY <1>2, <1>3 DEF Follows

\* Each instruction of the code does what the function does next, or leads to where it does.
LEMMA FaithExecute ==
  ASSUME TypeInv, FlowInv, FaithInv, Execute,
         UNCHANGED <<builderVars, scope_stack, loop_stack, code>>
  PROVE  FaithInv'
<1>1. phase = "running" /\ phase' \in {"running", "lost"}
  BY DEF Execute, Call, Label, Eval, JumpIf, JumpAlways, At, Advance, Jump
<1>2. PICK n \in Nat : n = Len(code) /\ DOMAIN code = 1 .. n
  <2>1. code \in Seq(Emitted)
    BY DEF TypeInv
  <2> HIDE DEF Emitted
  <2> QED
    BY <2>1
<1>3. PICK k \in 1 .. n : k = pc
  <2>1. pc <= Len(code) /\ pc \in 1 .. Len(code) + 1
    BY DEF TypeInv, Execute, Call, Label, Eval, JumpIf, JumpAlways, At
  <2> QED
    BY <1>2, <2>1
<1>4. PICK ins \in Emitted : ins = code[k]
  <2>1. code \in Seq(Emitted)
    BY DEF TypeInv
  <2>2. code[k] \in Emitted
    <3> HIDE DEF Emitted
    <3> QED
      BY <1>2, <2>1
  <2> QED
    BY <2>2
<1>5. ins[1] \in {"construct", "destruct", "eval"} => ins \in Event
  <2>1. DOMAIN scopes \subseteq Nat
    BY ScopeTyped DEF TypeInv, BuilderType
  <2> QED
    BY <2>1 DEF Emitted, Jumping, Event
<1>6. BuilderType /\ trace \in Seq(Event) /\ al \in BOOLEAN /\ decisions \in Seq(BOOLEAN)
  BY DEF TypeInv, FlowInv
<1>7. ElseLater' /\ (Regular' => Regular)
  BY <1>6, SameFaith DEF FaithInv
<1> SUFFICES ASSUME Regular', phase' = "running" PROVE \E f : Follows(f)'
  BY <1>1, <1>7 DEF FaithInv
<1>8. PICK f : Follows(f)
  BY <1>1, <1>7 DEF FaithInv
<1>9. IsTrail(f, From(main, 1), code, Done)
  BY <1>8 DEF Follows
<1>10. /\ f \in [1 .. n + 1 -> Plans]
       /\ \A j \in 1 .. n : Does(code[j], f[j], f[j + 1])
  BY <1>2, <1>9 DEF IsTrail
<1>11. PICK F \in Plans, G \in Plans : F = f[k] /\ G = f[k + 1]
  <2>1. k \in 1 .. n + 1 /\ k + 1 \in 1 .. n + 1
    OBVIOUS
  <2> HIDE DEF Plans
  <2> QED
    BY <1>10, <2>1
<1>12. Does(ins, F, G)
  BY <1>4, <1>10, <1>11
<1>13. Foretells(F, al, decisions, trace)
  BY <1>3, <1>8, <1>11 DEF Follows
<1>14. Advance => pc' = k + 1
  BY <1>3 DEF Advance
<1>15. ASSUME Jump(operand), ~ Idle(ins[2])
       PROVE  f[pc'] = Landing(ins[2])
  <2>1. operand = ins[2]
    BY <1>3, <1>4 DEF operand
  <2>2. PICK j \in DOMAIN code : pc' = j /\ code[j] = <<"bind", ins[2]>>
    BY <1>1, <1>15, <2>1 DEF Jump
  <2>3. Does(<<"bind", ins[2]>>, f[j], f[j + 1])
    BY <1>2, <1>10, <2>2
  <2>4. f[j] = Landing(ins[2])
    BY <1>15, <2>3 DEF Does
  <2> QED
    BY <2>2, <2>4
<1>16. ASSUME NEW H, H = f[pc'], UNCHANGED <<al, decisions, trace>>,
              \A d \in Seq(BOOLEAN) : F[<<al, d>>] = H[<<al, d>>]
       PROVE  Foretells(f[pc'], al', decisions', trace')
  BY <1>13, <1>16 DEF Foretells
<1>17. Foretells(f[pc'], al', decisions', trace')
  <2>1. CASE Call
    <3>1. /\ ins[1] \in {"construct", "destruct"} /\ trace' = Append(trace, ins) /\ Advance
          /\ al' = al /\ decisions' = decisions
      BY <1>3, <1>4, <2>1 DEF Call, At
    <3>2. F = Prefixed(<<ins>>, G)
      BY <1>12, <3>1 DEF Does
    <3>3. Foretells(G, al, decisions, Append(trace, ins))
      BY <1>5, <1>6, <1>13, <3>1, <3>2, ForetellsCall
    <3> QED
      BY <1>11, <1>14, <3>1, <3>3
  <2>2. CASE Eval
    <3>1. /\ ins[1] = "eval" /\ trace' = Append(trace, ins) /\ Advance
          /\ al' \in BOOLEAN /\ decisions' = Append(decisions, al')
      BY <1>3, <1>4, <2>2 DEF Eval, At
    <3>2. PICK b \in BOOLEAN : b = al'
      BY <3>1, Zenon
    <3>3. Foretells(G, b, Append(decisions, b), Append(trace, ins))
      BY <1>5, <1>6, <1>12, <1>13, <3>1, ForetellsEval
    <3>4. decisions' = Append(decisions, b) /\ pc' = k + 1 /\ f[pc'] = G
      BY <1>11, <1>14, <3>1, <3>2, Zenon
    <3> QED
      BY <3>1, <3>2, <3>3, <3>4, Zenon
  <2>3. CASE Label
    <3>1. /\ ins[1] = "bind" /\ Advance
          /\ UNCHANGED <<al, decisions, trace>>
      BY <1>3, <1>4, <2>3 DEF Label, At
    <3>2. F = G /\ f[pc'] = G
      BY <1>11, <1>12, <1>14, <3>1 DEF Does
    <3> QED
      BY <1>16, <3>1, <3>2
  <2>4. CASE JumpIf
    <3>1. /\ ins[1] \in {"je", "jne"} /\ UNCHANGED <<al, decisions, trace>>
          /\ ~ Idle(ins[2])
      BY <1>3, <1>4, <1>12, <2>4 DEF JumpIf, At, Does
    <3>2. PICK L, H : L = Landing(ins[2]) /\ H = f[pc']
      OBVIOUS
    <3>3. (Advance => H = G) /\ (Jump(operand) => H = L)
      BY <1>11, <1>14, <1>15, <3>1, <3>2
    <3>4. \A d \in Seq(BOOLEAN) : <<al, d>> \in Inputs /\ Told(<<al, d>>) = al
      BY <1>6, Zenon DEF Inputs, Told
    <3>5. CASE ins[1] = "je"
      <4>1. \A p \in Inputs : F[p] = IF Told(p) THEN G[p] ELSE L[p]
        BY <1>12, <3>2, <3>5 DEF Does
      <4>2. At("jne") = FALSE
        BY <1>3, <1>4, <3>5 DEF At
      <4>3. IF al = FALSE THEN Jump(operand) ELSE Advance
        BY <2>4, <4>2, Zenon DEF JumpIf
      <4>4. \A d \in Seq(BOOLEAN) : F[<<al, d>>] = H[<<al, d>>]
        <5>1. CASE al = TRUE
          BY <3>3, <3>4, <4>1, <4>3, <5>1
        <5>2. CASE al = FALSE
          BY <3>3, <3>4, <4>1, <4>3, <5>2
        <5> QED
          BY <1>6, <5>1, <5>2
      <4> QED
        BY <1>16, <3>1, <3>2, <4>4
    <3>6. CASE ins[1] = "jne"
      <4>1. \A p \in Inputs : F[p] = IF Told(p) THEN L[p] ELSE G[p]
        BY <1>12, <3>2, <3>6 DEF Does
      <4>2. At("jne") = TRUE
        BY <1>1, <1>2, <1>3, <1>4, <3>6 DEF At
      <4>3. IF al = TRUE THEN Jump(operand) ELSE Advance
        BY <2>4, <4>2, Zenon DEF JumpIf
      <4>4. \A d \in Seq(BOOLEAN) : F[<<al, d>>] = H[<<al, d>>]
        <5>1. CASE al = TRUE
          BY <3>3, <3>4, <4>1, <4>3, <5>1
        <5>2. CASE al = FALSE
          BY <3>3, <3>4, <4>1, <4>3, <5>2
        <5> QED
          BY <1>6, <5>1, <5>2
      <4> QED
        BY <1>16, <3>1, <3>2, <4>4
    <3> QED
      BY <3>1, <3>5, <3>6
  <2>5. CASE JumpAlways
    <3>1. /\ ins[1] = "jmp" /\ Jump(operand)
          /\ UNCHANGED <<al, decisions, trace>>
      BY <1>3, <1>4, <2>5 DEF JumpAlways, At
    <3>2. ~ Idle(ins[2]) /\ F = Landing(ins[2])
      BY <1>12, <3>1 DEF Does
    <3>3. f[pc'] = F
      BY <1>15, <3>1, <3>2
    <3> QED
      BY <1>16, <3>1, <3>3
  <2> QED
    BY <2>1, <2>2, <2>3, <2>4, <2>5 DEF Execute
<1>18. Follows(f)'
  BY <1>6, <1>9, <1>17, SameForetells
<1> QED
  BY <1>18

\* What the function does with the decisions there are.
LEMMA MainPlan ==
  ASSUME BuilderType, TreeInv, NEW d \in Seq(BOOLEAN), NEW m, m = meaning[<<main, 1, d>>]
  PROVE  /\ m \in Courses
         /\ Plan(main, 1, d) = Run(m.events, m.left, IF m.out = "return" THEN "next" ELSE m.out)
<1>1. main \in DOMAIN scopes /\ 1 \in Nat \ {0}
  BY DEF TreeInv
<1>2. m \in Courses
  BY <1>1, MeaningIs
<1>3. /\ m.events \in Seq(Event) /\ m.left \in Seq(BOOLEAN) /\ m.out \in Outs
  BY <1>2 DEF Courses, Outs
<1>4. PICK out : out = IF m.out = "return" THEN "next" ELSE m.out
  OBVIOUS
<1>5. go[<<main, m.left, m.out>>] = Run(<<>>, m.left, out)
  <2>1. go[<<main, m.left, m.out>>] = Goes(go, main, m.left, m.out)
    BY <1>1, <1>3, GoIs DEF GoesOn
  <2>2. Goes(go, main, m.left, m.out) = Run(<<>>, m.left, out)
    BY <1>4 DEF Goes
  <2> QED
    BY <2>1, <2>2
<1>6. Plan(main, 1, d) = Before(m.events, Run(<<>>, m.left, out))
  BY <1>5 DEF Plan, Finish
<1>7. m.events \o <<>> = m.events
  <2>1. PICK E, q : E = Event /\ q = m.events
    OBVIOUS
  <2>2. q \in Seq(E)
    BY <1>3, <2>1
  <2>3. q \o <<>> = q
    BY <2>2
  <2> QED
    BY <2>1, <2>3
<1>8. Before(m.events, Run(<<>>, m.left, out)) = Run(m.events, m.left, out)
  BY <1>7 DEF Before, Run
<1> QED
  BY <1>2, <1>4, <1>6, <1>8

\* What the code has told when it stops to do more with the decisions there are.
LEMMA ForetellsNow ==
  ASSUME NEW F, NEW a, NEW e \in Seq(BOOLEAN), NEW t \in Seq(Event), Foretells(F, a, e, t),
         NEW out, F[<<a, <<>>>>] = Run(<<>>, <<>>, out)
  PROVE  Plan(main, 1, e) = Run(t, <<>>, out)
<1>1. <<>> \in Seq(BOOLEAN) /\ e \o <<>> = e
  <2>1. PICK B : B = BOOLEAN
    OBVIOUS
  <2>2. e \in Seq(B)
    BY <2>1
  <2>3. <<>> \in Seq(B) /\ e \o <<>> = e
    BY <2>2
  <2> QED
    BY <2>1, <2>3
<1>2. t \o <<>> = t
  <2>1. PICK E : E = Event
    OBVIOUS
  <2>2. t \in Seq(E)
    BY <2>1
  <2> QED
    BY <2>2
<1>3. Plan(main, 1, e \o <<>>) = Before(t, F[<<a, <<>>>>])
  BY <1>1 DEF Foretells
<1>4. Before(t, Run(<<>>, <<>>, out)) = Run(t, <<>>, out)
  BY <1>2 DEF Before, Run
<1> QED
  BY <1>1, <1>3, <1>4

\* The steps that do not run the code leave what is to be done.
LEMMA FaithKeeps ==
  ASSUME TypeInv, FaithInv, UNCHANGED <<builderVars, scope_stack, loop_stack, code>>, UNCHANGED runVars,
         \/ phase' = phase
         \/ /\ phase' = "returned"
            /\ Regular => Plan(main, 1, decisions) = Run(trace, <<>>, "next")
  PROVE  FaithInv'
<1>1. UNCHANGED builderVars /\ pc' = pc /\ trace' = trace /\ al' = al /\ decisions' = decisions
  BY DEF runVars
<1>2. BuilderType
  BY DEF TypeInv
<1>3. ElseLater' /\ (Regular' => Regular)
  BY <1>1, <1>2, SameFaith DEF FaithInv
<1>4. phase' \in {"building", "compiling"} => decisions' = <<>>
  BY <1>1 DEF FaithInv
<1>5. PICK st2, q2 : st2 = scope_stack' /\ q2 = code'
  OBVIOUS
<1>6. ASSUME Regular', phase' = "compiling" PROVE Trail(From(main, 1), code, Here(scope_stack))'
  <2>1. Trail(From(main, 1), q2, Here(st2))
    BY <1>3, <1>5, <1>6 DEF FaithInv
  <2> QED
    BY <1>1, <1>2, <1>5, <2>1, SameFaith
<1>7. ASSUME Regular', phase' = "running" PROVE \E f : Follows(f)'
  <2>1. PICK f : Follows(f)
    BY <1>3, <1>7 DEF FaithInv
  <2>2. Foretells(f[pc'], al', decisions', trace')
    <3>1. PICK g, a, e, t : g = f[pc] /\ a = al /\ e = decisions /\ t = trace
      OBVIOUS
    <3>2. Foretells(g, a, e, t)
      BY <2>1, <3>1 DEF Follows
    <3>3. f[pc'] = g /\ al' = a /\ decisions' = e /\ trace' = t
      BY <1>1, <3>1, Zenon
    <3> QED
      BY <3>2, <3>3, Zenon
  <2>3. IsTrail(f, From(main, 1), code, Done)
    BY <2>1 DEF Follows
  <2>4. Follows(f)'
    BY <1>1, <1>2, <2>2, <2>3, SameForetells
  <2> QED
    BY <2>4
<1>8. ASSUME Regular', phase' = "returned"
      PROVE  (Plan(main, 1, decisions) = Run(trace, <<>>, "next"))'
  <2>1. PICK e, t : e = decisions /\ t = trace
    OBVIOUS
  <2>2. Plan(main, 1, e) = Run(t, <<>>, "next")
    BY <1>3, <1>8, <2>1 DEF FaithInv
  <2>3. Plan(main, 1, e)' = Plan(main, 1, e)
    BY <1>1, <1>2, SamePlan
  <2>4. Run(t, <<>>, "next")' = Run(t, <<>>, "next")
    BY DEF Run
  <2>5. decisions' = e /\ trace' = t
    BY <1>1, <2>1
  <2> QED
    BY <2>2, <2>3, <2>4, <2>5
<1> QED
  BY <1>3, <1>4, <1>6, <1>7, <1>8 DEF FaithInv

\* Every step keeps the invariant.
LEMMA FaithNext == TypeInv /\ FlowInv /\ FaithInv /\ [Next]_vars => FaithInv'
<1> SUFFICES ASSUME TypeInv, FlowInv, FaithInv, [Next]_vars PROVE FaithInv'
  OBVIOUS
<1>1. CASE phase = "building" /\ Build /\ UNCHANGED <<compilerVars, runVars>>
  <2>1. phase' = "building" /\ decisions' = decisions
    BY <1>1 DEF compilerVars, runVars
  <2>2. ElseLater'
    BY <1>1, ElseBuild DEF FaithInv, TypeInv
  <2>3. decisions' = <<>>
    BY <1>1, <2>1 DEF FaithInv
  <2> QED
    BY <2>1, <2>2, <2>3 DEF FaithInv
<1>2. CASE Compile /\ UNCHANGED runVars
  BY <1>2, FaithCompile
<1>3. CASE Execute /\ UNCHANGED <<builderVars, scope_stack, loop_stack, code>>
  BY <1>3, FaithExecute
<1>4. CASE Leave /\ UNCHANGED <<builderVars, scope_stack, loop_stack, code>>
  <2>1. phase = "running" /\ pc > Len(code) /\ phase' = "returned" /\ UNCHANGED runVars
    BY <1>4 DEF Leave
  <2>2. ASSUME Regular PROVE Plan(main, 1, decisions) = Run(trace, <<>>, "next")
    <3>1. PICK f : Follows(f)
      BY <2>1, <2>2 DEF FaithInv
    <3>2. pc = Len(code) + 1
      <4>1. code \in Seq(Emitted) /\ pc \in 1 .. Len(code) + 1
        BY DEF TypeInv
      <4>2. Len(code) \in Nat
        <5> HIDE DEF Emitted
        <5> QED
          BY <4>1
      <4> QED
        BY <2>1, <4>1, <4>2
    <3>3. f[pc] = Done
      BY <3>1, <3>2 DEF Follows, IsTrail
    <3>4. <<al, <<>>>> \in Inputs
      <4>1. al \in BOOLEAN
        BY DEF TypeInv
      <4>2. <<>> \in Seq(BOOLEAN)
        OBVIOUS
      <4> QED
        BY <4>1, <4>2, Zenon DEF Inputs
    <3>5. PICK p : p = <<al, <<>>>>
      OBVIOUS
    <3>6. p \in Inputs /\ p[2] = <<>>
      BY <3>4, <3>5
    <3>7. Done[p] = Run(<<>>, <<>>, "next")
      BY <3>6 DEF Done
    <3>8. Foretells(f[pc], al, decisions, trace)
      BY <3>1 DEF Follows
    <3>9. decisions \in Seq(BOOLEAN) /\ trace \in Seq(Event)
      BY DEF TypeInv, FlowInv
    <3> QED
      BY <3>3, <3>5, <3>7, <3>8, <3>9, ForetellsNow
  <2> QED
    BY <1>4, <2>1, <2>2, FaithKeeps
<1>5. CASE UNCHANGED vars
  <2>1. /\ UNCHANGED <<builderVars, scope_stack, loop_stack, code>>
        /\ phase' = phase /\ UNCHANGED runVars
    BY <1>5 DEF vars, compilerVars
  <2> QED
    BY <2>1, FaithKeeps
<1> QED
  BY <1>1, <1>2, <1>3, <1>4, <1>5 DEF Next

\* At each instruction of the code, with the decisions so far, it has done what the function does
\* up to there, and what is left to do there is what the function does from then on, whatever
\* the decisions to come.
THEOREM FaithHolds == Spec => []FaithInv
<1>1. Init => FaithInv
  BY InitFaith
<1>2. TypeInv /\ FlowInv /\ FaithInv /\ [Next]_vars => FaithInv'
  BY FaithNext
<1> QED
  BY <1>1, <1>2, TypesHold, FlowHolds, PTL DEF Spec

\* jit_x86_64.cpp compiles a function Regular describes to code that does what the function
\* means, for whatever outcomes of its conditions and however its scopes are nested: the same
\* variables constructed and destroyed and the same conditions evaluated, in the same order, to
\* the same end (FaithfulWhenRegular of CompiledCode.tla).
THEOREM FaithfulCode == Spec => []FaithfulWhenRegular
<1>1. TypeInv /\ FlowInv /\ GetsThrough /\ FaithInv => FaithfulWhenRegular
  <2> SUFFICES ASSUME TypeInv, FlowInv, GetsThrough, FaithInv, Regular PROVE Faithful
    BY DEF FaithfulWhenRegular
  <2>1. phase \notin {"raised", "lost"}
    BY DEF GetsThrough
  <2>2. decisions \in Seq(BOOLEAN) /\ trace \in Seq(Event) /\ al \in BOOLEAN
    BY DEF TypeInv, FlowInv
  <2>3. PICK m : m = Meaning
    OBVIOUS
  <2>4. Plan(main, 1, decisions) = Run(m.events, m.left, IF m.out = "return" THEN "next" ELSE m.out)
    BY <2>2, <2>3, MainPlan DEF Meaning, TypeInv
  <2>5. ASSUME NEW out, Plan(main, 1, decisions) = Run(trace, <<>>, out)
        PROVE  /\ m.events = trace /\ m.left = <<>>
               /\ (IF m.out = "return" THEN "next" ELSE m.out) = out
    BY <2>4, <2>5 DEF Run
  <2>6. ASSUME phase = "returned"
        PROVE  m.events = trace /\ m.left = <<>> /\ m.out \in {"next", "return"}
    <3>1. Plan(main, 1, decisions) = Run(trace, <<>>, "next")
      BY <2>6 DEF FaithInv
    <3> QED
      BY <2>5, <3>1
  <2>7. ASSUME At("eval") PROVE m.events = trace /\ m.out = "cut"
    <3>1. phase = "running" /\ pc <= Len(code) /\ code[pc][1] = "eval"
      BY <2>7 DEF At
    <3>2. PICK f : Follows(f)
      BY <3>1 DEF FaithInv
    <3>3. pc \in 1 .. Len(code)
      <4>1. code \in Seq(Emitted) /\ pc \in 1 .. Len(code) + 1
        BY DEF TypeInv
      <4>2. Len(code) \in Nat
        <5> HIDE DEF Emitted
        <5> QED
          BY <4>1
      <4> QED
        BY <3>1, <4>1, <4>2
    <3>4. PICK ins, F, G : ins = code[pc] /\ F = f[pc] /\ G = f[pc + 1]
      OBVIOUS
    <3>5. Does(ins, F, G)
      BY <3>2, <3>3, <3>4 DEF Follows, IsTrail
    <3>6. PICK p : p = <<al, <<>>>>
      OBVIOUS
    <3>7. p \in Inputs /\ p[2] = <<>>
      <4>1. <<>> \in Seq(BOOLEAN)
        OBVIOUS
      <4> QED
        BY <2>2, <3>6, <4>1, Zenon DEF Inputs
    <3>8. F[p] = Run(<<>>, <<>>, "cut")
      BY <3>1, <3>4, <3>5, <3>7 DEF Does
    <3>9. Foretells(F, al, decisions, trace)
      BY <3>2, <3>4 DEF Follows
    <3>10. Plan(main, 1, decisions) = Run(trace, <<>>, "cut")
      BY <2>2, <3>6, <3>8, <3>9, ForetellsNow
    <3> QED
      BY <2>5, <3>10
  <2> QED
    BY <2>1, <2>3, <2>6, <2>7 DEF Faithful
<1> QED
  BY <1>1, TypesHold, FlowHolds, RegularFunctionsCompile, FaithHolds, PTL
=============================================================================
