--------------------------- MODULE RefCountProofs ---------------------------
(***************************************************************************)
(* Reference counting for any number of threads, Refs and objects: as long *)
(* as no plain counter lost an update, counts are exact, no Ref dangles    *)
(* and every object is deleted once.                                       *)
(*                                                                         *)
(* Three things make it so.  A thread only works on places that no other   *)
(* thread can reach: its slots, members of objects only its slots hold,    *)
(* objects it deletes or makes (Excl, OwnSlots, Confined).  What it copies *)
(* from is held by a place that stays as it is until the copy is counted   *)
(* (Sources, Pending).  And an object whose count comes to zero has no     *)
(* counted place left, so that nobody can come upon it again (Condemned).  *)
(***************************************************************************)
EXTENDS RefCount, FiniteSetTheorems, SequenceTheorems, TLAPS

-----------------------------------------------------------------------------
(* The steps a thread has before it.                                       *)

Todo(w) == {w[k] : k \in 1 .. Len(w)}
Ats(w) == {i.at : i \in Todo(w)}

Releases == {"unref", "delete"}

(* A release comes first, and a set of the same place next; only the first *)
(* place of an operation may be a slot.                                    *)
ReleaseFirst(w, k) ==
  w[k].do \in Releases =>
    /\ k = 1 /\ 1 < Len(w) /\ w[2].do = "set" /\ w[2].at = w[1].at
    /\ w[1].at \in Slots => Ats(w) = {w[1].at}

(* What is copied is referenced next.                                      *)
SetThenRef(w, k) ==
  w[k].do = "set" /\ w[k].arg # None =>
    k < Len(w) /\ w[k + 1].do = "ref" /\ w[k + 1].at = w[k].at

(* A reference follows its copy, and only an object's first count follows. *)
RefAfterSet(w, k) ==
  w[k].do = "ref" =>
    /\ 1 < k => w[k - 1].do = "set" /\ w[k - 1].at = w[k].at
    /\ k < Len(w) => w[k + 1].do = "init" /\ w[k].at \in Objects

InitLast(w, k) ==
  w[k].do = "init" => k = Len(w) /\ w[k].at \in Slots /\ w[k].arg \in Objects

Shape(w) == \A k \in 1 .. Len(w) :
  ReleaseFirst(w, k) /\ SetThenRef(w, k) /\ RefAfterSet(w, k) /\ InitLast(w, k)

Typed == TypeOK /\ \A t \in Threads : Shape(work[t])

-----------------------------------------------------------------------------
(* The parts of the invariant, which hold as long as no update is lost.    *)

Excl == \A t, u \in Threads : t # u => Busy(t) \cap Busy(u) = {}
OwnSlots == \A t \in Threads : Busy(t) \cap Slots \subseteq Own(t)
Born == \A t \in Threads : Busy(t) \cap unborn = {}
Unborn == \A o \in unborn : ref[o] = None /\ count[o] = 0 /\ \A p \in Places : ref[p] # o

(* An object a thread works on is held by slots of that thread at most.    *)
Confined(t) ==
  \A x \in Busy(t) \cap Objects, p \in Places \ HalfDone : ref[p] = x => p \in Own(t)

(* A place t copies from, and leaves as it is meanwhile.                   *)
Source(t, f) ==
  /\ f \in Places \ Busy(t)
  /\ f \in Own(t) \/ \E s \in Own(t) \ Busy(t) : ref[s] = f

Sources(t) ==
  \A i \in Todo(work[t]) : i.do = "set" /\ i.arg # None =>
    \/ Source(t, i.arg)
    \/ i = Head(work[t]) /\ i.arg \in Own(t) /\ ref[i.arg] = None

(* A copy that is yet to be counted is one of a place that is counted.     *)
Pending(t) ==
  Doing(t, "ref") /\ Target(t) # None => \E f \in Places : Source(t, f) /\ ref[f] = Target(t)

(* An object that is being made is nobody else's yet.                      *)
Newborn(t) ==
  \A i \in Todo(work[t]) : i.do = "init" =>
    /\ i.arg \in alive
    /\ \A p \in Places : ref[p] # i.arg
    /\ \A u \in Threads \ {t} :
         /\ i.arg \notin Busy(u)
         /\ \A j \in Todo(work[u]) : j.do = "init" => j.arg # i.arg

Condemned(t) ==
  Doing(t, "delete") =>
    /\ Target(t) \in alive
    /\ Counted(Target(t)) = {}
    /\ \A u \in Threads : Target(t) \notin Busy(u)
    /\ \A u \in Threads \ {t} : Doing(u, "delete") => Target(u) # Target(t)

Loaded(t) ==
  seen[t] # None => \/ Doing(t, "unref") /\ Target(t) \in Plain
                    \/ Doing(t, "ref") /\ seen[t] # 0

(* An object that is not to be deleted has a counted place, or gets one.   *)
Kept ==
  \A o \in alive : \/ Counted(o) # {}
                   \/ \E t \in Threads : Doing(t, "delete") /\ Target(t) = o
                   \/ \E t \in Threads : \E i \in Todo(work[t]) : i.do = "init" /\ i.arg = o

(* The member of an object that is gone is cleared, and nothing is copied there. *)
Cleared ==
  \A o \in Objects \ alive :
    ref[o] = None \/ \E t \in Threads : Step("set", o, None) \in Todo(work[t])
Written ==
  \A t \in Threads : \A i \in Todo(work[t]) :
    i.do = "set" /\ i.arg # None => i.at \in Slots \cup alive

Tidy == Kept /\ Cleared /\ Written

NoneDead == \A p \in Places \ HalfDone : ref[p] \in alive \cup {None}

Exact == \A o \in alive : count[o] = Cardinality(Counted(o))

Safe ==
  /\ Excl /\ OwnSlots /\ Born /\ Unborn /\ NoneDead /\ Exact
  /\ Tidy
  /\ \A t \in Threads : /\ Confined(t) /\ Sources(t) /\ Pending(t)
                        /\ Newborn(t) /\ Condemned(t) /\ Loaded(t)

IInv == Typed /\ (~ lost => Safe)

-----------------------------------------------------------------------------
(* Sequences of steps.                                                     *)

LEMMA Cons ==
  ASSUME NEW a \in Steps, NEW w \in Seq(Steps)
  PROVE  /\ <<a>> \o w \in Seq(Steps) /\ <<a>> \o w # <<>>
         /\ Len(<<a>> \o w) = Len(w) + 1
         /\ (<<a>> \o w)[1] = a /\ \A k \in 1 .. Len(w) : (<<a>> \o w)[k + 1] = w[k]
         /\ Head(<<a>> \o w) = a
         /\ Todo(<<a>> \o w) = {a} \cup Todo(w)
         /\ Ats(<<a>> \o w) = {a.at} \cup Ats(w)
<1> DEFINE v == <<a>> \o w
<1>1. /\ v \in Seq(Steps) /\ Len(v) = Len(w) + 1 /\ Len(w) \in Nat
      /\ v[1] = a /\ \A k \in 1 .. Len(w) : v[k + 1] = w[k]
  BY ConcatProperties
<1>2. v # <<>> /\ Head(v) = a
  BY <1>1, EmptySeq
<1> HIDE DEF v
<1>3. Todo(v) \subseteq {a} \cup Todo(w)
  <2> SUFFICES ASSUME NEW k \in 1 .. Len(v) PROVE v[k] \in {a} \cup Todo(w)
    BY DEF Todo
  <2>1. CASE k = 1
    BY <1>1, <2>1
  <2>2. CASE k # 1
    <3>1. k - 1 \in 1 .. Len(w) /\ k = (k - 1) + 1
      BY <1>1, <2>2
    <3> QED
      BY <1>1, <3>1 DEF Todo
  <2> QED
    BY <2>1, <2>2
<1>4. {a} \cup Todo(w) \subseteq Todo(v)
  <2>1. a \in Todo(v)
    BY <1>1 DEF Todo
  <2>2. ASSUME NEW k \in 1 .. Len(w) PROVE w[k] \in Todo(v)
    <3>1. k + 1 \in 1 .. Len(v) /\ v[k + 1] = w[k]
      BY <1>1
    <3> QED
      BY <3>1 DEF Todo
  <2> QED
    BY <2>1, <2>2 DEF Todo
<1>5. Ats(v) = {a.at} \cup Ats(w)
  BY <1>3, <1>4 DEF Ats
<1> QED
  BY <1>1, <1>2, <1>3, <1>4, <1>5 DEF v

LEMMA Empty == Todo(<<>>) = {} /\ Ats(<<>>) = {} /\ <<>> \in Seq(Steps) /\ Shape(<<>>)
  BY EmptySeq DEF Todo, Ats, Shape

LEMMA Single ==
  ASSUME NEW a \in Steps
  PROVE  /\ <<a>> \in Seq(Steps) /\ <<a>> # <<>> /\ Len(<<a>>) = 1 /\ <<a>>[1] = a
         /\ Head(<<a>>) = a /\ Todo(<<a>>) = {a} /\ Ats(<<a>>) = {a.at}
<1>1. /\ <<a>> \in Seq(Steps) /\ <<a>> # <<>> /\ Len(<<a>>) = 1
      /\ <<a>>[1] = a /\ Head(<<a>>) = a
  OBVIOUS
<1>2. Todo(<<a>>) = {a}
  BY <1>1 DEF Todo
<1>3. Ats(<<a>>) = {a.at}
  BY <1>2 DEF Ats
<1> QED
  BY <1>1, <1>2, <1>3

LEMMA Two ==
  ASSUME NEW a \in Steps, NEW b \in Steps
  PROVE  <<a, b>> \in Seq(Steps) /\ <<a, b>> = <<a>> \o <<b>>
<1>1. <<a, b>> \in Seq(Steps) /\ Len(<<a, b>>) = 2
  OBVIOUS
<1>2. <<b>> \in Seq(Steps) /\ Len(<<b>>) = 1 /\ <<b>>[1] = b
  BY Single
<1>3. /\ <<a>> \o <<b>> \in Seq(Steps) /\ Len(<<a>> \o <<b>>) = 2
      /\ (<<a>> \o <<b>>)[1] = a /\ (<<a>> \o <<b>>)[1 + 1] = b
  BY <1>2, Cons
<1>4. \A k \in 1 .. Len(<<a, b>>) : <<a, b>>[k] = (<<a>> \o <<b>>)[k]
  <2>1. \A k \in 1 .. Len(<<a, b>>) : k = 1 \/ k = 2
    BY <1>1
  <2> QED
    BY <1>3, <2>1
<1> QED
  BY <1>1, <1>3, <1>4, SeqEqual

\* What the first step says of those after it.
LEMMA Pop ==
  ASSUME NEW w \in Seq(Steps), Shape(w), w # <<>>
  PROVE  LET a == Head(w)
             v == Tail(w)
         IN  /\ a \in Steps /\ v \in Seq(Steps) /\ Shape(v)
             /\ Todo(w) = {a} \cup Todo(v) /\ Ats(w) = {a.at} \cup Ats(v)
             /\ \A i \in Todo(v) : i.do \notin Releases
             /\ v # <<>> => /\ Head(v) \in Todo(v)
                            /\ Head(v).do = "ref" => a.do = "set" /\ a.at = Head(v).at
             /\ a.do \in Releases =>
                  /\ v # <<>> /\ Head(v).do = "set" /\ Head(v).at = a.at
                  /\ a.at \in Slots => Ats(w) = {a.at}
             /\ a.do = "set" /\ a.arg # None =>
                  v # <<>> /\ Head(v).do = "ref" /\ Head(v).at = a.at
             /\ a.do = "ref" => \/ v = <<>>
                                \/ /\ Todo(v) = {Head(v)} /\ Head(v).do = "init"
                                   /\ a.at \in Objects /\ Head(v).at \in Slots
             /\ a.do = "init" => v = <<>>
             /\ \A i \in Todo(w) : i.do = "init" => i.at \in Slots /\ i.arg \in Objects
<1> DEFINE a == Head(w)
           v == Tail(w)
<1>1. /\ a \in Steps /\ v \in Seq(Steps) /\ a = w[1]
      /\ Len(w) \in Nat \ {0} /\ Len(v) = Len(w) - 1
      /\ \A k \in 1 .. Len(v) : v[k] = w[k + 1]
  BY HeadTailProperties, EmptySeq
<1>2. w = <<a>> \o v
  <2>1. <<a>> \o v \in Seq(Steps) /\ Len(<<a>> \o v) = Len(w)
    BY <1>1, Cons
  <2>2. ASSUME NEW k \in 1 .. Len(w) PROVE w[k] = (<<a>> \o v)[k]
    <3>1. CASE k = 1
      BY <1>1, <3>1, Cons
    <3>2. CASE k # 1
      <4>1. k - 1 \in 1 .. Len(v) /\ k = (k - 1) + 1
        BY <1>1, <3>2
      <4> QED
        BY <1>1, <4>1, Cons
    <3> QED
      BY <3>1, <3>2
  <2> QED
    BY <2>1, <2>2, SeqEqual
<1> HIDE DEF a, v
<1>3. Todo(w) = {a} \cup Todo(v) /\ Ats(w) = {a.at} \cup Ats(v)
  BY <1>1, <1>2, Cons
<1>4. v # <<>> => /\ 1 <= Len(v) /\ 1 \in 1 .. Len(v) /\ 2 \in 1 .. Len(w)
                  /\ Head(v) = v[1] /\ v[1] = w[2]
  BY <1>1, EmptySeq
<1>5. v = <<>> <=> Len(v) = 0
  BY <1>1, EmptySeq
<1>6. \A i \in Todo(v) : i.do \notin Releases
  <2> SUFFICES ASSUME NEW k \in 1 .. Len(v) PROVE v[k].do \notin Releases
    BY DEF Todo
  <2>1. v[k] = w[k + 1] /\ k + 1 \in 1 .. Len(w) /\ k + 1 # 1
    BY <1>1
  <2> QED
    BY <2>1 DEF Shape, ReleaseFirst
<1>7. Shape(v)
  <2> SUFFICES ASSUME NEW k \in 1 .. Len(v)
               PROVE  ReleaseFirst(v, k) /\ SetThenRef(v, k) /\ RefAfterSet(v, k) /\ InitLast(v, k)
    BY DEF Shape
  <2>1. v[k] = w[k + 1] /\ k + 1 \in 1 .. Len(w) /\ Len(v) = Len(w) - 1 /\ Len(w) \in Nat
    BY <1>1
  <2>2. k < Len(v) => v[k + 1] = w[(k + 1) + 1] /\ k + 1 < Len(w)
    BY <1>1
  <2>3. 1 < k => v[k - 1] = w[(k + 1) - 1]
    BY <1>1
  <2>4. ReleaseFirst(v, k)
    BY <1>6 DEF ReleaseFirst, Todo
  <2>5. SetThenRef(v, k)
    <3>1. SetThenRef(w, k + 1)
      BY <2>1 DEF Shape
    <3>2. k + 1 < Len(w) => k < Len(v)
      BY <2>1
    <3> QED
      BY <2>1, <2>2, <3>1, <3>2 DEF SetThenRef
  <2>6. RefAfterSet(v, k)
    <3>1. RefAfterSet(w, k + 1)
      BY <2>1 DEF Shape
    <3>2. 1 < k => 1 < k + 1
      OBVIOUS
    <3> QED
      BY <2>1, <2>2, <2>3, <3>1, <3>2 DEF RefAfterSet
  <2>7. InitLast(v, k)
    <3>1. InitLast(w, k + 1)
      BY <2>1 DEF Shape
    <3>2. k + 1 = Len(w) => k = Len(v)
      BY <2>1
    <3> QED
      BY <2>1, <3>1, <3>2 DEF InitLast
  <2> QED
    BY <2>4, <2>5, <2>6, <2>7
<1>8. /\ ReleaseFirst(w, 1) /\ SetThenRef(w, 1) /\ RefAfterSet(w, 1) /\ InitLast(w, 1)
      /\ v # <<>> => RefAfterSet(w, 2) /\ InitLast(w, 2)
  BY <1>1, <1>4 DEF Shape
<1>9. v # <<>> => /\ Head(v) \in Todo(v)
                  /\ Head(v).do = "ref" => a.do = "set" /\ a.at = Head(v).at
  <2>1. v # <<>> => Head(v) \in Todo(v)
    BY <1>4 DEF Todo
  <2>2. v # <<>> /\ w[2].do = "ref" => w[2 - 1].do = "set" /\ w[2 - 1].at = w[2].at
    BY <1>8 DEF RefAfterSet
  <2> QED
    BY <1>1, <1>4, <2>1, <2>2
<1>10. a.do \in Releases =>
         /\ v # <<>> /\ Head(v).do = "set" /\ Head(v).at = a.at
         /\ a.at \in Slots => Ats(w) = {a.at}
  <2>1. 1 < Len(w) => v # <<>>
    BY <1>1, <1>5
  <2> QED
    BY <1>1, <1>4, <1>8, <2>1 DEF ReleaseFirst
<1>11. a.do = "set" /\ a.arg # None => v # <<>> /\ Head(v).do = "ref" /\ Head(v).at = a.at
  <2>1. 1 < Len(w) => v # <<>>
    BY <1>1, <1>5
  <2> QED
    BY <1>1, <1>4, <1>8, <2>1 DEF SetThenRef
<1>12. a.do = "ref" /\ v # <<>> => /\ Todo(v) = {Head(v)} /\ Head(v).do = "init"
                                   /\ a.at \in Objects /\ Head(v).at \in Slots
  <2> SUFFICES ASSUME a.do = "ref", v # <<>>
               PROVE  /\ Todo(v) = {Head(v)} /\ Head(v).do = "init"
                      /\ a.at \in Objects /\ Head(v).at \in Slots
    OBVIOUS
  <2>1. 1 < Len(w)
    BY <1>1, <1>5
  <2>2. w[2].do = "init" /\ a.at \in Objects
    BY <1>1, <1>8, <2>1 DEF RefAfterSet
  <2>3. Len(w) = 2 /\ w[2].at \in Slots
    BY <1>8, <2>2 DEF InitLast
  <2>4. Len(v) = 1
    BY <1>1, <2>3
  <2>5. Todo(v) = {v[1]}
    BY <2>4 DEF Todo
  <2> QED
    BY <1>4, <2>2, <2>3, <2>5
<1>13. a.do = "init" => v = <<>>
  BY <1>1, <1>5, <1>8 DEF InitLast
<1>14. \A i \in Todo(w) : i.do = "init" => i.at \in Slots /\ i.arg \in Objects
  BY DEF Todo, Shape, InitLast
<1> QED
  BY <1>1, <1>3, <1>6, <1>7, <1>9, <1>10, <1>11, <1>12, <1>13, <1>14 DEF a, v

\* A step put in front of others that release nothing.
LEMMA Push ==
  ASSUME NEW a \in Steps, NEW w \in Seq(Steps), Shape(w), \A i \in Todo(w) : i.do \notin Releases,
         w # <<>> /\ Head(w).do = "ref" => a.do = "set" /\ a.at = Head(w).at,
         LET v == <<a>> \o w
         IN  ReleaseFirst(v, 1) /\ SetThenRef(v, 1) /\ RefAfterSet(v, 1) /\ InitLast(v, 1)
  PROVE  Shape(<<a>> \o w)
<1> DEFINE v == <<a>> \o w
<1>1. /\ v \in Seq(Steps) /\ Len(v) = Len(w) + 1 /\ Len(w) \in Nat /\ v[1] = a
      /\ \A k \in 1 .. Len(w) : v[k + 1] = w[k]
  BY Cons, EmptySeq
<1>2. ReleaseFirst(v, 1) /\ SetThenRef(v, 1) /\ RefAfterSet(v, 1) /\ InitLast(v, 1)
  OBVIOUS
<1> HIDE DEF v
<1>3. ASSUME NEW k \in 1 .. Len(w)
      PROVE  /\ ReleaseFirst(v, k + 1) /\ SetThenRef(v, k + 1)
             /\ RefAfterSet(v, k + 1) /\ InitLast(v, k + 1)
  <2>1. v[k + 1] = w[k] /\ Len(v) = Len(w) + 1 /\ Len(w) \in Nat
    BY <1>1
  <2>2. k + 1 < Len(v) => v[(k + 1) + 1] = w[k + 1] /\ k < Len(w)
    BY <1>1
  <2>3. 1 < k => v[(k + 1) - 1] = w[k - 1]
    <3> SUFFICES ASSUME 1 < k PROVE v[(k + 1) - 1] = w[k - 1]
      OBVIOUS
    <3>1. k - 1 \in 1 .. Len(w) /\ (k + 1) - 1 = (k - 1) + 1
      BY <2>1
    <3> QED
      BY <1>1, <3>1
  <2>4. k = 1 => v[(k + 1) - 1] = a /\ w[k] = Head(w) /\ w # <<>>
    BY <1>1, EmptySeq
  <2>5. ReleaseFirst(v, k + 1)
    BY <2>1 DEF ReleaseFirst, Todo
  <2>6. SetThenRef(v, k + 1)
    <3>1. SetThenRef(w, k)
      BY DEF Shape
    <3>2. k < Len(w) => k + 1 < Len(v)
      BY <2>1
    <3> QED
      BY <2>1, <2>2, <3>1, <3>2 DEF SetThenRef
  <2>7. RefAfterSet(v, k + 1)
    <3>1. RefAfterSet(w, k)
      BY DEF Shape
    <3>2. k = 1 \/ 1 < k
      OBVIOUS
    <3>3. w[k].do = "ref" => v[(k + 1) - 1].do = "set" /\ v[(k + 1) - 1].at = w[k].at
      BY <2>3, <2>4, <3>1, <3>2 DEF RefAfterSet
    <3> QED
      BY <2>1, <2>2, <3>1, <3>3 DEF RefAfterSet
  <2>8. InitLast(v, k + 1)
    <3>1. InitLast(w, k)
      BY DEF Shape
    <3>2. k = Len(w) => k + 1 = Len(v)
      BY <2>1
    <3> QED
      BY <2>1, <3>1, <3>2 DEF InitLast
  <2> QED
    BY <2>5, <2>6, <2>7, <2>8
<1>4. \A k \in 1 .. Len(v) : k = 1 \/ (k - 1 \in 1 .. Len(w) /\ (k - 1) + 1 = k)
  BY <1>1
<1>5. ASSUME NEW k \in 1 .. Len(v)
      PROVE  ReleaseFirst(v, k) /\ SetThenRef(v, k) /\ RefAfterSet(v, k) /\ InitLast(v, k)
  <2>1. CASE k = 1
    BY <1>2, <2>1
  <2>2. CASE k # 1
    <3>1. PICK m \in 1 .. Len(w) : k = m + 1
      BY <1>4, <2>2
    <3> QED
      BY <1>3, <3>1
  <2> QED
    BY <2>1, <2>2
<1>6. Shape(v)
  BY <1>5 DEF Shape
<1> QED
  BY <1>6 DEF v

LEMMA PushSet ==
  ASSUME NEW p \in Places, NEW w \in Seq(Steps), Shape(w), \A i \in Todo(w) : i.do \notin Releases,
         w # <<>> /\ Head(w).do = "ref" => Head(w).at = p
  PROVE  /\ Step("set", p, None) \in Steps /\ <<Step("set", p, None)>> \o w \in Seq(Steps)
         /\ Shape(<<Step("set", p, None)>> \o w)
<1> DEFINE a == Step("set", p, None)
<1>1. a \in Steps /\ a.do = "set" /\ a.at = p /\ a.arg = None
  BY DEF Step, Steps
<1> HIDE DEF a
<1>2. (<<a>> \o w)[1] = a /\ <<a>> \o w \in Seq(Steps)
  BY <1>1, Cons
<1>3. /\ ReleaseFirst(<<a>> \o w, 1) /\ SetThenRef(<<a>> \o w, 1)
      /\ RefAfterSet(<<a>> \o w, 1) /\ InitLast(<<a>> \o w, 1)
  BY <1>1, <1>2 DEF ReleaseFirst, SetThenRef, RefAfterSet, InitLast, Releases
<1>4. Shape(<<a>> \o w)
  BY <1>1, <1>3, Push
<1> QED
  BY <1>1, <1>2, <1>4 DEF a

LEMMA PushRelease ==
  ASSUME NEW p \in Places, NEW do \in Releases, NEW w \in Seq(Steps), Shape(w),
         \A i \in Todo(w) : i.do \notin Releases,
         w # <<>>, Head(w).do = "set", Head(w).at = p, p \in Slots => Ats(w) = {p}
  PROVE  /\ Step(do, p, None) \in Steps /\ <<Step(do, p, None)>> \o w \in Seq(Steps)
         /\ Shape(<<Step(do, p, None)>> \o w)
<1> DEFINE a == Step(do, p, None)
<1>1. a \in Steps /\ a.do = do /\ a.at = p /\ a.arg = None
  BY DEF Step, Steps, Releases
<1>2. a.do \notin {"set", "ref", "init"}
  BY <1>1 DEF Releases
<1> HIDE DEF a
<1>3. /\ (<<a>> \o w)[1] = a /\ <<a>> \o w \in Seq(Steps)
      /\ Len(<<a>> \o w) = Len(w) + 1 /\ Len(w) \in Nat \ {0}
      /\ Ats(<<a>> \o w) = {p} \cup Ats(w)
  BY <1>1, Cons, EmptySeq
<1>4. (<<a>> \o w)[2] = Head(w) /\ 1 < Len(<<a>> \o w)
  <2>1. 1 \in 1 .. Len(w) /\ 1 + 1 = 2 /\ Head(w) = w[1]
    BY <1>3
  <2> QED
    BY <1>1, <1>3, <2>1, Cons
<1>5. ReleaseFirst(<<a>> \o w, 1)
  BY <1>1, <1>3, <1>4 DEF ReleaseFirst
<1>6. SetThenRef(<<a>> \o w, 1) /\ RefAfterSet(<<a>> \o w, 1) /\ InitLast(<<a>> \o w, 1)
  BY <1>2, <1>3 DEF SetThenRef, RefAfterSet, InitLast
<1>7. Shape(<<a>> \o w)
  BY <1>1, <1>2, <1>5, <1>6, Push
<1> QED
  BY <1>1, <1>3, <1>7 DEF a

\* What an operation on the place "to" sets out to do.
LEMMA SetClear ==
  ASSUME NEW to \in Places
  PROVE  LET w == <<Step("set", to, None)>>
         IN  /\ w \in Seq(Steps) /\ Shape(w) /\ w # <<>> /\ Head(w) = Step("set", to, None)
             /\ Todo(w) = {Step("set", to, None)} /\ Ats(w) = {to}
<1>1. Step("set", to, None) \in Steps /\ Step("set", to, None).at = to
  BY DEF Step, Steps
<1>2. <<Step("set", to, None)>> \o <<>> = <<Step("set", to, None)>>
  OBVIOUS
<1>3. Shape(<<Step("set", to, None)>>)
  BY <1>2, PushSet, Empty
<1> QED
  BY <1>1, <1>3, Single

LEMMA SetAssign ==
  ASSUME NEW to \in Places, NEW from \in Places \cup {None}
  PROVE  LET w == <<Step("set", to, from), Step("ref", to, None)>>
         IN  /\ w \in Seq(Steps) /\ Shape(w) /\ w # <<>> /\ Head(w) = Step("set", to, from)
             /\ Todo(w) = {Step("set", to, from), Step("ref", to, None)} /\ Ats(w) = {to}
<1> DEFINE a == Step("set", to, from)
           b == Step("ref", to, None)
           w == <<a, b>>
<1>1. /\ a \in Steps /\ b \in Steps /\ a.at = to /\ b.at = to /\ a.do = "set" /\ b.do = "ref"
  BY DEF Step, Steps
<1> HIDE DEF a, b
<1>2. w \in Seq(Steps) /\ w # <<>> /\ Head(w) = a /\ w[1] = a /\ w[2] = b /\ Len(w) = 2
  BY <1>1
<1>3. Todo(w) = {a, b}
  <2>1. 1 .. 2 = {1, 2}
    OBVIOUS
  <2> QED
    BY <1>2, <2>1 DEF Todo
<1>4. Ats(w) = {to}
  BY <1>1, <1>3 DEF Ats
<1> HIDE DEF w
<1>5. \A k \in 1 .. Len(w) : k = 1 \/ k = 2
  BY <1>2
<1>6. ReleaseFirst(w, 1) /\ SetThenRef(w, 1) /\ RefAfterSet(w, 1) /\ InitLast(w, 1)
  BY <1>1, <1>2 DEF ReleaseFirst, SetThenRef, RefAfterSet, InitLast, Releases
<1>7. ReleaseFirst(w, 2) /\ SetThenRef(w, 2) /\ RefAfterSet(w, 2) /\ InitLast(w, 2)
  BY <1>1, <1>2 DEF ReleaseFirst, SetThenRef, RefAfterSet, InitLast, Releases
<1>8. Shape(w)
  BY <1>5, <1>6, <1>7 DEF Shape
<1> QED
  BY <1>2, <1>3, <1>4, <1>8 DEF w, a, b

LEMMA SetMake ==
  ASSUME NEW to \in Slots, NEW o \in Objects, NEW from \in Places \cup {None}
  PROVE  LET w == <<Step("set", o, from), Step("ref", o, None), Step("init", to, o)>>
         IN  /\ w \in Seq(Steps) /\ Shape(w) /\ w # <<>> /\ Head(w) = Step("set", o, from)
             /\ Todo(w) = {Step("set", o, from), Step("ref", o, None), Step("init", to, o)}
             /\ Ats(w) = {to, o}
<1> DEFINE a == Step("set", o, from)
           b == Step("ref", o, None)
           c == Step("init", to, o)
           w == <<a, b, c>>
<1>1. /\ a \in Steps /\ b \in Steps /\ c \in Steps /\ a.at = o /\ b.at = o /\ c.at = to
      /\ a.do = "set" /\ b.do = "ref" /\ c.do = "init" /\ c.arg = o
  BY DEF Step, Steps, Places
<1> HIDE DEF a, b, c
<1>2. /\ w \in Seq(Steps) /\ w # <<>> /\ Head(w) = a
      /\ w[1] = a /\ w[2] = b /\ w[3] = c /\ Len(w) = 3
  BY <1>1
<1>3. Todo(w) = {a, b, c}
  <2>1. 1 .. 3 = {1, 2, 3}
    OBVIOUS
  <2> QED
    BY <1>2, <2>1 DEF Todo
<1>4. Ats(w) = {to, o}
  BY <1>1, <1>3 DEF Ats
<1> HIDE DEF w
<1>5. \A k \in 1 .. Len(w) : k = 1 \/ k = 2 \/ k = 3
  BY <1>2
<1>6. ReleaseFirst(w, 1) /\ SetThenRef(w, 1) /\ RefAfterSet(w, 1) /\ InitLast(w, 1)
  BY <1>1, <1>2 DEF ReleaseFirst, SetThenRef, RefAfterSet, InitLast, Releases
<1>7. ReleaseFirst(w, 2) /\ SetThenRef(w, 2) /\ RefAfterSet(w, 2) /\ InitLast(w, 2)
  BY <1>1, <1>2 DEF ReleaseFirst, SetThenRef, RefAfterSet, InitLast, Releases
<1>8. ReleaseFirst(w, 3) /\ SetThenRef(w, 3) /\ RefAfterSet(w, 3) /\ InitLast(w, 3)
  BY <1>1, <1>2 DEF ReleaseFirst, SetThenRef, RefAfterSet, InitLast, Releases
<1>9. Shape(w)
  BY <1>5, <1>6, <1>7, <1>8 DEF Shape
<1> QED
  BY <1>2, <1>3, <1>4, <1>9 DEF w, a, b, c

\* Letting go of "to" comes before that, if there is something to let go of.
LEMMA ReleaseBefore ==
  ASSUME NEW to \in Places, NEW w \in Seq(Steps), Shape(w),
         \A i \in Todo(w) : i.do \notin Releases,
         w # <<>>, Head(w).do = "set", Head(w).at = to, to \in Slots => Ats(w) = {to}
  PROVE  LET v == Release(to) \o w
         IN  /\ v \in Seq(Steps) /\ Shape(v) /\ v # <<>>
             /\ Ats(v) = {to} \cup Ats(w)
             /\ ref[to] = None => v = w
             /\ ref[to] # None => /\ Head(v) = Step("unref", to, None)
                                  /\ Todo(v) = {Step("unref", to, None)} \cup Todo(w)
<1>1. CASE ref[to] = None
  <2>1. Release(to) \o w = w
    BY <1>1, ConcatEmptySeq DEF Release
  <2>2. Head(w) \in Todo(w)
    BY Pop
  <2>3. to \in Ats(w)
    BY <2>2 DEF Ats
  <2> QED
    BY <1>1, <2>1, <2>3
<1>2. CASE ref[to] # None
  <2>1. Release(to) \o w = <<Step("unref", to, None)>> \o w
    BY <1>2 DEF Release
  <2>2. "unref" \in Releases /\ Step("unref", to, None).at = to
    BY DEF Releases, Step
  <2> HIDE DEF Step
  <2>3. Step("unref", to, None) \in Steps /\ Shape(<<Step("unref", to, None)>> \o w)
    BY <2>2, PushRelease
  <2> QED
    BY <1>2, <2>1, <2>2, <2>3, Cons
<1> QED
  BY <1>1, <1>2

-----------------------------------------------------------------------------
(* What a step of one thread changes.                                      *)

\* The places thread t is half through with, when w is before it.
Half(w) == {p \in Ats(w) : ~ (Head(w).do = "unref" /\ Head(w).at = p)}

LEMMA Kinds ==
  ASSUME TypeOK, NEW t \in Threads
  PROVE  /\ Own(t) \subseteq Slots /\ Slots \subseteq Places /\ Objects \subseteq Places
         /\ \A slots \in SUBSET Slots : Held(t, slots) \subseteq Objects
         /\ Private(t) \subseteq Objects
<1>1. /\ Own(t) \subseteq Slots /\ Slots \subseteq Places /\ Objects \subseteq Places
      /\ \A slots \in SUBSET Slots : Held(t, slots) \subseteq Objects
  BY DEF TypeOK, Own, Held, Places
<1>2. Private(t) \subseteq Objects
  BY <1>1 DEF Private
<1> QED
  BY <1>1, <1>2

LEMMA Work ==
  ASSUME Typed, NEW t \in Threads
  PROVE  work[t] \in Seq(Steps) /\ Shape(work[t]) /\ Busy(t) = Ats(work[t])
<1>1. work[t] \in Seq(Steps) /\ Shape(work[t])
  BY DEF Typed, TypeOK
<1>2. DOMAIN work[t] = 1 .. Len(work[t])
  BY <1>1, LenProperties
<1>3. Busy(t) = Ats(work[t])
  BY <1>2 DEF Busy, Ats, Todo
<1> QED
  BY <1>1, <1>3

LEMMA AtsPlaces ==
  ASSUME NEW w \in Seq(Steps)
  PROVE  Ats(w) \subseteq Places /\ Todo(w) \subseteq Steps
<1>1. Todo(w) \subseteq Steps
  BY ElementOfSeq DEF Todo
<1> QED
  BY <1>1 DEF Ats, Steps

LEMMA HalfIs ==
  ASSUME Typed
  PROVE  \A p \in Places : p \in HalfDone <=> \E t \in Threads : p \in Half(work[t])
  BY Work DEF HalfDone, Half, At

LEMMA WorkStep ==
  ASSUME Typed, NEW t \in Threads, NEW w \in Seq(Steps), work' = [work EXCEPT ![t] = w]
  PROVE  /\ work'[t] = w /\ \A u \in Threads \ {t} : work'[u] = work[u]
         /\ Busy(t)' = Ats(w) /\ \A u \in Threads \ {t} : Busy(u)' = Busy(u)
         /\ \A p \in Places : p \in HalfDone' <=>
              p \in Half(w) \/ \E u \in Threads \ {t} : p \in Half(work[u])
<1>1. work'[t] = w /\ \A u \in Threads \ {t} : work'[u] = work[u]
  BY DEF Typed, TypeOK
<1>2. Busy(t)' = Ats(w)
  <2>1. DOMAIN w = 1 .. Len(w)
    BY LenProperties
  <2> QED
    BY <1>1, <2>1 DEF Busy, Ats, Todo
<1>3. \A u \in Threads \ {t} : Busy(u)' = Busy(u)
  BY <1>1 DEF Busy
<1>4. ASSUME NEW p \in Places
      PROVE  p \in HalfDone' <=> p \in Half(w) \/ \E u \in Threads \ {t} : p \in Half(work[u])
  <2>1. p \in HalfDone' <=> \E u \in Threads :
          p \in Busy(u)' /\ ~ (Head(work'[u]).do = "unref" /\ Head(work'[u]).at = p)
    BY DEF HalfDone, At
  <2>2. p \in Half(w) <=> p \in Busy(t)' /\ ~ (Head(work'[t]).do = "unref" /\ Head(work'[t]).at = p)
    BY <1>1, <1>2 DEF Half
  <2>3. \A u \in Threads \ {t} : p \in Half(work[u]) <=>
          p \in Busy(u)' /\ ~ (Head(work'[u]).do = "unref" /\ Head(work'[u]).at = p)
    BY <1>1, <1>3, Work DEF Half
  <2> QED
    BY <2>1, <2>2, <2>3
<1> QED
  BY <1>1, <1>2, <1>3, <1>4

\* With places of its own, a thread changes what is half done as it changes its work.
LEMMA HalfStep ==
  ASSUME Typed, Excl, NEW t \in Threads, NEW w \in Seq(Steps), work' = [work EXCEPT ![t] = w],
         \A u \in Threads \ {t} : Ats(w) \cap Busy(u) = {}
  PROVE  /\ HalfDone \cap Busy(t) = Half(work[t])
         /\ HalfDone' = (HalfDone \ Busy(t)) \cup Half(w)
         /\ Excl'
<1>1. \A u \in Threads : Half(work[u]) \subseteq Busy(u)
  BY Work DEF Half
<1>2. HalfDone \subseteq Places /\ HalfDone' \subseteq Places /\ Half(w) \subseteq Places
  BY AtsPlaces DEF HalfDone, Half
<1>3. HalfDone \cap Busy(t) = Half(work[t])
  <2>1. Busy(t) \subseteq Places
    BY Work, AtsPlaces
  <2> QED
    BY <1>1, <1>2, <2>1, HalfIs DEF Excl
<1>4. HalfDone' = (HalfDone \ Busy(t)) \cup Half(w)
  <2>1. ASSUME NEW p \in Places PROVE p \in HalfDone' <=> p \in (HalfDone \ Busy(t)) \cup Half(w)
    <3>1. p \in HalfDone' <=> p \in Half(w) \/ \E u \in Threads \ {t} : p \in Half(work[u])
      BY WorkStep
    <3>2. p \in HalfDone \ Busy(t) <=> \E u \in Threads \ {t} : p \in Half(work[u])
      BY <1>1, HalfIs DEF Excl
    <3> QED
      BY <3>1, <3>2
  <2> QED
    BY <1>2, <2>1
<1>5. Excl'
  <2>1. Busy(t)' = Ats(w) /\ \A u \in Threads \ {t} : Busy(u)' = Busy(u)
    BY WorkStep
  <2>2. ASSUME NEW a \in Threads, NEW b \in Threads, a # b
        PROVE  Busy(a)' \cap Busy(b)' = {}
    <3>1. CASE a = t
      BY <2>1, <2>2, <3>1
    <3>2. CASE b = t
      BY <2>1, <2>2, <3>2
    <3>3. CASE a # t /\ b # t
      BY <2>1, <2>2, <3>3 DEF Excl
    <3> QED
      BY <3>1, <3>2, <3>3
  <2> QED
    BY <2>2 DEF Excl
<1> QED
  BY <1>3, <1>4, <1>5

\* The types, when a step of t leaves w before it.
LEMMA TypedStep ==
  ASSUME Typed, NEW t \in Threads, NEW w \in Seq(Steps), Shape(w), work' = [work EXCEPT ![t] = w],
         ref' \in [Places -> Objects \cup {None}],
         count' \in [Objects -> 0 .. Wrap - 1],
         unborn' \in SUBSET Objects, alive' \in SUBSET (Objects \ unborn'),
         owner' \in [Slots -> Threads],
         seen' \in [Threads -> (0 .. Wrap - 1) \cup {None}], lost' \in BOOLEAN
  PROVE  Typed'
<1>1. work' \in [Threads -> Seq(Steps)]
  BY DEF Typed, TypeOK
<1>2. TypeOK'
  BY <1>1 DEF TypeOK
<1>3. \A u \in Threads : Shape(work'[u])
  BY WorkStep DEF Typed
<1>4. (\A u \in Threads : Shape(work[u]))'
  BY <1>3 DEF Shape, ReleaseFirst, SetThenRef, RefAfterSet, InitLast, Ats, Todo
<1> QED
  BY <1>2, <1>4 DEF Typed

-----------------------------------------------------------------------------
(* What the invariant says of places and of other threads.                 *)

LEMMA SourceFree ==
  ASSUME Typed, Safe, NEW t \in Threads, NEW f, Source(t, f)
  PROVE  /\ f \in Places \ HalfDone /\ \A u \in Threads : f \notin Busy(u)
         /\ f \in Objects => \E s \in Places \ HalfDone : ref[s] = f
<1>1. ASSUME NEW s \in Own(t), s \notin Busy(t)
      PROVE  s \in Places \ HalfDone /\ \A u \in Threads : s \notin Busy(u)
  <2>1. s \in Slots /\ s \in Places /\ owner[s] = t
    BY DEF Own, Places
  <2>2. ASSUME NEW u \in Threads, s \in Busy(u) PROVE FALSE
    BY <1>1, <2>1, <2>2 DEF Safe, OwnSlots, Own
  <2> QED
    BY <2>1, <2>2 DEF HalfDone
<1>2. CASE f \in Own(t)
  <2>1. f \notin Objects
    BY <1>2, RefCountAssumption DEF Own
  <2> QED
    BY <1>1, <1>2, <2>1 DEF Source
<1>3. CASE f \notin Own(t)
  <2>1. PICK s \in Own(t) \ Busy(t) : ref[s] = f
    BY <1>3 DEF Source
  <2>2. s \in Places \ HalfDone /\ owner[s] = t
    BY <1>1, <2>1 DEF Own
  <2>3. f \in Objects /\ f \in Places /\ f \notin Busy(t)
    BY <2>1, <2>2, RefCountAssumption DEF Source, Typed, TypeOK
  <2>4. ASSUME NEW u \in Threads, f \in Busy(u) PROVE FALSE
    <3>1. s \in Own(u)
      BY <2>1, <2>2, <2>3, <2>4 DEF Safe, Confined
    <3> QED
      BY <2>2, <2>3, <2>4, <3>1 DEF Own
  <2> QED
    BY <2>1, <2>2, <2>3, <2>4 DEF HalfDone
<1> QED
  BY <1>2, <1>3

\* What a thread between operations may write to is nobody's at the moment.
LEMMA OwnFree ==
  ASSUME Typed, Safe, NEW t \in Threads, work[t] = <<>>, NEW p \in Own(t) \cup Private(t)
  PROVE  /\ p \in Places \ HalfDone /\ \A u \in Threads : p \notin Busy(u)
         /\ p \in Slots => p \in Own(t)
         /\ p \in Objects => /\ p \in alive
                             /\ \A q \in Places : ref[q] = p => q \in Own(t)
                             /\ \E s \in Places \ HalfDone : ref[s] = p
<1>1. Busy(t) = {}
  BY Work, Empty
<1>2. TypeOK
  BY DEF Typed
<1>3. CASE p \in Own(t)
  <2>1. p \in Places /\ p \notin Objects
    BY <1>3, RefCountAssumption DEF Own, Places
  <2>2. Source(t, p)
    BY <1>1, <1>3, <2>1 DEF Source
  <2> QED
    BY <1>3, <2>1, <2>2, SourceFree
<1>4. CASE p \in Private(t)
  <2>1. p \in Objects /\ p \in Places /\ p \notin Slots
    BY <1>2, <1>4, Kinds, RefCountAssumption
  <2>2. PICK s \in Own(t) : ref[s] = p
    BY <1>4 DEF Private, Held
  <2>3. Source(t, p) /\ Source(t, s)
    <3>1. s \in Places
      BY <1>2, Kinds
    <3> QED
      BY <1>1, <2>1, <2>2, <3>1 DEF Source
  <2>4. s \in Places \ HalfDone
    BY <2>3, SourceFree
  <2>5. p \in alive
    BY <2>1, <2>2, <2>4, RefCountAssumption DEF Safe, NoneDead
  <2> QED
    BY <1>4, <2>1, <2>2, <2>3, <2>4, <2>5, SourceFree DEF Private
<1> QED
  BY <1>3, <1>4

\* A source stays what it is when threads write only to the places they work on.
LEMMA SourceStep ==
  ASSUME Typed, Safe, NEW t \in Threads, UNCHANGED owner,
         \A p \in Places \ Busy(t) : ref'[p] = ref[p],
         NEW u \in Threads, NEW f, Source(u, f), f \notin Busy(u)',
         Busy(u)' \cap Slots \subseteq Busy(u)
  PROVE  Source(u, f)' /\ ref'[f] = ref[f]
<1>1. Own(u)' = Own(u) /\ Own(u) \subseteq Slots /\ Slots \subseteq Places
  BY DEF Own, Places
<1>2. f \in Places /\ \A v \in Threads : f \notin Busy(v)
  BY SourceFree
<1>3. ref'[f] = ref[f]
  BY <1>2
<1>4. ASSUME NEW s \in Own(u) \ Busy(u), ref[s] = f
      PROVE  s \in Own(u)' \ Busy(u)' /\ ref'[s] = f
  <2>1. s \in Places /\ s \in Slots
    BY <1>1, <1>4
  <2>2. s \notin Busy(t)
    BY <1>4, <2>1 DEF Safe, OwnSlots, Own
  <2> QED
    BY <1>1, <1>4, <2>1, <2>2
<1>5. f \in Own(u)' \/ \E s \in Own(u)' \ Busy(u)' : ref'[s] = f
  BY <1>1, <1>4 DEF Source
<1> QED
  BY <1>2, <1>3, <1>5 DEF Source

\* What a step of t leaves as it is of another thread.
LEMMA Others ==
  ASSUME Typed, Safe, ~ lost, ~ lost', NEW t \in Threads, NEW w \in Seq(Steps),
         work' = [work EXCEPT ![t] = w], UNCHANGED owner,
         \A p \in Places \ Busy(t) : ref'[p] = ref[p],
         NEW u \in Threads \ {t}, seen'[u] = seen[u]
  PROVE  /\ work'[u] = work[u] /\ Busy(u)' = Busy(u)
         /\ Sources(u)' /\ Pending(u)' /\ Loaded(u)'
         /\ \A do : Doing(u, do)' = Doing(u, do)
         /\ work[u] # <<>> => Target(u)' = Target(u)
<1>1. work'[u] = work[u] /\ Busy(u)' = Busy(u)
  BY WorkStep
<1>2. \A do : Doing(u, do)' = Doing(u, do)
  BY <1>1 DEF Doing
<1>3. work[u] # <<>> => Target(u)' = Target(u) /\ At(u) \in Places
  <2> SUFFICES ASSUME work[u] # <<>> PROVE Target(u)' = Target(u) /\ At(u) \in Places
    OBVIOUS
  <2>1. At(u) \in Busy(u)
    BY Pop, Work DEF At
  <2>2. At(u) \in Places /\ At(u) \notin Busy(t)
    BY <2>1, Work, AtsPlaces DEF Safe, Excl
  <2> QED
    BY <1>1, <2>2 DEF Target, At
<1>4. ASSUME NEW f, Source(u, f) PROVE Source(u, f)' /\ ref'[f] = ref[f] /\ f \in Places
  <2>1. f \notin Busy(u)'
    BY <1>1, <1>4 DEF Source
  <2>2. f \in Places
    BY <1>4 DEF Source
  <2> QED
    BY <1>1, <1>4, <2>1, <2>2, SourceStep
<1>5. Sources(u)'
  <2>1. ASSUME NEW i \in Todo(work[u]), i.do = "set", i.arg # None
        PROVE  \/ Source(u, i.arg)'
               \/ i = Head(work'[u]) /\ i.arg \in Own(u)' /\ ref'[i.arg] = None
    <3>1. \/ Source(u, i.arg)
          \/ i = Head(work[u]) /\ i.arg \in Own(u) /\ ref[i.arg] = None
      BY <2>1 DEF Safe, Sources
    <3>2. i.arg \in Own(u) => i.arg \in Own(u)' /\ ref'[i.arg] = ref[i.arg]
      BY DEF Own, Places, Safe, OwnSlots
    <3> QED
      BY <1>1, <1>4, <3>1, <3>2
  <2>2. Todo(work'[u]) = Todo(work[u])
    BY <1>1
  <2> QED
    BY <2>1, <2>2 DEF Sources, Todo
<1>6. Pending(u)'
  <2> SUFFICES ASSUME Doing(u, "ref")', Target(u)' # None
               PROVE  \E f \in Places : Source(u, f)' /\ ref'[f] = Target(u)'
    BY DEF Pending
  <2>1. Doing(u, "ref") /\ work[u] # <<>>
    BY <1>2 DEF Doing
  <2>2. PICK f \in Places : Source(u, f) /\ ref[f] = Target(u)
    BY <1>3, <2>1 DEF Safe, Pending
  <2> QED
    BY <1>3, <1>4, <2>1, <2>2
<1>7. Loaded(u)'
  <2>1. Doing(u, "unref") => Target(u)' = Target(u)
    BY <1>3 DEF Doing
  <2> QED
    BY <1>2, <2>1 DEF Safe, Loaded
<1> QED
  BY <1>1, <1>2, <1>3, <1>5, <1>6, <1>7

LEMMA OtherConfined ==
  ASSUME Safe, NEW u \in Threads, UNCHANGED owner, Busy(u)' = Busy(u),
         \A p \in Places \ HalfDone' : \/ p \notin HalfDone /\ ref'[p] = ref[p]
                                       \/ ref'[p] \notin Busy(u) \cap Objects
  PROVE  Confined(u)'
<1>1. Own(u)' = Own(u)
  BY DEF Own
<1>2. ASSUME NEW x \in Busy(u)' \cap Objects, NEW p \in Places \ HalfDone', ref'[p] = x
      PROVE  p \in Own(u)'
  <2>1. p \notin HalfDone /\ ref'[p] = ref[p]
    BY <1>2
  <2> QED
    BY <1>1, <1>2, <2>1 DEF Safe, Confined
<1> QED
  BY <1>2 DEF Confined

\* Nobody comes upon an object another thread is making.
LEMMA OtherNewborn ==
  ASSUME Typed, Safe, NEW t \in Threads, NEW w \in Seq(Steps), work' = [work EXCEPT ![t] = w],
         NEW u \in Threads \ {t},
         \A o \in alive \ alive' : \E p \in Places : ref[p] = o,
         \A p \in Places : \/ ref'[p] = None \/ \E q \in Places : ref'[p] = ref[q]
                           \/ \E i \in Todo(work[t]) : i.do = "init" /\ ref'[p] = i.arg,
         \A x \in Ats(w) \ Busy(t) : x \in Slots \cup unborn \/ \E p \in Places : ref[p] = x,
         \A i \in Todo(w) : i.do = "init" => i \in Todo(work[t]) \/ i.arg \in unborn
  PROVE  Newborn(u)'
<1>1. /\ work'[t] = w /\ work'[u] = work[u] /\ Busy(t)' = Ats(w)
      /\ \A v \in Threads \ {t} : work'[v] = work[v] /\ Busy(v)' = Busy(v)
  BY WorkStep
<1> SUFFICES ASSUME NEW i \in Todo(work[u]), i.do = "init"
             PROVE  /\ i.arg \in alive'
                    /\ \A p \in Places : ref'[p] # i.arg
                    /\ \A v \in Threads \ {u} :
                         /\ i.arg \notin Busy(v)'
                         /\ \A j \in Todo(work'[v]) : j.do = "init" => j.arg # i.arg
  <2>1. Todo(work'[u]) = Todo(work[u])
    BY <1>1
  <2> QED
    BY <2>1 DEF Newborn, Todo
<1>2. /\ i.arg \in alive /\ i.arg \in Objects
      /\ \A p \in Places : ref[p] # i.arg
      /\ \A v \in Threads \ {u} :
           /\ i.arg \notin Busy(v)
           /\ \A j \in Todo(work[v]) : j.do = "init" => j.arg # i.arg
  BY DEF Safe, Newborn, Typed, TypeOK
<1>3. i.arg \notin unborn /\ i.arg \notin Slots /\ i.arg # None
  BY <1>2, RefCountAssumption DEF Typed, TypeOK, Places
<1>4. i.arg \in alive'
  BY <1>2
<1>5. \A p \in Places : ref'[p] # i.arg
  BY <1>2, <1>3
<1>6. i.arg \notin Ats(w)
  BY <1>2, <1>3
<1>7. \A j \in Todo(w) : j.do = "init" => j.arg # i.arg
  BY <1>2, <1>3
<1>8. ASSUME NEW v \in Threads \ {u}
      PROVE  /\ i.arg \notin Busy(v)'
             /\ \A j \in Todo(work'[v]) : j.do = "init" => j.arg # i.arg
  <2>1. CASE v = t
    BY <1>1, <1>6, <1>7, <2>1
  <2>2. CASE v # t
    BY <1>1, <1>2, <2>2
  <2> QED
    BY <2>1, <2>2
<1> QED
  BY <1>4, <1>5, <1>8

\* Nobody comes upon an object another thread is about to delete.
LEMMA OtherCondemned ==
  ASSUME Typed, Safe, NEW t \in Threads, NEW w \in Seq(Steps), work' = [work EXCEPT ![t] = w],
         NEW u \in Threads \ {t},
         Doing(u, "delete")' = Doing(u, "delete"),
         Doing(u, "delete") => Target(u)' = Target(u),
         \A v \in Threads \ {t} : Doing(v, "delete")' = Doing(v, "delete"),
         \A v \in Threads \ {t} : Doing(v, "delete") => Target(v)' = Target(v),
         Doing(u, "delete") => Target(u) \in alive' /\ Target(u) \notin Ats(w) \ Busy(t),
         Doing(u, "delete") /\ Doing(t, "delete")' => Target(t)' # Target(u),
         \A p \in Places \ HalfDone' : \/ p \notin HalfDone /\ ref'[p] = ref[p]
                                       \/ Doing(u, "delete") => ref'[p] # Target(u)
  PROVE  Condemned(u)'
<1> SUFFICES ASSUME Doing(u, "delete")
             PROVE  /\ Target(u) \in alive'
                    /\ \A p \in Places \ HalfDone' : ref'[p] # Target(u)
                    /\ \A v \in Threads : Target(u) \notin Busy(v)'
                    /\ \A v \in Threads \ {u} : Doing(v, "delete")' => Target(v)' # Target(u)
  BY DEF Condemned, Counted
<1>1. Busy(t)' = Ats(w) /\ \A v \in Threads \ {t} : Busy(v)' = Busy(v)
  BY WorkStep
<1>2. /\ \A p \in Places \ HalfDone : ref[p] # Target(u)
      /\ \A v \in Threads : Target(u) \notin Busy(v)
      /\ \A v \in Threads \ {u} : Doing(v, "delete") => Target(v) # Target(u)
  BY DEF Safe, Condemned, Counted
<1>3. \A p \in Places \ HalfDone' : ref'[p] # Target(u)
  BY <1>2
<1>4. \A v \in Threads : Target(u) \notin Busy(v)'
  BY <1>1, <1>2
<1>5. \A v \in Threads \ {u} : Doing(v, "delete")' => Target(v)' # Target(u)
  BY <1>2
<1> QED
  BY <1>3, <1>4, <1>5

\* What is to be counted, deleted or cleared stays so until it is.
LEMMA TidyStep ==
  ASSUME Typed, Safe, NEW t \in Threads, NEW w \in Seq(Steps), work' = [work EXCEPT ![t] = w],
         \A o \in alive' \ alive : \E i \in Todo(w) : i.do = "init" /\ i.arg = o,
         \A o \in alive' : Counted(o) # {} =>
           Counted(o)' # {} \/ (Doing(t, "delete")' /\ Target(t)' = o),
         \A u \in Threads \ {t} : Doing(u, "delete")' = Doing(u, "delete"),
         \A u \in Threads \ {t} : Doing(u, "delete") => Target(u)' = Target(u),
         Doing(t, "delete") => Target(t) \notin alive',
         \A i \in Todo(work[t]) : i.do = "init" => i \in Todo(w) \/ Counted(i.arg)' # {},
         \A o \in alive \ alive' : /\ Step("set", o, None) \in Todo(w)
                                  /\ \A u \in Threads : o \notin Busy(u),
         \A p \in Objects \ alive : ref'[p] = ref[p] \/ ref'[p] = None,
         \A o \in Objects : Step("set", o, None) \in Todo(work[t]) =>
           Step("set", o, None) \in Todo(w) \/ ref'[o] = None,
         \A i \in Todo(w) : i.do = "set" /\ i.arg # None =>
           i \in Todo(work[t]) \/ i.at \in Slots \cup alive'
  PROVE  Tidy'
<1>1. /\ work'[t] = w /\ Todo(work'[t]) = Todo(w)
      /\ \A u \in Threads \ {t} : work'[u] = work[u] /\ Todo(work'[u]) = Todo(work[u])
  BY WorkStep
<1>2. ASSUME NEW o \in alive'
      PROVE  \/ Counted(o)' # {}
             \/ \E u \in Threads : Doing(u, "delete")' /\ Target(u)' = o
             \/ \E u \in Threads : \E i \in Todo(work'[u]) : i.do = "init" /\ i.arg = o
  <2>1. CASE o \notin alive
    BY <1>1, <2>1
  <2>2. CASE Counted(o) # {}
    BY <2>2
  <2>3. ASSUME NEW u \in Threads, Doing(u, "delete"), Target(u) = o
        PROVE  \E x \in Threads : Doing(x, "delete")' /\ Target(x)' = o
    <3>1. u # t
      BY <2>3
    <3> QED
      BY <2>3, <3>1
  <2>4. ASSUME NEW u \in Threads, NEW i \in Todo(work[u]), i.do = "init", i.arg = o
        PROVE  Counted(o)' # {} \/ i \in Todo(work'[u])
    BY <1>1, <2>4
  <2> QED
    BY <2>1, <2>2, <2>3, <2>4 DEF Safe, Tidy, Kept
<1>3. Kept'
  BY <1>2 DEF Kept, Todo
<1>4. ASSUME NEW o \in Objects \ alive', ref'[o] # None
      PROVE  \E u \in Threads : Step("set", o, None) \in Todo(work'[u])
  <2>1. CASE o \in alive
    BY <1>1, <2>1
  <2>2. CASE o \notin alive
    <3>1. ref[o] # None
      BY <1>4, <2>2
    <3>2. PICK u \in Threads : Step("set", o, None) \in Todo(work[u])
      BY <2>2, <3>1 DEF Safe, Tidy, Cleared
    <3> QED
      BY <1>1, <1>4, <3>2
  <2> QED
    BY <2>1, <2>2
<1>5. Cleared'
  <2>1. \A o \in Objects \ alive' :
          ref'[o] = None \/ \E u \in Threads : Step("set", o, None) \in Todo(work'[u])
    BY <1>4
  <2> QED
    BY <2>1 DEF Cleared, Step, Todo
<1>6. ASSUME NEW u \in Threads, NEW i \in Todo(work'[u]), i.do = "set", i.arg # None
      PROVE  i.at \in Slots \cup alive'
  <2>1. CASE i \in Todo(work[u])
    <3>1. i.at \in Slots \cup alive
      BY <1>6, <2>1 DEF Safe, Tidy, Written
    <3>2. i.at \in Busy(u)
      BY <2>1, Work DEF Ats
    <3> QED
      BY <3>1, <3>2
  <2>2. CASE i \notin Todo(work[u])
    <3>1. u = t
      BY <1>1, <1>6, <2>2
    <3> QED
      BY <1>1, <1>6, <2>2, <3>1
  <2> QED
    BY <2>1, <2>2
<1>7. Written'
  BY <1>6 DEF Written, Todo
<1> QED
  BY <1>3, <1>5, <1>7 DEF Tidy

-----------------------------------------------------------------------------
(* The operations.                                                         *)

\* Assign and Clear: t sets out to write to a place only it can reach.
LEMMA StartSafe ==
  ASSUME Typed, Safe, ~ lost, NEW t \in Threads, work[t] = <<>>,
         NEW to \in Own(t) \cup Private(t), NEW from \in Places \cup {None},
         from # None => from # to /\ from \in Own(t) \cup Held(t, Own(t) \ {to}),
         NEW w \in Seq(Steps), Shape(w), w # <<>>, Head(w) = Step("set", to, from),
         Todo(w) \subseteq {Step("set", to, from), Step("ref", to, None)}, Ats(w) = {to},
         work' = [work EXCEPT ![t] = Release(to) \o w],
         UNCHANGED <<ref, count, unborn, alive, owner, seen, lost>>
  PROVE  Typed' /\ Safe'
<1> DEFINE v == Release(to) \o w
<1>1. /\ to \in Places \ HalfDone /\ \A u \in Threads : to \notin Busy(u)
      /\ to \in Slots => to \in Own(t)
      /\ to \in Objects => /\ to \in alive /\ \A q \in Places : ref[q] = to => q \in Own(t)
                           /\ \E s \in Places \ HalfDone : ref[s] = to
  BY OwnFree
<1>2. /\ \A i \in Todo(w) : i.do \in {"set", "ref"} /\ i.at = to
      /\ \A i \in Todo(w) : i.do = "set" => i.arg = from
      /\ Head(w).do = "set" /\ Head(w).at = to
  BY DEF Step
<1>3. /\ v \in Seq(Steps) /\ Shape(v) /\ v # <<>> /\ Ats(v) = {to}
      /\ ref[to] = None => v = w
      /\ ref[to] # None => /\ Head(v) = Step("unref", to, None)
                           /\ Todo(v) = {Step("unref", to, None)} \cup Todo(w)
  <2>1. \A i \in Todo(w) : i.do \notin Releases
    BY <1>2 DEF Releases
  <2>2. to \in Places
    BY <1>1
  <2> QED
    BY <1>2, <2>1, <2>2, ReleaseBefore
<1>4. /\ \A i \in Todo(v) : i.do \in {"unref", "set", "ref"} /\ (i.do = "set" => i.arg = from)
      /\ Head(v).do \in {"unref", "set"}
      /\ Head(v).do = "unref" => Head(v).at = to /\ ref[to] # None
      /\ Head(v).do # "unref" => ref[to] = None
  <2> HIDE DEF v
  <2>1. Step("unref", to, None).do = "unref" /\ Step("unref", to, None).at = to
    BY DEF Step
  <2>2. CASE ref[to] = None
    BY <1>2, <1>3, <2>2
  <2>3. CASE ref[to] # None
    <3>1. \A i \in Todo(w) : i.do \in {"unref", "set", "ref"} /\ (i.do = "set" => i.arg = from)
      BY <1>2
    <3> QED
      BY <1>3, <2>1, <2>3, <3>1
  <2> QED
    BY <2>2, <2>3
<1>5. work' = [work EXCEPT ![t] = v] /\ Busy(t) = {}
  BY Work, Empty
<1> HIDE DEF v
<1>6. Typed'
  <2>1. TypeOK
    BY DEF Typed
  <2> QED
    BY <1>3, <1>5, <2>1, TypedStep DEF TypeOK
<1>7. Excl' /\ HalfDone' = HalfDone \cup Half(v)
  <2>1. \A u \in Threads \ {t} : Ats(v) \cap Busy(u) = {}
    BY <1>1, <1>3
  <2>2. Excl' /\ HalfDone' = (HalfDone \ Busy(t)) \cup Half(v)
    BY <1>3, <1>5, <2>1, HalfStep DEF Safe
  <2> QED
    BY <1>5, <2>2
<1>8. \A p \in Half(v) : p = to /\ ref[p] = None
  BY <1>3, <1>4 DEF Half
<1>9. work'[t] = v /\ Busy(t)' = {to} /\ \A u \in Threads \ {t} : Busy(u)' = Busy(u)
  BY <1>3, <1>5, WorkStep
<1>10. \A u \in Threads : Own(u)' = Own(u)
  BY DEF Own
<1>11. OwnSlots'
  BY <1>1, <1>9, <1>10 DEF Safe, OwnSlots
<1>12. Born'
  <2>1. to \notin unborn
    BY <1>1, RefCountAssumption DEF Typed, TypeOK, Own, Places
  <2> QED
    BY <1>9, <2>1 DEF Safe, Born
<1>13. Unborn' /\ NoneDead'
  BY <1>7 DEF Safe, Unborn, NoneDead
<1>14. ASSUME NEW o \in Objects PROVE Counted(o)' = Counted(o)
  <2>1. o # None
    BY RefCountAssumption DEF Places
  <2>2. ref' = ref
    OBVIOUS
  <2> QED
    BY <1>7, <1>8, <2>1, <2>2 DEF Counted
<1>15. Exact'
  BY <1>14 DEF Safe, Exact, Typed, TypeOK
<1>16. ~ lost'
  OBVIOUS
<1>17. ASSUME NEW u \in Threads \ {t}
       PROVE  /\ Confined(u)' /\ Sources(u)' /\ Pending(u)' /\ Newborn(u)'
              /\ Condemned(u)' /\ Loaded(u)'
  <2>1. /\ Sources(u)' /\ Pending(u)' /\ Loaded(u)' /\ Busy(u)' = Busy(u)
    BY <1>3, <1>5, <1>16, Others
  <2>2. Confined(u)'
    BY <1>7, <2>1, OtherConfined
  <2>3. Newborn(u)'
    <3>1. \A p \in Places : \E q \in Places : ref'[p] = ref[q]
      OBVIOUS
    <3>2. \A x \in Ats(v) \ Busy(t) : x \in Slots \cup unborn \/ \E p \in Places : ref[p] = x
      BY <1>1, <1>3 DEF Places
    <3>3. \A i \in Todo(v) : i.do # "init"
      BY <1>4
    <3> QED
      BY <1>3, <1>5, <3>1, <3>2, <3>3, OtherNewborn
  <2>4. Condemned(u)'
    <3>1. ASSUME NEW x \in Threads \ {t}
          PROVE  /\ Doing(x, "delete")' = Doing(x, "delete")
                 /\ Doing(x, "delete") => Target(x)' = Target(x)
      BY <1>3, <1>5, <1>16, Others DEF Doing
    <3>2. Doing(u, "delete") => Target(u) \in alive /\ Target(u) \notin {to}
      BY <1>1 DEF Safe, Condemned, Counted, Typed, TypeOK, Places
    <3>3. ~ Doing(t, "delete")'
      BY <1>4, <1>9 DEF Doing
    <3> QED
      BY <1>3, <1>5, <1>7, <3>1, <3>2, <3>3, OtherCondemned
  <2> QED
    BY <2>1, <2>2, <2>3, <2>4
<1>18. Confined(t)'
  BY <1>1, <1>9, <1>10 DEF Confined
<1>19. Sources(t)'
  <2>1. from # None => Source(t, from)'
    BY <1>5, <1>9, <1>10 DEF Source, Held
  <2>2. \A i \in Todo(work'[t]) : i.do = "set" => i.arg = from
    BY <1>4, <1>9
  <2> QED
    BY <2>1, <2>2 DEF Sources, Todo
<1>20. Pending(t)' /\ Condemned(t)' /\ Newborn(t)'
  <2>1. ~ Doing(t, "ref")' /\ ~ Doing(t, "delete")'
    BY <1>4, <1>9 DEF Doing
  <2>2. \A i \in Todo(work'[t]) : i.do # "init"
    BY <1>4, <1>9
  <2> QED
    BY <2>1, <2>2 DEF Pending, Condemned, Newborn, Todo
<1>21. Loaded(t)'
  <2>1. seen[t] = None
    BY DEF Safe, Loaded, Doing
  <2> QED
    BY <2>1 DEF Loaded
<1>22. Tidy'
  <2>1. ASSUME NEW x \in Threads \ {t}
        PROVE  /\ Doing(x, "delete")' = Doing(x, "delete")
               /\ Doing(x, "delete") => Target(x)' = Target(x)
    BY <1>3, <1>5, <1>16, Others DEF Doing
  <2>2. Todo(work[t]) = {} /\ ~ Doing(t, "delete")
    BY Empty DEF Doing
  <2>3. \A i \in Todo(v) : i.do = "set" /\ i.arg # None => i.at \in Slots \cup alive
    <3>1. to \in Slots \cup alive
      BY <1>1 DEF Places
    <3>2. \A i \in Todo(v) : i.at = to
      BY <1>3 DEF Ats
    <3> QED
      BY <3>1, <3>2
  <2>4. \A o \in alive : Counted(o)' = Counted(o)
    BY <1>14 DEF Typed, TypeOK
  <2> QED
    BY <1>3, <1>5, <2>1, <2>2, <2>3, <2>4, TidyStep
<1> QED
  BY <1>6, <1>7, <1>11, <1>12, <1>13, <1>15, <1>17, <1>18, <1>19, <1>20, <1>21, <1>22 DEF Safe

LEMMA AssignSafe ==
  ASSUME Typed, Safe, NEW t \in Threads, NEW to \in Own(t) \cup Private(t), NEW from \in Places,
         from \in Own(t) \cup Held(t, Own(t) \ {to}), Assign(t, to, from)
  PROVE  Typed' /\ Safe'
<1> DEFINE w == <<Step("set", to, from), Step("ref", to, None)>>
<1>1. ~ lost /\ work[t] = <<>> /\ from # to
  BY DEF Assign, Idle
<1>2. to \in Places
  BY <1>1, OwnFree
<1>3. /\ w \in Seq(Steps) /\ Shape(w) /\ w # <<>> /\ Head(w) = Step("set", to, from)
      /\ Todo(w) = {Step("set", to, from), Step("ref", to, None)} /\ Ats(w) = {to}
  BY <1>2, SetAssign
<1>4. work' = [work EXCEPT ![t] = Release(to) \o w]
      /\ UNCHANGED <<ref, count, unborn, alive, owner, seen, lost>>
  BY DEF Assign
<1> HIDE DEF w
<1> QED
  BY <1>1, <1>3, <1>4, StartSafe

LEMMA ClearSafe ==
  ASSUME Typed, Safe, NEW t \in Threads, NEW to \in Own(t) \cup Private(t), Clear(t, to)
  PROVE  Typed' /\ Safe'
<1> DEFINE w == <<Step("set", to, None)>>
<1>1. ~ lost /\ work[t] = <<>>
  BY DEF Clear, Idle
<1>2. to \in Places
  BY <1>1, OwnFree
<1>3. /\ w \in Seq(Steps) /\ Shape(w) /\ w # <<>> /\ Head(w) = Step("set", to, None)
      /\ Todo(w) = {Step("set", to, None)} /\ Ats(w) = {to}
  BY <1>2, SetClear
<1>4. work' = [work EXCEPT ![t] = Release(to) \o w]
      /\ UNCHANGED <<ref, count, unborn, alive, owner, seen, lost>>
  BY DEF Clear
<1>5. None \in Places \cup {None}
  OBVIOUS
<1> HIDE DEF w
<1> QED
  BY <1>1, <1>3, <1>4, <1>5, StartSafe

LEMMA MakeSafe ==
  ASSUME Typed, Safe, NEW t \in Threads, NEW to \in Own(t), NEW o \in Objects,
         NEW from \in Own(t) \cup {None}, Make(t, to, o, from)
  PROVE  Typed' /\ Safe'
<1> DEFINE w == <<Step("set", o, from), Step("ref", o, None), Step("init", to, o)>>
<1>1. /\ ~ lost /\ ~ lost' /\ work[t] = <<>> /\ ref[to] = None /\ o \in unborn
      /\ work' = [work EXCEPT ![t] = w] /\ unborn' = unborn \ {o} /\ alive' = alive \cup {o}
      /\ UNCHANGED <<ref, count, owner, seen, lost>>
  BY DEF Make, Idle
<1>2. to \in Slots /\ from \in Places \cup {None}
  BY DEF Own, Places
<1>3. /\ w \in Seq(Steps) /\ Shape(w) /\ w # <<>> /\ Head(w) = Step("set", o, from)
      /\ Todo(w) = {Step("set", o, from), Step("ref", o, None), Step("init", to, o)}
      /\ Ats(w) = {to, o}
  BY <1>2, SetMake
<1> HIDE DEF w
<1>4. /\ Head(w).do = "set" /\ Head(w).arg = from
      /\ \A i \in Todo(w) : /\ i.do = "set" => i = Head(w)
                            /\ i.do = "init" => i.arg = o
  BY <1>3 DEF Step
<1>5. Busy(t) = {}
  BY <1>1, Work, Empty
<1>6. /\ to \in Places \ HalfDone /\ \A u \in Threads : to \notin Busy(u)
      /\ to \in Own(t) /\ to \notin Objects
  BY <1>1, <1>2, OwnFree, RefCountAssumption
<1>7. /\ ref[o] = None /\ count[o] = 0 /\ \A p \in Places : ref[p] # o
      /\ \A u \in Threads : o \notin Busy(u)
  BY <1>1 DEF Safe, Unborn, Born
<1>8. Typed'
  <2>1. TypeOK
    BY DEF Typed
  <2>2. unborn' \in SUBSET Objects /\ alive' \in SUBSET (Objects \ unborn')
    BY <1>1, <2>1 DEF TypeOK
  <2> QED
    BY <1>1, <1>3, <2>1, <2>2, TypedStep DEF TypeOK
<1>9. Excl' /\ HalfDone' = HalfDone \cup {to, o}
  <2>1. \A u \in Threads \ {t} : Ats(w) \cap Busy(u) = {}
    BY <1>3, <1>6, <1>7
  <2>2. Excl' /\ HalfDone' = (HalfDone \ Busy(t)) \cup Half(w)
    BY <1>1, <1>3, <2>1, HalfStep DEF Safe
  <2>3. Half(w) = {to, o}
    BY <1>3, <1>4 DEF Half
  <2> QED
    BY <1>5, <2>2, <2>3
<1>10. work'[t] = w /\ Busy(t)' = {to, o} /\ \A u \in Threads \ {t} : Busy(u)' = Busy(u)
  BY <1>1, <1>3, WorkStep
<1>11. \A u \in Threads : Own(u)' = Own(u)
  BY <1>1 DEF Own
<1>12. OwnSlots'
  BY <1>6, <1>10, <1>11, RefCountAssumption DEF Safe, OwnSlots
<1>13. Born'
  <2>1. to \notin unborn
    BY <1>6 DEF Typed, TypeOK
  <2> QED
    BY <1>1, <1>10, <2>1 DEF Safe, Born
<1>14. Unborn' /\ NoneDead'
  BY <1>1, <1>9 DEF Safe, Unborn, NoneDead
<1>15. ASSUME NEW x \in Objects PROVE Counted(x)' = Counted(x)
  <2>1. x # None
    BY RefCountAssumption DEF Places
  <2>2. ref' = ref
    BY <1>1
  <2>3. ref[to] # x /\ ref[o] # x
    BY <1>1, <1>7, <2>1
  <2> QED
    BY <1>9, <2>2, <2>3 DEF Counted
<1>16. Exact'
  <2>1. ASSUME NEW x \in alive' PROVE count'[x] = Cardinality(Counted(x)')
    <3>1. x \in Objects
      BY <1>1, <2>1 DEF Typed, TypeOK
    <3>2. CASE x = o
      <4>1. Counted(o) = {}
        BY <1>7 DEF Counted
      <4> QED
        BY <1>1, <1>7, <1>15, <3>2, <4>1, FS_EmptySet
    <3>3. CASE x # o
      BY <1>1, <1>15, <3>1, <3>3 DEF Safe, Exact
    <3> QED
      BY <3>2, <3>3
  <2> QED
    BY <2>1 DEF Exact
<1>17. ASSUME NEW u \in Threads \ {t}
       PROVE  /\ Confined(u)' /\ Sources(u)' /\ Pending(u)' /\ Newborn(u)'
              /\ Condemned(u)' /\ Loaded(u)'
  <2>1. /\ Sources(u)' /\ Pending(u)' /\ Loaded(u)' /\ Busy(u)' = Busy(u)
    BY <1>1, <1>3, Others
  <2>2. Confined(u)'
    BY <1>1, <1>9, <2>1, OtherConfined
  <2>3. Newborn(u)'
    <3>1. \A p \in Places : \E q \in Places : ref'[p] = ref[q]
      BY <1>1
    <3>2. \A x \in Ats(w) \ Busy(t) : x \in Slots \cup unborn
      BY <1>1, <1>2, <1>3
    <3>3. \A i \in Todo(w) : i.do = "init" => i.arg \in unborn
      BY <1>1, <1>4
    <3>4. alive \ alive' = {}
      BY <1>1
    <3> QED
      BY <1>1, <1>3, <3>1, <3>2, <3>3, <3>4, OtherNewborn
  <2>4. Condemned(u)'
    <3>1. ASSUME NEW x \in Threads \ {t}
          PROVE  /\ Doing(x, "delete")' = Doing(x, "delete")
                 /\ Doing(x, "delete") => Target(x)' = Target(x)
      BY <1>1, <1>3, Others DEF Doing
    <3>2. Doing(u, "delete") => Target(u) \in alive' /\ Target(u) \notin {to, o}
      BY <1>1, <1>6 DEF Safe, Condemned, Typed, TypeOK
    <3>3. ~ Doing(t, "delete")'
      BY <1>4, <1>10 DEF Doing
    <3>4. \A p \in Places \ HalfDone' : p \notin HalfDone /\ ref'[p] = ref[p]
      BY <1>1, <1>9
    <3> QED
      BY <1>1, <1>3, <3>1, <3>2, <3>3, <3>4, OtherCondemned
  <2> QED
    BY <2>1, <2>2, <2>3, <2>4
<1>18. Confined(t)'
  BY <1>1, <1>6, <1>7, <1>10, <1>11 DEF Confined
<1>19. Sources(t)'
  <2>1. from # None /\ from # to => Source(t, from)'
    <3>1. from # None => from \in Own(t) /\ from # o
      BY <1>2, RefCountAssumption DEF Own
    <3> QED
      BY <1>2, <1>10, <1>11, <3>1 DEF Source
  <2>2. ASSUME NEW i \in Todo(w), i.do = "set", i.arg # None
        PROVE  \/ Source(t, i.arg)'
               \/ i = Head(work'[t]) /\ i.arg \in Own(t)' /\ ref'[i.arg] = None
    <3>1. i = Head(work'[t]) /\ i.arg = from
      BY <1>4, <1>10, <2>2
    <3> QED
      BY <1>1, <1>11, <2>1, <2>2, <3>1
  <2>3. Todo(work'[t]) = Todo(w)
    BY <1>10
  <2> QED
    BY <2>2, <2>3 DEF Sources, Todo
<1>20. Pending(t)' /\ Condemned(t)'
  <2>1. ~ Doing(t, "ref")' /\ ~ Doing(t, "delete")'
    BY <1>4, <1>10 DEF Doing
  <2> QED
    BY <2>1 DEF Pending, Condemned
<1>21. Newborn(t)'
  <2>1. ASSUME NEW u \in Threads \ {t}
        PROVE  /\ o \notin Busy(u)'
               /\ \A j \in Todo(work'[u]) : j.do = "init" => j.arg # o
    <3>1. work'[u] = work[u]
      BY <1>1, <1>3, WorkStep
    <3>2. \A j \in Todo(work[u]) : j.do = "init" => j.arg \in alive
      BY DEF Safe, Newborn
    <3>3. o \notin alive
      BY <1>1 DEF Typed, TypeOK
    <3> QED
      BY <1>7, <1>10, <3>1, <3>2, <3>3
  <2>2. \A i \in Todo(work'[t]) : i.do = "init" => i.arg = o
    BY <1>4, <1>10
  <2>3. o \in alive' /\ \A p \in Places : ref'[p] # o
    BY <1>1, <1>7
  <2> QED
    BY <2>1, <2>2, <2>3 DEF Newborn, Todo
<1>22. Loaded(t)'
  <2>1. seen[t] = None
    BY <1>1 DEF Safe, Loaded, Doing
  <2> QED
    BY <1>1, <2>1 DEF Loaded
<1>23. Tidy'
  <2>1. ASSUME NEW x \in Threads \ {t}
        PROVE  /\ Doing(x, "delete")' = Doing(x, "delete")
               /\ Doing(x, "delete") => Target(x)' = Target(x)
    BY <1>1, <1>3, Others DEF Doing
  <2>2. Todo(work[t]) = {} /\ ~ Doing(t, "delete")
    BY <1>1, Empty DEF Doing
  <2>3. \A i \in Todo(w) : i.do = "set" => i.at \in alive'
    BY <1>1, <1>3, <1>4 DEF Step
  <2>4. \A x \in alive' : Counted(x)' = Counted(x)
    BY <1>1, <1>15 DEF Typed, TypeOK
  <2>5. \E i \in Todo(w) : i.do = "init" /\ i.arg = o
    BY <1>3 DEF Step
  <2>6. alive' \ alive \subseteq {o} /\ alive \ alive' = {}
    BY <1>1
  <2> QED
    BY <1>1, <1>3, <2>1, <2>2, <2>3, <2>4, <2>5, <2>6, TidyStep
<1> QED
  BY <1>8, <1>9, <1>12, <1>13, <1>14, <1>16, <1>17, <1>18, <1>19, <1>20, <1>21, <1>22,
     <1>23 DEF Safe

\* A slot that changes threads is one its thread has nothing to do with.
LEMMA GiveSafe ==
  ASSUME Typed, Safe, NEW t \in Threads, NEW u \in Threads \ {t}, NEW s \in Own(t), Give(t, u, s)
  PROVE  Typed' /\ Safe'
<1>1. /\ ~ lost /\ work[t] = <<>> /\ owner' = [owner EXCEPT ![s] = u]
      /\ UNCHANGED <<ref, count, unborn, alive, work, seen, lost>>
  BY DEF Give, Idle
<1>2. TypeOK /\ s \in Slots /\ s \in Places
  BY DEF Typed, Own, Places
<1>3. Typed'
  <2>1. TypeOK'
    BY <1>1, <1>2 DEF TypeOK
  <2>2. \A v \in Threads : Shape(work'[v])
    BY <1>1 DEF Typed
  <2>3. (\A v \in Threads : Shape(work[v]))'
    BY <2>2 DEF Shape, ReleaseFirst, SetThenRef, RefAfterSet, InitLast, Ats, Todo
  <2> QED
    BY <2>1, <2>3 DEF Typed
<1>4. /\ \A v \in Threads : Busy(v)' = Busy(v) /\ Todo(work'[v]) = Todo(work[v])
      /\ HalfDone' = HalfDone /\ \A o : Counted(o)' = Counted(o)
  BY <1>1 DEF Busy, HalfDone, Counted, At
<1>5. Busy(t) = {} /\ \A v \in Threads : s \notin Busy(v)
  BY <1>1, Work, Empty, OwnFree
<1>6. \A v \in Threads \ {t} : Own(v) \subseteq Own(v)'
  BY <1>1, <1>2 DEF Own, TypeOK
<1>7. Excl' /\ Born' /\ Unborn' /\ NoneDead' /\ Exact'
  BY <1>1, <1>4 DEF Safe, Excl, Born, Unborn, NoneDead, Exact
<1>8. OwnSlots'
  BY <1>4, <1>5, <1>6 DEF Safe, OwnSlots
<1>9. ASSUME NEW v \in Threads PROVE Confined(v)' /\ Sources(v)' /\ Pending(v)'
  <2>1. CASE v = t
    <3>1. Todo(work[t]) = {} /\ ~ Doing(t, "ref")'
      BY <1>1, Empty DEF Doing
    <3> QED
      BY <1>4, <1>5, <2>1, <3>1 DEF Confined, Sources, Pending, Todo
  <2>2. CASE v # t
    <3>1. Own(v) \subseteq Own(v)' /\ Busy(v)' = Busy(v)
      BY <1>4, <1>6, <2>2
    <3>2. Confined(v)'
      BY <1>1, <1>4, <3>1 DEF Safe, Confined
    <3>3. \A f : Source(v, f) => Source(v, f)'
      BY <1>1, <3>1 DEF Source
    <3>4. Sources(v)'
      BY <1>1, <3>1, <3>3 DEF Safe, Sources, Todo
    <3>5. Pending(v)'
      BY <1>1, <3>3 DEF Safe, Pending, Doing, Target, At
    <3> QED
      BY <3>2, <3>4, <3>5
  <2> QED
    BY <2>1, <2>2
<1>10. ASSUME NEW v \in Threads PROVE Newborn(v)' /\ Condemned(v)' /\ Loaded(v)'
  <2>1. Newborn(v)'
    BY <1>1, <1>4 DEF Safe, Newborn, Todo
  <2>2. Condemned(v)' /\ Loaded(v)'
    BY <1>1, <1>4 DEF Safe, Condemned, Loaded, Doing, Target, At
  <2> QED
    BY <2>1, <2>2
<1>11. Tidy'
  <2>1. Kept'
    BY <1>1, <1>4 DEF Safe, Tidy, Kept, Doing, Target, At, Todo
  <2>2. Cleared' /\ Written'
    BY <1>1, <1>4 DEF Safe, Tidy, Cleared, Written, Step, Todo
  <2> QED
    BY <2>1, <2>2 DEF Tidy
<1> QED
  BY <1>3, <1>7, <1>8, <1>9, <1>10, <1>11 DEF Safe

-----------------------------------------------------------------------------
(* The micro-steps.                                                        *)

\* The place a thread is at is its own, and what it has before it is half done.
LEMMA Micro ==
  ASSUME Typed, Safe, NEW t \in Threads, work[t] # <<>>
  PROVE  LET a == Head(work[t])
             v == Tail(work[t])
             p == At(t)
         IN  /\ a \in Steps /\ p = a.at /\ p \in Places /\ p \in Busy(t) /\ a \in Todo(work[t])
             /\ Todo(work[t]) = {a} \cup Todo(v) /\ Busy(t) = {p} \cup Ats(v)
             /\ Half(v) = Ats(v)
             /\ HalfDone \cap Busy(t) = IF a.do = "unref" THEN Busy(t) \ {p} ELSE Busy(t)
             /\ \A u \in Threads \ {t} : Busy(t) \cap Busy(u) = {}
             /\ \A i \in Todo(v) : i.do = "set" /\ i.arg # None => Source(t, i.arg)
             /\ a.do = "set" /\ a.arg # None => \A i \in Todo(v) : i.do # "set"
<1> DEFINE a == Head(work[t])
           v == Tail(work[t])
           p == At(t)
<1>1. work[t] \in Seq(Steps) /\ Shape(work[t]) /\ Busy(t) = Ats(work[t])
  BY Work
<1>2. /\ a \in Steps /\ v \in Seq(Steps) /\ Shape(v)
      /\ Todo(work[t]) = {a} \cup Todo(v) /\ Ats(work[t]) = {a.at} \cup Ats(v)
      /\ \A i \in Todo(v) : i.do \notin Releases
      /\ v # <<>> => Head(v) \in Todo(v)
      /\ a.do = "set" /\ a.arg # None => v # <<>> /\ Head(v).do = "ref"
  BY <1>1, Pop
<1>3. p = a.at /\ p \in Places
  BY <1>2 DEF At, Steps
<1> HIDE DEF a, v, p
<1>4. Half(v) = Ats(v)
  <2>1. CASE v = <<>>
    BY <2>1, Empty DEF Half
  <2>2. CASE v # <<>>
    BY <1>2, <2>2 DEF Half, Releases
  <2> QED
    BY <2>1, <2>2
<1>5. HalfDone \cap Busy(t) = IF a.do = "unref" THEN Busy(t) \ {p} ELSE Busy(t)
  <2>1. HalfDone \cap Busy(t) = Half(work[t])
    <3>1. ASSUME NEW q \in Places
          PROVE  q \in HalfDone /\ q \in Busy(t) <=> q \in Half(work[t])
      <4>1. \A u \in Threads : Half(work[u]) \subseteq Busy(u)
        BY Work DEF Half
      <4> QED
        BY <4>1, HalfIs DEF Safe, Excl
    <3>2. Busy(t) \subseteq Places
      BY <1>1, AtsPlaces
    <3> QED
      BY <1>1, <3>1, <3>2 DEF Half
  <2> QED
    BY <1>1, <1>3, <2>1 DEF Half, a
<1>6. a.do = "set" /\ a.arg # None => \A i \in Todo(v) : i.do # "set"
  <2> SUFFICES ASSUME a.do = "set", a.arg # None PROVE \A i \in Todo(v) : i.do # "set"
    OBVIOUS
  <2>1. v # <<>> /\ Head(v).do = "ref"
    BY <1>2
  <2>2. /\ Todo(v) = {Head(v)} \cup Todo(Tail(v))
        /\ \/ Tail(v) = <<>>
           \/ Todo(Tail(v)) = {Head(Tail(v))} /\ Head(Tail(v)).do = "init"
    BY <1>2, <2>1, Pop
  <2> QED
    BY <2>1, <2>2, Empty
<1>7. \A i \in Todo(v) : i.do = "set" /\ i.arg # None => Source(t, i.arg)
  <2> SUFFICES ASSUME NEW i \in Todo(v), i.do = "set", i.arg # None PROVE Source(t, i.arg)
    OBVIOUS
  <2>1. \/ Source(t, i.arg)
        \/ i = a
    BY <1>2 DEF Safe, Sources, a
  <2> QED
    BY <1>6, <2>1
<1>8. \A u \in Threads \ {t} : Busy(t) \cap Busy(u) = {}
  BY DEF Safe, Excl
<1> QED
  BY <1>1, <1>2, <1>3, <1>4, <1>5, <1>6, <1>7, <1>8 DEF a, v, p

\* A counted place makes a count positive, and there is room for every place.
LEMMA CountedOnce ==
  ASSUME Typed, Safe, NEW o \in alive
  PROVE  /\ o \in Objects /\ IsFiniteSet(Counted(o)) /\ count[o] \in Nat
         /\ count[o] = Cardinality(Counted(o)) /\ count[o] < Wrap
         /\ \A p \in Places \ HalfDone : ref[p] = o => count[o] # 0 /\ p \in Counted(o)
         /\ \A p \in Places \ Counted(o) : count[o] + 1 < Wrap
<1>1. o \in Objects /\ count[o] \in 0 .. Wrap - 1 /\ count[o] = Cardinality(Counted(o))
  BY DEF Typed, TypeOK, Safe, Exact
<1>2. /\ IsFiniteSet(Places) /\ Cardinality(Places) \in Nat
      /\ Wrap \in Nat /\ Wrap > Cardinality(Places)
  BY RefCountAssumption, FS_CardinalityType
<1>3. Counted(o) \in SUBSET Places
  BY DEF Counted
<1>4. IsFiniteSet(Counted(o)) /\ Cardinality(Counted(o)) \in Nat
  BY <1>2, <1>3, FS_Subset, FS_CardinalityType
<1>5. ASSUME NEW p \in Places \ HalfDone, ref[p] = o
      PROVE  count[o] # 0 /\ p \in Counted(o)
  <2>1. p \in Counted(o)
    BY <1>5 DEF Counted
  <2> QED
    BY <1>1, <1>4, <2>1, FS_EmptySet
<1>6. ASSUME NEW p \in Places \ Counted(o)
      PROVE  count[o] + 1 < Wrap
  <2>1. Counted(o) \cup {p} \in SUBSET Places
    BY <1>3
  <2>2. Cardinality(Counted(o) \cup {p}) = Cardinality(Counted(o)) + 1
    BY <1>4, FS_AddElement
  <2>3. Cardinality(Counted(o) \cup {p}) <= Cardinality(Places)
    BY <1>2, <2>1, FS_Subset
  <2> QED
    BY <1>1, <1>2, <1>4, <2>2, <2>3
<1> QED
  BY <1>1, <1>2, <1>4, <1>5, <1>6

\* No count wraps around.
LEMMA ModSmall ==
  ASSUME NEW c \in Nat, NEW n \in Nat, c < n
  PROVE  c % n = c
  OBVIOUS

LEMMA ModRange ==
  ASSUME NEW c \in Nat, NEW n \in Nat, 0 < n
  PROVE  c % n \in 0 .. n - 1
  OBVIOUS

\* Counting down, in a counter with n values.
LEMMA ModLess ==
  ASSUME NEW c \in Nat, NEW n \in Nat, 0 < c, c < n
  PROVE  (c + n - 1) % n = c - 1
<1> DEFINE a == c + n - 1
<1>1. a \in Nat /\ n <= a /\ a < n + n
  OBVIOUS
<1>2. a % n \in 0 .. n - 1 /\ a \div n \in Int /\ a = n * (a \div n) + (a % n)
  BY <1>1
<1>3. a \div n = 1
  <2> DEFINE q == a \div n
             r == a % n
  <2>1. a = n * q + r /\ q \in Int /\ r \in 0 .. n - 1
    BY <1>2
  <2> HIDE DEF q, r, a
  <2>2. q < 1 => n * q <= 0
    BY <2>1
  <2>3. q > 1 => n * q >= n + n
    BY <2>1
  <2>4. q = 1
    BY <1>1, <2>1, <2>2, <2>3
  <2> QED
    BY <2>4 DEF q
<1>4. a % n = a - n
  BY <1>1, <1>2, <1>3
<1> QED
  BY <1>4

\* Load, and an exchange that failed.
LEMMA QuietSafe ==
  ASSUME Typed, Safe, ~ lost, NEW t \in Threads, NEW c \in (0 .. Wrap - 1) \cup {None},
         seen' = [seen EXCEPT ![t] = c],
         c # None => \/ Doing(t, "unref") /\ Target(t) \in Plain
                     \/ Doing(t, "ref") /\ c # 0,
         UNCHANGED <<ref, count, unborn, alive, owner, work, lost>>
  PROVE  Typed' /\ Safe'
<1>1. TypeOK'
  BY DEF Typed, TypeOK
<1>2. Typed'
  <2>1. \A v \in Threads : Shape(work'[v])
    BY DEF Typed
  <2>2. (\A v \in Threads : Shape(work[v]))'
    BY <2>1 DEF Shape, ReleaseFirst, SetThenRef, RefAfterSet, InitLast, Ats, Todo
  <2> QED
    BY <1>1, <2>2 DEF Typed
<1>3. /\ \A v \in Threads : Busy(v)' = Busy(v) /\ Todo(work'[v]) = Todo(work[v])
      /\ \A v \in Threads : Own(v)' = Own(v)
      /\ HalfDone' = HalfDone /\ \A o : Counted(o)' = Counted(o)
  BY DEF Busy, HalfDone, Counted, At, Own
<1>4. Excl' /\ OwnSlots' /\ Born' /\ Unborn' /\ NoneDead' /\ Exact'
  BY <1>3 DEF Safe, Excl, OwnSlots, Born, Unborn, NoneDead, Exact
<1>5. ASSUME NEW v \in Threads
      PROVE  Confined(v)' /\ Sources(v)' /\ Pending(v)' /\ Newborn(v)' /\ Condemned(v)'
  <2>1. \A f : Source(v, f) => Source(v, f)'
    BY <1>3 DEF Source
  <2>2. Confined(v)' /\ Sources(v)'
    BY <1>3, <2>1 DEF Safe, Confined, Sources, Todo
  <2>3. Pending(v)'
    BY <2>1 DEF Safe, Pending, Doing, Target, At
  <2>4. Newborn(v)'
    BY <1>3 DEF Safe, Newborn, Todo
  <2>5. Condemned(v)'
    BY <1>3 DEF Safe, Condemned, Doing, Target, At
  <2> QED
    BY <2>2, <2>3, <2>4, <2>5
<1>6. ASSUME NEW v \in Threads PROVE Loaded(v)'
  <2>1. (\A do : Doing(v, do)' = Doing(v, do)) /\ Target(v)' = Target(v)
    BY DEF Doing, Target, At
  <2>2. CASE v = t
    BY <2>1, <2>2 DEF Loaded, Typed, TypeOK
  <2>3. CASE v # t
    BY <2>1, <2>3 DEF Safe, Loaded, Typed, TypeOK
  <2> QED
    BY <2>2, <2>3
<1>7. Tidy'
  <2>1. Kept'
    BY <1>3 DEF Safe, Tidy, Kept, Doing, Target, At, Todo
  <2>2. Cleared' /\ Written'
    BY <1>3 DEF Safe, Tidy, Cleared, Written, Step, Todo
  <2> QED
    BY <2>1, <2>2 DEF Tidy
<1> QED
  BY <1>2, <1>4, <1>5, <1>6, <1>7 DEF Safe

LEMMA LoadSafe ==
  ASSUME Typed, Safe, NEW t \in Threads, Load(t)
  PROVE  Typed' /\ Safe'
<1>1. /\ ~ lost /\ Target(t) # None /\ work[t] # <<>>
      /\ Doing(t, "ref") \/ (Doing(t, "unref") /\ Target(t) \in Plain)
      /\ seen' = [seen EXCEPT ![t] = count[Target(t)]]
      /\ UNCHANGED <<ref, count, unborn, alive, owner, work, lost>>
  BY DEF Load, Doing
<1>2. Target(t) \in Objects
  <2>1. At(t) \in Places
    BY <1>1, Micro
  <2> QED
    BY <1>1, <2>1 DEF Target, Typed, TypeOK
<1>3. count[Target(t)] \in 0 .. Wrap - 1
  BY <1>2 DEF Typed, TypeOK
<1>4. Doing(t, "ref") => count[Target(t)] # 0
  <2> SUFFICES ASSUME Doing(t, "ref") PROVE count[Target(t)] # 0
    OBVIOUS
  <2>1. PICK f \in Places : Source(t, f) /\ ref[f] = Target(t)
    BY <1>1 DEF Safe, Pending
  <2>2. f \in Places \ HalfDone
    BY <2>1, SourceFree
  <2>3. Target(t) \in alive
    BY <1>1, <2>1, <2>2 DEF Safe, NoneDead
  <2> QED
    BY <2>1, <2>2, <2>3, CountedOnce
<1> QED
  BY <1>1, <1>3, <1>4, QuietSafe

\* When the first step is done, nothing new is worked on.
LEMMA PopStep ==
  ASSUME Typed, Safe, NEW t \in Threads, work[t] # <<>>,
         work' = [work EXCEPT ![t] = Tail(work[t])], UNCHANGED <<unborn, owner>>
  PROVE  LET v == Tail(work[t])
         IN  /\ v \in Seq(Steps) /\ Shape(v) /\ work'[t] = v
             /\ Busy(t)' = Ats(v) /\ \A u \in Threads \ {t} : Busy(u)' = Busy(u)
             /\ HalfDone' = (HalfDone \ Busy(t)) \cup Ats(v)
             /\ Excl' /\ OwnSlots' /\ Born'
             /\ ~ Doing(t, "delete")' /\ ~ Doing(t, "unref")'
<1> DEFINE v == Tail(work[t])
<1>1. /\ v \in Seq(Steps) /\ Shape(v) /\ \A i \in Todo(v) : i.do \notin Releases
      /\ v # <<>> => Head(v) \in Todo(v)
  BY Work, Pop
<1>2. /\ Half(v) = Ats(v) /\ Ats(v) \subseteq Busy(t)
      /\ \A u \in Threads \ {t} : Busy(t) \cap Busy(u) = {}
  BY Micro
<1> HIDE DEF v
<1>3. work' = [work EXCEPT ![t] = v]
  BY DEF v
<1>4. work'[t] = v /\ Busy(t)' = Ats(v) /\ \A u \in Threads \ {t} : Busy(u)' = Busy(u)
  BY <1>1, <1>3, WorkStep
<1>5. Excl' /\ HalfDone' = (HalfDone \ Busy(t)) \cup Ats(v)
  <2>1. \A u \in Threads \ {t} : Ats(v) \cap Busy(u) = {}
    BY <1>2
  <2> QED
    BY <1>1, <1>2, <1>3, <2>1, HalfStep DEF Safe
<1>6. \A u \in Threads : Busy(u)' \subseteq Busy(u) /\ Own(u)' = Own(u)
  BY <1>2, <1>4 DEF Own
<1>7. OwnSlots' /\ Born'
  BY <1>6 DEF Safe, OwnSlots, Born
<1>8. ~ Doing(t, "delete")' /\ ~ Doing(t, "unref")'
  BY <1>1, <1>4 DEF Doing, Releases
<1> QED
  BY <1>1, <1>4, <1>5, <1>7, <1>8 DEF v

\* A place is done with, or lacks what is copied next, and points to nothing.
LEMMA DropSafe ==
  ASSUME Typed, Safe, ~ lost, NEW t \in Threads, work[t] # <<>>,
         Head(work[t]).do \in {"set", "ref"},
         work' = [work EXCEPT ![t] = Tail(work[t])],
         ref' = [ref EXCEPT ![At(t)] = None],
         seen' = [seen EXCEPT ![t] = None],
         UNCHANGED <<count, unborn, alive, owner, lost>>
  PROVE  Typed' /\ Safe'
<1> DEFINE a == Head(work[t])
           v == Tail(work[t])
           p == At(t)
<1>1. /\ p \in Places /\ p \in Busy(t) /\ Todo(work[t]) = {a} \cup Todo(v)
      /\ Busy(t) = {p} \cup Ats(v) /\ Busy(t) \subseteq HalfDone
      /\ \A u \in Threads \ {t} : Busy(t) \cap Busy(u) = {}
      /\ \A i \in Todo(v) : i.do = "set" /\ i.arg # None => Source(t, i.arg)
  BY Micro
<1>2. /\ v \in Seq(Steps) /\ Shape(v) /\ work'[t] = v
      /\ Busy(t)' = Ats(v) /\ \A u \in Threads \ {t} : Busy(u)' = Busy(u)
      /\ HalfDone' = (HalfDone \ Busy(t)) \cup Ats(v)
      /\ Excl' /\ OwnSlots' /\ Born' /\ ~ Doing(t, "delete")' /\ ~ Doing(t, "unref")'
  BY PopStep
<1>3. v # <<>> /\ Head(v).do = "ref" => p = Head(v).at
  BY Work, Pop DEF At
<1>4. ref \in [Places -> Objects \cup {None}] /\ None \notin Objects
  BY RefCountAssumption DEF Typed, TypeOK, Places
<1> HIDE DEF a, v, p
<1>5. ref' = [ref EXCEPT ![p] = None] /\ work' = [work EXCEPT ![t] = v] /\ p = At(t)
  BY DEF p, v
<1>6. ref'[p] = None /\ \A q \in Places \ {p} : ref'[q] = ref[q]
  BY <1>1, <1>4, <1>5
<1>7. \A q \in Places \ HalfDone' : \/ q \notin HalfDone /\ ref'[q] = ref[q]
                                    \/ ref'[q] = None
  BY <1>1, <1>2, <1>6
<1>8. Typed'
  <2>1. ref' \in [Places -> Objects \cup {None}]
    BY <1>4, <1>5
  <2>2. seen' \in [Threads -> (0 .. Wrap - 1) \cup {None}]
    BY DEF Typed, TypeOK
  <2>3. /\ count' \in [Objects -> 0 .. Wrap - 1] /\ unborn' \in SUBSET Objects
        /\ alive' \in SUBSET (Objects \ unborn') /\ owner' \in [Slots -> Threads]
        /\ lost' \in BOOLEAN
    BY DEF Typed, TypeOK
  <2> QED
    BY <1>2, <1>5, <2>1, <2>2, <2>3, TypedStep
<1>9. Unborn' /\ NoneDead'
  <2>1. \A q \in Places : ref'[q] = ref[q] \/ ref'[q] = None
    BY <1>6
  <2>2. Unborn'
    BY <2>1, <1>4 DEF Safe, Unborn, Places, Typed, TypeOK
  <2>3. NoneDead'
    BY <1>7 DEF Safe, NoneDead
  <2> QED
    BY <2>2, <2>3
<1>10. ASSUME NEW o \in Objects PROVE Counted(o)' = Counted(o)
  <2>1. ASSUME NEW q \in Places PROVE q \in Counted(o)' <=> q \in Counted(o)
    <3>1. CASE q = p
      BY <1>1, <1>4, <1>6, <3>1 DEF Counted
    <3>2. CASE q # p
      BY <1>1, <1>2, <1>6, <3>2 DEF Counted
    <3> QED
      BY <3>1, <3>2
  <2> QED
    BY <2>1 DEF Counted
<1>11. Exact'
  BY <1>10 DEF Safe, Exact, Typed, TypeOK
<1>12. ~ lost' /\ \A q \in Places \ Busy(t) : ref'[q] = ref[q]
  BY <1>1, <1>6
<1>13. seen'[t] = None /\ \A u \in Threads \ {t} : seen'[u] = seen[u]
  BY DEF Typed, TypeOK
<1>14. ASSUME NEW u \in Threads \ {t}
       PROVE  /\ Confined(u)' /\ Sources(u)' /\ Pending(u)' /\ Newborn(u)'
              /\ Condemned(u)' /\ Loaded(u)'
  <2>1. /\ Sources(u)' /\ Pending(u)' /\ Loaded(u)' /\ Busy(u)' = Busy(u)
    BY <1>2, <1>5, <1>12, <1>13, Others
  <2>2. Confined(u)'
    BY <1>4, <1>7, <2>1, OtherConfined
  <2>3. Newborn(u)'
    <3>1. \A q \in Places : ref'[q] = None \/ \E r \in Places : ref'[q] = ref[r]
      BY <1>6
    <3>2. Ats(v) \ Busy(t) = {} /\ alive \ alive' = {}
      BY <1>1
    <3>3. \A i \in Todo(v) : i \in Todo(work[t])
      BY <1>1
    <3> QED
      BY <1>2, <1>5, <3>1, <3>2, <3>3, OtherNewborn
  <2>4. Condemned(u)'
    <3>1. ASSUME NEW x \in Threads \ {t}
          PROVE  /\ Doing(x, "delete")' = Doing(x, "delete")
                 /\ Doing(x, "delete") => Target(x)' = Target(x)
      BY <1>2, <1>5, <1>12, <1>13, Others DEF Doing
    <3>2. Doing(u, "delete") => Target(u) \in alive /\ Target(u) # None
      BY <1>4 DEF Safe, Condemned, Typed, TypeOK
    <3>3. Doing(u, "delete") => Target(u) \notin Ats(v) \ Busy(t)
      BY <1>1
    <3> QED
      BY <1>2, <1>5, <1>7, <3>1, <3>2, <3>3, OtherCondemned
  <2> QED
    BY <2>1, <2>2, <2>3, <2>4
<1>15. Confined(t)'
  <2>1. Own(t)' = Own(t) /\ Busy(t)' \subseteq Busy(t)
    BY <1>1, <1>2 DEF Own
  <2> QED
    BY <1>4, <1>7, <2>1 DEF Safe, Confined
<1>16. Sources(t)'
  <2>1. ASSUME NEW i \in Todo(v), i.do = "set", i.arg # None PROVE Source(t, i.arg)'
    <3>1. Source(t, i.arg)
      BY <1>1, <2>1
    <3>2. i.arg \notin Busy(t)' /\ Busy(t)' \cap Slots \subseteq Busy(t)
      BY <1>1, <1>2, <3>1 DEF Source
    <3> QED
      BY <1>12, <3>1, <3>2, SourceStep
  <2>2. Todo(work'[t]) = Todo(v)
    BY <1>2
  <2> QED
    BY <2>1, <2>2 DEF Sources, Todo
<1>17. Pending(t)'
  <2>1. Doing(t, "ref")' => Target(t)' = None
    BY <1>2, <1>3, <1>6 DEF Doing, Target, At
  <2> QED
    BY <2>1 DEF Pending
<1>18. Newborn(t)'
  <2>1. \A i \in Todo(v) : i.do = "init" =>
          /\ i.arg \in alive /\ i.arg # None
          /\ \A q \in Places : ref[q] # i.arg
          /\ \A u \in Threads \ {t} :
               /\ i.arg \notin Busy(u)
               /\ \A j \in Todo(work[u]) : j.do = "init" => j.arg # i.arg
    BY <1>1, <1>4 DEF Safe, Newborn, Typed, TypeOK
  <2>2. \A u \in Threads \ {t} : work'[u] = work[u]
    BY <1>2, <1>5, WorkStep
  <2>3. \A i \in Todo(v) : i.do = "init" =>
          /\ i.arg \in alive'
          /\ \A q \in Places : ref'[q] # i.arg
          /\ \A u \in Threads \ {t} :
               /\ i.arg \notin Busy(u)'
               /\ \A j \in Todo(work'[u]) : j.do = "init" => j.arg # i.arg
    BY <1>2, <1>6, <2>1, <2>2
  <2>4. Todo(work'[t]) = Todo(v)
    BY <1>2
  <2> QED
    BY <2>3, <2>4 DEF Newborn, Todo
<1>19. Condemned(t)' /\ Loaded(t)'
  BY <1>2, <1>13 DEF Condemned, Loaded
<1>20. Tidy'
  <2>1. ASSUME NEW x \in Threads \ {t}
        PROVE  /\ Doing(x, "delete")' = Doing(x, "delete")
               /\ Doing(x, "delete") => Target(x)' = Target(x)
    BY <1>2, <1>5, <1>12, <1>13, Others DEF Doing
  <2>2. ~ Doing(t, "delete") /\ a.do # "init"
    BY DEF Doing, a
  <2>3. \A o \in alive' : Counted(o)' = Counted(o)
    BY <1>10 DEF Typed, TypeOK
  <2>4. \A o \in Objects : ref'[o] = ref[o] \/ ref'[o] = None
    BY <1>6 DEF Places
  <2>5. \A o \in Objects : Step("set", o, None) = a => ref'[o] = None
    BY <1>5, <1>6 DEF Step, At, a
  <2>6. \A o \in Objects : Step("set", o, None) \in Todo(work[t]) =>
          Step("set", o, None) \in Todo(v) \/ ref'[o] = None
    BY <1>1, <2>5
  <2>7. /\ alive' \ alive = {} /\ alive \ alive' = {}
        /\ \A i \in Todo(work[t]) : i.do = "init" => i \in Todo(v)
        /\ \A i \in Todo(v) : i \in Todo(work[t])
    BY <1>1, <2>2
  <2> QED
    BY <1>2, <1>5, <2>1, <2>2, <2>3, <2>4, <2>6, <2>7, TidyStep
<1> QED
  BY <1>2, <1>8, <1>9, <1>11, <1>14, <1>15, <1>16, <1>17, <1>18, <1>19, <1>20 DEF Safe

LEMMA RefNothingSafe ==
  ASSUME Typed, Safe, NEW t \in Threads, RefNothing(t)
  PROVE  Typed' /\ Safe'
<1>1. /\ ~ lost /\ work[t] # <<>> /\ Head(work[t]).do = "ref" /\ Doing(t, "ref")
      /\ Target(t) = None \/ seen[t] = 0
      /\ work' = [work EXCEPT ![t] = <<>> \o Tail(work[t])]
      /\ seen' = [seen EXCEPT ![t] = None]
      /\ UNCHANGED <<ref, count, unborn, alive, owner, lost>>
  BY DEF RefNothing, Doing, Then
<1>2. work' = [work EXCEPT ![t] = Tail(work[t])]
  <2>1. Tail(work[t]) \in Seq(Steps)
    BY <1>1, Work, Pop
  <2> QED
    BY <1>1, <2>1, ConcatEmptySeq
<1>3. At(t) \in Places
  BY <1>1, Micro
<1>4. seen[t] # 0
  <2>1. None # 0
    BY RefCountAssumption
  <2>2. ~ Doing(t, "unref")
    BY <1>1 DEF Doing
  <2> QED
    BY <2>1, <2>2 DEF Safe, Loaded
<1>5. ref' = [ref EXCEPT ![At(t)] = None]
  BY <1>1, <1>3, <1>4 DEF Target, Typed, TypeOK
<1> QED
  BY <1>1, <1>2, <1>5, DropSafe

\* A copy is made of what a source points to.
LEMMA CopySafe ==
  ASSUME Typed, Safe, ~ lost, NEW t \in Threads, work[t] # <<>>,
         Head(work[t]).do = "set", Head(work[t]).arg # None, ref[Head(work[t]).arg] # None,
         work' = [work EXCEPT ![t] = Tail(work[t])],
         ref' = [ref EXCEPT ![At(t)] = ref[Head(work[t]).arg]],
         UNCHANGED <<count, unborn, alive, owner, seen, lost>>
  PROVE  Typed' /\ Safe'
<1> DEFINE a == Head(work[t])
           v == Tail(work[t])
           p == At(t)
           f == Head(work[t]).arg
<1>1. /\ p \in Places /\ p \in Busy(t) /\ Todo(work[t]) = {a} \cup Todo(v) /\ a \in Todo(work[t])
      /\ Busy(t) = {p} \cup Ats(v) /\ Busy(t) \subseteq HalfDone
      /\ \A u \in Threads \ {t} : Busy(t) \cap Busy(u) = {}
      /\ \A i \in Todo(v) : i.do # "set"
  BY Micro
<1>2. /\ v \in Seq(Steps) /\ Shape(v) /\ work'[t] = v
      /\ Busy(t)' = Ats(v) /\ \A u \in Threads \ {t} : Busy(u)' = Busy(u)
      /\ HalfDone' = (HalfDone \ Busy(t)) \cup Ats(v)
      /\ Excl' /\ OwnSlots' /\ Born' /\ ~ Doing(t, "delete")' /\ ~ Doing(t, "unref")'
  BY PopStep
<1>3. v # <<>> /\ Head(v).do = "ref" /\ Head(v).at = p /\ p \in Ats(v)
  <2>1. v # <<>> /\ Head(v).do = "ref" /\ Head(v).at = p /\ Head(v) \in Todo(v)
    BY Work, Pop DEF At
  <2> QED
    BY <2>1 DEF Ats
<1>4. ref \in [Places -> Objects \cup {None}] /\ None \notin Objects
  BY RefCountAssumption DEF Typed, TypeOK, Places
<1>5. Source(t, f)
  BY <1>1 DEF Safe, Sources
<1> HIDE DEF a, v, p, f
<1>6. /\ ref' = [ref EXCEPT ![p] = ref[f]] /\ p = At(t) /\ ref[f] # None
      /\ work' = [work EXCEPT ![t] = v]
  BY DEF p, v, f
<1>7. ref'[p] = ref[f] /\ \A q \in Places \ {p} : ref'[q] = ref[q]
  BY <1>1, <1>4, <1>6
<1>8. Busy(t)' = Busy(t) /\ HalfDone' = HalfDone
  BY <1>1, <1>2, <1>3
<1>9. f \in Places \ HalfDone /\ ref[f] \in alive
  BY <1>5, <1>6, SourceFree DEF Safe, NoneDead
<1>10. \A q \in Places \ HalfDone' : q \notin HalfDone /\ ref'[q] = ref[q]
  BY <1>1, <1>7, <1>8
<1>11. Typed'
  <2>1. ref' \in [Places -> Objects \cup {None}]
    BY <1>4, <1>6, <1>9
  <2>2. /\ count' \in [Objects -> 0 .. Wrap - 1] /\ unborn' \in SUBSET Objects
        /\ alive' \in SUBSET (Objects \ unborn') /\ owner' \in [Slots -> Threads]
        /\ lost' \in BOOLEAN /\ seen' \in [Threads -> (0 .. Wrap - 1) \cup {None}]
    BY DEF Typed, TypeOK
  <2> QED
    BY <1>2, <1>6, <2>1, <2>2, TypedStep
<1>12. Unborn' /\ NoneDead'
  <2>1. ref[f] \notin unborn /\ p \notin unborn
    BY <1>1, <1>9 DEF Safe, Born, Typed, TypeOK
  <2>2. Unborn'
    <3>1. ASSUME NEW o \in unborn
          PROVE  ref'[o] = None /\ count[o] = 0 /\ \A q \in Places : ref'[q] # o
      <4>1. o \in Places /\ o # p
        BY <2>1 DEF Typed, TypeOK, Places
      <4>2. ref[o] = None /\ count[o] = 0 /\ \A q \in Places : ref[q] # o
        BY DEF Safe, Unborn
      <4> QED
        BY <1>7, <1>9, <4>1, <4>2
    <3> QED
      BY <3>1 DEF Unborn
  <2>3. NoneDead'
    BY <1>10 DEF Safe, NoneDead
  <2> QED
    BY <2>2, <2>3
<1>13. \A o : Counted(o)' = Counted(o)
  BY <1>8, <1>10 DEF Counted
<1>14. Exact'
  BY <1>13 DEF Safe, Exact
<1>15. ~ lost' /\ \A q \in Places \ Busy(t) : ref'[q] = ref[q]
  BY <1>1, <1>7
<1>16. ASSUME NEW u \in Threads \ {t}
       PROVE  /\ Confined(u)' /\ Sources(u)' /\ Pending(u)' /\ Newborn(u)'
              /\ Condemned(u)' /\ Loaded(u)'
  <2>1. /\ Sources(u)' /\ Pending(u)' /\ Loaded(u)' /\ Busy(u)' = Busy(u)
    BY <1>2, <1>6, <1>15, Others
  <2>2. Confined(u)'
    BY <1>10, <2>1, OtherConfined
  <2>3. Newborn(u)'
    <3>1. \A q \in Places : \E r \in Places : ref'[q] = ref[r]
      BY <1>7, <1>9
    <3>2. Ats(v) \ Busy(t) = {} /\ alive \ alive' = {}
      BY <1>1
    <3>3. \A i \in Todo(v) : i \in Todo(work[t])
      BY <1>1
    <3> QED
      BY <1>2, <1>6, <3>1, <3>2, <3>3, OtherNewborn
  <2>4. Condemned(u)'
    <3>1. ASSUME NEW x \in Threads \ {t}
          PROVE  /\ Doing(x, "delete")' = Doing(x, "delete")
                 /\ Doing(x, "delete") => Target(x)' = Target(x)
      BY <1>2, <1>6, <1>15, Others DEF Doing
    <3>2. Doing(u, "delete") => Target(u) \in alive'
      BY DEF Safe, Condemned
    <3>3. Doing(u, "delete") => Target(u) \notin Ats(v) \ Busy(t)
      BY <1>1
    <3> QED
      BY <1>2, <1>6, <1>10, <3>1, <3>2, <3>3, OtherCondemned
  <2> QED
    BY <2>1, <2>2, <2>3, <2>4
<1>17. Confined(t)'
  <2>1. Own(t)' = Own(t)
    BY DEF Own
  <2> QED
    BY <1>8, <1>10, <2>1 DEF Safe, Confined
<1>18. Sources(t)'
  <2>1. Todo(work'[t]) = Todo(v)
    BY <1>2
  <2> QED
    BY <1>1, <2>1 DEF Sources, Todo
<1>19. Pending(t)'
  <2>1. PICK g : g = f
    OBVIOUS
  <2>2. g \notin Busy(t)' /\ Busy(t)' \cap Slots \subseteq Busy(t) /\ Source(t, g)
    BY <1>5, <1>8, <2>1 DEF Source
  <2>3. Source(t, g)' /\ ref'[g] = ref[g]
    BY <1>15, <2>2, SourceStep
  <2>4. Target(t)' = ref'[p]
    BY <1>2, <1>3 DEF Target, At
  <2>5. g \in Places /\ ref'[g] = Target(t)'
    BY <1>7, <1>9, <2>1, <2>3, <2>4
  <2> QED
    BY <2>3, <2>5 DEF Pending
<1>20. Newborn(t)'
  <2>1. \A i \in Todo(v) : i.do = "init" =>
          /\ i.arg \in alive
          /\ \A q \in Places : ref[q] # i.arg
          /\ \A u \in Threads \ {t} :
               /\ i.arg \notin Busy(u)
               /\ \A j \in Todo(work[u]) : j.do = "init" => j.arg # i.arg
    BY <1>1 DEF Safe, Newborn
  <2>2. \A u \in Threads \ {t} : work'[u] = work[u]
    BY <1>2, <1>6, WorkStep
  <2>3. \A i \in Todo(v) : i.do = "init" =>
          /\ i.arg \in alive'
          /\ \A q \in Places : ref'[q] # i.arg
          /\ \A u \in Threads \ {t} :
               /\ i.arg \notin Busy(u)'
               /\ \A j \in Todo(work'[u]) : j.do = "init" => j.arg # i.arg
    BY <1>2, <1>7, <1>9, <2>1, <2>2
  <2>4. Todo(work'[t]) = Todo(v)
    BY <1>2
  <2> QED
    BY <2>3, <2>4 DEF Newborn, Todo
<1>21. Condemned(t)' /\ Loaded(t)'
  <2>1. ~ Doing(t, "ref") /\ ~ Doing(t, "unref")
    BY DEF Doing
  <2>2. seen'[t] = None
    BY <2>1 DEF Safe, Loaded
  <2> QED
    BY <1>2, <2>2 DEF Condemned, Loaded
<1>22. Tidy'
  <2>1. ASSUME NEW x \in Threads \ {t}
        PROVE  /\ Doing(x, "delete")' = Doing(x, "delete")
               /\ Doing(x, "delete") => Target(x)' = Target(x)
    BY <1>2, <1>6, <1>15, Others DEF Doing
  <2>2. ~ Doing(t, "delete") /\ a.do # "init" /\ \A o : Step("set", o, None) # a
    BY DEF Doing, a, Step
  <2>3. \A o : Counted(o)' = Counted(o)
    BY <1>13
  <2>4. p \in Slots \cup alive
    BY <1>1, <1>6 DEF Safe, Tidy, Written, At, a
  <2>5. \A o \in Objects \ alive : ref'[o] = ref[o]
    BY <1>7, <2>4, RefCountAssumption DEF Places
  <2>6. /\ alive' \ alive = {} /\ alive \ alive' = {}
        /\ \A i \in Todo(work[t]) : i.do = "init" => i \in Todo(v)
        /\ \A o \in Objects : Step("set", o, None) \in Todo(work[t]) =>
             Step("set", o, None) \in Todo(v)
        /\ \A i \in Todo(v) : i \in Todo(work[t])
    BY <1>1, <2>2
  <2> QED
    BY <1>2, <1>6, <2>1, <2>2, <2>3, <2>5, <2>6, TidyStep
<1> QED
  BY <1>2, <1>11, <1>12, <1>14, <1>16, <1>17, <1>18, <1>19, <1>20, <1>21, <1>22 DEF Safe

LEMMA SetSafe ==
  ASSUME Typed, Safe, NEW t \in Threads, Set(t)
  PROVE  Typed' /\ Safe'
<1> DEFINE from == Head(work[t]).arg
           to == IF from = None THEN None ELSE ref[from]
<1>1. /\ ~ lost /\ work[t] # <<>> /\ Head(work[t]).do = "set"
      /\ ref' = [ref EXCEPT ![At(t)] = to]
      /\ work' = [work EXCEPT ![t] = <<>> \o Tail(work[t])]
      /\ UNCHANGED <<count, unborn, alive, owner, seen, lost>>
  BY DEF Set, Doing, Then
<1>2. work' = [work EXCEPT ![t] = Tail(work[t])]
  <2>1. Tail(work[t]) \in Seq(Steps)
    BY <1>1, Work, Pop
  <2> QED
    BY <1>1, <2>1, ConcatEmptySeq
<1>3. CASE to = None
  <2>1. seen[t] = None
    BY <1>1 DEF Safe, Loaded, Doing
  <2>2. seen' = [seen EXCEPT ![t] = None]
    BY <1>1, <2>1 DEF Typed, TypeOK
  <2> QED
    BY <1>1, <1>2, <1>3, <2>2, DropSafe
<1>4. CASE to # None
  <2>1. from # None /\ ref[from] # None /\ ref' = [ref EXCEPT ![At(t)] = ref[from]]
    BY <1>1, <1>4
  <2> QED
    BY <1>1, <1>2, <2>1, CopySafe
<1> QED
  BY <1>3, <1>4

\* A copy is counted while the place it was made of still holds the object.
LEMMA CountSafe ==
  ASSUME Typed, Safe, ~ lost, NEW t \in Threads, work[t] # <<>>, Head(work[t]).do = "ref",
         NEW x \in Objects, x = Target(t),
         count' = [count EXCEPT ![x] = (count[x] + 1) % Wrap],
         work' = [work EXCEPT ![t] = Tail(work[t])],
         seen' = [seen EXCEPT ![t] = None],
         UNCHANGED <<ref, unborn, alive, owner, lost>>
  PROVE  Typed' /\ Safe'
<1> DEFINE v == Tail(work[t])
<1>1. PICK p \in Places :
      /\ p = At(t) /\ p \in Busy(t) /\ Todo(work[t]) = {Head(work[t])} \cup Todo(v)
      /\ Busy(t) = {p} \cup Ats(v) /\ Busy(t) \subseteq HalfDone
      /\ \A u \in Threads \ {t} : Busy(t) \cap Busy(u) = {}
  BY Micro
<1>2. /\ v \in Seq(Steps) /\ Shape(v) /\ work'[t] = v
      /\ Busy(t)' = Ats(v) /\ \A u \in Threads \ {t} : Busy(u)' = Busy(u)
      /\ HalfDone' = (HalfDone \ Busy(t)) \cup Ats(v)
      /\ Excl' /\ OwnSlots' /\ Born' /\ ~ Doing(t, "delete")' /\ ~ Doing(t, "unref")'
  BY PopStep
<1>3. /\ \A i \in Todo(v) : i.do = "init" /\ i.at \in Slots /\ p \in Objects
      /\ v # <<>> => Head(v) \in Todo(v)
  <2>1. v = <<>> \/ /\ Todo(v) = {Head(v)} /\ Head(v).do = "init"
                    /\ p \in Objects /\ Head(v).at \in Slots
    BY <1>1, Work, Pop DEF At
  <2> QED
    BY <2>1, Empty
<1> HIDE DEF v
<1>4. work' = [work EXCEPT ![t] = v] /\ ~ Doing(t, "ref")'
  BY <1>2, <1>3 DEF v, Doing
<1>5. p \notin Ats(v) /\ Ats(v) \subseteq Slots
  BY <1>3, RefCountAssumption DEF Ats
<1>6. HalfDone' = HalfDone \ {p}
  BY <1>1, <1>2, <1>5
<1>7. x # None /\ ref[p] = x
  BY <1>1, RefCountAssumption DEF Target, Places
<1>8. PICK f \in Places : Source(t, f) /\ ref[f] = x
  <2>1. Doing(t, "ref")
    BY DEF Doing
  <2> QED
    BY <1>7, <2>1 DEF Safe, Pending
<1>9. f \in Places \ HalfDone /\ x \in alive /\ f \in Counted(x)
  BY <1>7, <1>8, SourceFree DEF Safe, NoneDead, Counted
<1>10. p \notin Counted(x) /\ Counted(x)' = Counted(x) \cup {p}
  BY <1>1, <1>6, <1>7 DEF Counted
<1>11. \A o : o # x => Counted(o)' = Counted(o)
  <2> SUFFICES ASSUME NEW o, o # x PROVE Counted(o)' = Counted(o)
    OBVIOUS
  <2>1. ref[p] # o
    BY <1>7
  <2> QED
    BY <1>1, <1>6, <2>1 DEF Counted
<1>12. /\ count[x] \in Nat /\ count[x] = Cardinality(Counted(x)) /\ IsFiniteSet(Counted(x))
       /\ count[x] + 1 < Wrap /\ Wrap \in Nat
  BY <1>9, <1>10, CountedOnce, RefCountAssumption
<1>13. (count[x] + 1) % Wrap = count[x] + 1
  BY <1>12, ModSmall
<1>14. count \in [Objects -> 0 .. Wrap - 1] /\ ref \in [Places -> Objects \cup {None}]
  BY DEF Typed, TypeOK
<1>15. count'[x] = count[x] + 1 /\ \A o \in Objects \ {x} : count'[o] = count[o]
  BY <1>13, <1>14
<1>16. Typed'
  <2>1. count' \in [Objects -> 0 .. Wrap - 1]
    BY <1>12, <1>13, <1>14
  <2>2. /\ ref' \in [Places -> Objects \cup {None}] /\ unborn' \in SUBSET Objects
        /\ alive' \in SUBSET (Objects \ unborn') /\ owner' \in [Slots -> Threads]
        /\ lost' \in BOOLEAN /\ seen' \in [Threads -> (0 .. Wrap - 1) \cup {None}]
    BY DEF Typed, TypeOK
  <2> QED
    BY <1>2, <1>4, <2>1, <2>2, TypedStep
<1>17. Unborn' /\ NoneDead'
  <2>1. unborn \subseteq Objects /\ x \notin unborn
    BY <1>9 DEF Typed, TypeOK
  <2>2. Unborn'
    BY <1>15, <2>1 DEF Safe, Unborn
  <2>3. NoneDead'
    BY <1>6, <1>7, <1>9 DEF Safe, NoneDead
  <2> QED
    BY <2>2, <2>3
<1>18. Exact'
  <2>1. ASSUME NEW o \in alive PROVE count'[o] = Cardinality(Counted(o)')
    <3>1. CASE o = x
      <4>1. Cardinality(Counted(x) \cup {p}) = Cardinality(Counted(x)) + 1
        BY <1>10, <1>12, FS_AddElement
      <4> QED
        BY <1>10, <1>12, <1>15, <3>1, <4>1
    <3>2. CASE o # x
      <4>1. o \in Objects
        BY DEF Typed, TypeOK
      <4> QED
        BY <1>11, <1>15, <3>2, <4>1 DEF Safe, Exact
    <3> QED
      BY <3>1, <3>2
  <2> QED
    BY <2>1 DEF Exact
<1>19. ~ lost' /\ \A q \in Places \ Busy(t) : ref'[q] = ref[q]
  OBVIOUS
<1>20. seen'[t] = None /\ \A u \in Threads \ {t} : seen'[u] = seen[u]
  BY DEF Typed, TypeOK
<1>21. \A q \in Places \ HalfDone' : \/ q \notin HalfDone /\ ref'[q] = ref[q]
                                     \/ ref'[q] = x
  BY <1>6, <1>7
<1>22. ASSUME NEW u \in Threads \ {t}
       PROVE  /\ Confined(u)' /\ Sources(u)' /\ Pending(u)' /\ Newborn(u)'
              /\ Condemned(u)' /\ Loaded(u)'
  <2>1. /\ Sources(u)' /\ Pending(u)' /\ Loaded(u)' /\ Busy(u)' = Busy(u)
    BY <1>2, <1>4, <1>19, <1>20, Others
  <2>2. Confined(u)'
    <3>1. x \notin Busy(u)
      <4> SUFFICES ASSUME x \in Busy(u) PROVE FALSE
        OBVIOUS
      <4>1. f \in Own(u)
        BY <1>8, <1>9 DEF Safe, Confined
      <4>2. f \notin Own(t) /\ f \notin Objects
        BY <4>1, RefCountAssumption DEF Own
      <4>3. PICK s \in Own(t) : ref[s] = f
        BY <1>8, <4>2 DEF Source
      <4>4. ref[s] \in Objects \cup {None}
        BY <1>14, <4>3 DEF Own, Places
      <4> QED
        BY <4>2, <4>3, <4>4, RefCountAssumption
    <3> QED
      BY <1>21, <2>1, <3>1, OtherConfined
  <2>3. Newborn(u)'
    <3>1. \A q \in Places : \E r \in Places : ref'[q] = ref[r]
      OBVIOUS
    <3>2. Ats(v) \ Busy(t) = {} /\ alive \ alive' = {}
      BY <1>1
    <3>3. \A i \in Todo(v) : i \in Todo(work[t])
      BY <1>1
    <3> QED
      BY <1>2, <1>4, <3>1, <3>2, <3>3, OtherNewborn
  <2>4. Condemned(u)'
    <3>1. ASSUME NEW y \in Threads \ {t}
          PROVE  /\ Doing(y, "delete")' = Doing(y, "delete")
                 /\ Doing(y, "delete") => Target(y)' = Target(y)
      BY <1>2, <1>4, <1>19, <1>20, Others DEF Doing
    <3>2. Doing(u, "delete") => Target(u) \in alive' /\ Target(u) # x
      BY <1>9 DEF Safe, Condemned
    <3>3. Doing(u, "delete") => Target(u) \notin Ats(v) \ Busy(t)
      BY <1>1
    <3> QED
      BY <1>2, <1>4, <1>21, <3>1, <3>2, <3>3, OtherCondemned
  <2> QED
    BY <2>1, <2>2, <2>3, <2>4
<1>23. Confined(t)'
  <2>1. Busy(t)' \cap Objects = {}
    BY <1>2, <1>5, RefCountAssumption
  <2> QED
    BY <2>1 DEF Confined
<1>24. Sources(t)'
  <2>1. \A i \in Todo(work'[t]) : i.do # "set"
    BY <1>2, <1>3
  <2> QED
    BY <2>1 DEF Sources, Todo
<1>25. Newborn(t)'
  <2>1. \A i \in Todo(v) : i.do = "init" =>
          /\ i.arg \in alive
          /\ \A q \in Places : ref[q] # i.arg
          /\ \A u \in Threads \ {t} :
               /\ i.arg \notin Busy(u)
               /\ \A j \in Todo(work[u]) : j.do = "init" => j.arg # i.arg
    BY <1>1 DEF Safe, Newborn
  <2>2. \A u \in Threads \ {t} : work'[u] = work[u]
    BY <1>2, <1>4, WorkStep
  <2>3. \A i \in Todo(v) : i.do = "init" =>
          /\ i.arg \in alive'
          /\ \A q \in Places : ref'[q] # i.arg
          /\ \A u \in Threads \ {t} :
               /\ i.arg \notin Busy(u)'
               /\ \A j \in Todo(work'[u]) : j.do = "init" => j.arg # i.arg
    BY <1>2, <2>1, <2>2
  <2>4. Todo(work'[t]) = Todo(v)
    BY <1>2
  <2> QED
    BY <2>3, <2>4 DEF Newborn, Todo
<1>26. Pending(t)' /\ Condemned(t)' /\ Loaded(t)'
  BY <1>2, <1>4, <1>20 DEF Pending, Condemned, Loaded
<1>27. Tidy'
  <2>1. ASSUME NEW y \in Threads \ {t}
        PROVE  /\ Doing(y, "delete")' = Doing(y, "delete")
               /\ Doing(y, "delete") => Target(y)' = Target(y)
    BY <1>2, <1>4, <1>19, <1>20, Others DEF Doing
  <2>2. /\ ~ Doing(t, "delete") /\ Head(work[t]).do # "init"
        /\ \A o : Step("set", o, None) # Head(work[t])
    BY DEF Doing, Step
  <2>3. \A o : Counted(o) \subseteq Counted(o)'
    BY <1>10, <1>11
  <2>4. /\ alive' \ alive = {} /\ alive \ alive' = {} /\ ref' = ref
        /\ \A i \in Todo(work[t]) : i.do = "init" => i \in Todo(v)
        /\ \A o \in Objects : Step("set", o, None) \in Todo(work[t]) =>
             Step("set", o, None) \in Todo(v)
        /\ \A i \in Todo(v) : i \in Todo(work[t])
    BY <1>1, <2>2
  <2>5. \A o \in alive' : Counted(o) # {} => Counted(o)' # {}
    BY <2>3
  <2> QED
    BY <1>2, <1>4, <2>1, <2>2, <2>4, <2>5, TidyStep
<1> QED
  BY <1>2, <1>16, <1>17, <1>18, <1>22, <1>23, <1>24, <1>25, <1>26, <1>27 DEF Safe

LEMMA RefPlainSafe ==
  ASSUME Typed, Safe, NEW t \in Threads, RefPlain(t)
  PROVE  Typed' /\ (~ lost' => Safe')
<1>1. PICK x \in Objects :
      /\ x = Target(t) /\ ~ lost /\ work[t] # <<>> /\ Head(work[t]).do = "ref"
      /\ seen[t] # None
      /\ count' = [count EXCEPT ![x] = (seen[t] + 1) % Wrap]
      /\ lost' = (count[x] # seen[t])
      /\ seen' = [seen EXCEPT ![t] = None]
      /\ work' = [work EXCEPT ![t] = <<>> \o Tail(work[t])]
      /\ UNCHANGED <<ref, unborn, alive, owner>>
  BY RefCountAssumption DEF RefPlain, Doing, Then, Store
<1>2. /\ work' = [work EXCEPT ![t] = Tail(work[t])]
      /\ Tail(work[t]) \in Seq(Steps) /\ Shape(Tail(work[t]))
  <2>1. Tail(work[t]) \in Seq(Steps) /\ Shape(Tail(work[t]))
    BY <1>1, Work, Pop
  <2> QED
    BY <1>1, <2>1, ConcatEmptySeq
<1>3. CASE count[x] = seen[t]
  <2>1. lost' = lost
    BY <1>1, <1>3 DEF Typed, TypeOK
  <2> QED
    BY <1>1, <1>2, <1>3, <2>1, CountSafe
<1>4. CASE count[x] # seen[t]
  <2>1. (seen[t] + 1) % Wrap \in 0 .. Wrap - 1
    BY <1>1, RefCountAssumption, FS_CardinalityType, ModRange DEF Typed, TypeOK
  <2>2. count' \in [Objects -> 0 .. Wrap - 1]
    BY <1>1, <2>1 DEF Typed, TypeOK
  <2>3. /\ ref' \in [Places -> Objects \cup {None}] /\ unborn' \in SUBSET Objects
        /\ alive' \in SUBSET (Objects \ unborn') /\ owner' \in [Slots -> Threads]
        /\ lost' \in BOOLEAN /\ seen' \in [Threads -> (0 .. Wrap - 1) \cup {None}]
    BY <1>1 DEF Typed, TypeOK
  <2>4. Typed'
    BY <1>2, <2>2, <2>3, TypedStep
  <2> QED
    BY <1>1, <1>4, <2>4
<1> QED
  BY <1>3, <1>4

LEMMA RefAtomicSafe ==
  ASSUME Typed, Safe, NEW t \in Threads, RefAtomic(t)
  PROVE  Typed' /\ Safe'
<1>1. PICK x \in Objects :
      /\ x = Target(t) /\ ~ lost /\ work[t] # <<>> /\ Head(work[t]).do = "ref"
      /\ seen' = [seen EXCEPT ![t] = None]
      /\ \/ /\ count[x] = seen[t]
            /\ count' = [count EXCEPT ![x] = (seen[t] + 1) % Wrap]
            /\ work' = [work EXCEPT ![t] = <<>> \o Tail(work[t])]
         \/ UNCHANGED <<count, work>>
      /\ UNCHANGED <<ref, unborn, alive, owner, lost>>
  BY DEF RefAtomic, Doing, Then
<1>2. CASE UNCHANGED <<count, work>>
  BY <1>1, <1>2, QuietSafe
<1>3. CASE /\ count[x] = seen[t]
           /\ count' = [count EXCEPT ![x] = (seen[t] + 1) % Wrap]
           /\ work' = [work EXCEPT ![t] = <<>> \o Tail(work[t])]
  <2>1. Tail(work[t]) \in Seq(Steps)
    BY <1>1, Work, Pop
  <2>2. work' = [work EXCEPT ![t] = Tail(work[t])]
    BY <1>3, <2>1, ConcatEmptySeq
  <2> QED
    BY <1>1, <1>3, <2>2, CountSafe
<1> QED
  BY <1>1, <1>2, <1>3

\* What is left to do when a count went down to c.
LEMMA UnrefWork ==
  ASSUME Typed, NEW t \in Threads, work[t] # <<>>, Head(work[t]).do = "unref",
         NEW c, AfterUnref(t, c)
  PROVE  \E w \in Seq(Steps) :
           /\ work' = [work EXCEPT ![t] = w] /\ Shape(w) /\ w # <<>>
           /\ Ats(w) = Busy(t) /\ Half(w) = Busy(t)
           /\ Todo(w) \ {Step("delete", At(t), None)} = Todo(Tail(work[t]))
           /\ IF c = 0 THEN Head(w).do = "delete" /\ Head(w).at = At(t) ELSE Head(w).do = "set"
           /\ At(t) \in Slots => Busy(t) = {At(t)}
<1> DEFINE v == Tail(work[t])
<1>1. PICK p \in Places : p = At(t)
  BY Work, Pop DEF At, Steps
<1>2. /\ v \in Seq(Steps) /\ Shape(v) /\ v # <<>> /\ Head(v).do = "set" /\ Head(v).at = p
      /\ \A i \in Todo(v) : i.do \notin Releases
      /\ Head(v) \in Todo(v) /\ Busy(t) = {p} \cup Ats(v)
      /\ p \in Slots => Busy(t) = {p}
  BY <1>1, Work, Pop DEF At, Releases
<1>3. p \in Ats(v) /\ Busy(t) = Ats(v)
  BY <1>2 DEF Ats
<1>4. Step("delete", p, None) \notin Todo(v)
  BY <1>2 DEF Step, Releases
<1> HIDE DEF v
<1>5. CASE c = 0
  <2> DEFINE d == Step("delete", p, None)
             w == <<d>> \o v
  <2>1. work' = [work EXCEPT ![t] = w]
    BY <1>1, <1>5 DEF AfterUnref, Then, v
  <2>2. d.do = "delete" /\ d.at = p /\ "delete" \in Releases
    BY DEF Step, Releases
  <2>3. d \in Steps /\ Shape(w)
    BY <1>2, <1>3, <2>2, PushRelease
  <2> HIDE DEF d
  <2>4. /\ w \in Seq(Steps) /\ w # <<>> /\ Head(w) = d
        /\ Todo(w) = {d} \cup Todo(v) /\ Ats(w) = {p} \cup Ats(v)
    BY <1>2, <2>2, <2>3, Cons
  <2>5. Half(w) = Busy(t)
    BY <1>2, <2>2, <2>4 DEF Half
  <2>6. Todo(w) \ {d} = Todo(v)
    BY <1>4, <2>4 DEF d
  <2> HIDE DEF w
  <2>7. Todo(w) \ {Step("delete", At(t), None)} = Todo(Tail(work[t]))
    BY <1>1, <2>6 DEF d, v
  <2> QED
    BY <1>1, <1>2, <1>3, <1>5, <2>1, <2>2, <2>3, <2>4, <2>5, <2>7
<1>6. CASE c # 0
  <2>1. work' = [work EXCEPT ![t] = v]
    <3>1. work' = [work EXCEPT ![t] = <<>> \o v]
      BY <1>6 DEF AfterUnref, Then, v
    <3> QED
      BY <1>2, <3>1, ConcatEmptySeq
  <2>2. Half(v) = Busy(t)
    BY <1>2, <1>3 DEF Half
  <2>3. Todo(v) \ {Step("delete", At(t), None)} = Todo(Tail(work[t]))
    BY <1>1, <1>4 DEF v
  <2> QED
    BY <1>1, <1>2, <1>3, <1>6, <2>1, <2>2, <2>3
<1> QED
  BY <1>5, <1>6

\* Where a counted place lets go, its object is counted one less; the last to
\* let go is alone with the object.
LEMMA UncountSafe ==
  ASSUME Typed, Safe, ~ lost, NEW t \in Threads, work[t] # <<>>, Head(work[t]).do = "unref",
         NEW x \in Objects, x = Target(t),
         count' = [count EXCEPT ![x] = Less(count[x])],
         AfterUnref(t, Less(count[x])),
         seen' = [seen EXCEPT ![t] = None],
         UNCHANGED <<ref, unborn, alive, owner, lost>>
  PROVE  Typed' /\ Safe'
<1>1. PICK p \in Places :
      /\ p = At(t) /\ p \in Busy(t) /\ p \notin HalfDone /\ HalfDone \cap Busy(t) = Busy(t) \ {p}
      /\ \A u \in Threads \ {t} : Busy(t) \cap Busy(u) = {}
      /\ \A i \in Todo(Tail(work[t])) :
           /\ i \in Todo(work[t])
           /\ i.do = "set" /\ i.arg # None => Source(t, i.arg)
  BY Micro
<1>2. PICK w \in Seq(Steps) :
      /\ work' = [work EXCEPT ![t] = w] /\ Shape(w) /\ w # <<>>
      /\ Ats(w) = Busy(t) /\ Half(w) = Busy(t)
      /\ Todo(w) \ {Step("delete", p, None)} = Todo(Tail(work[t]))
      /\ IF Less(count[x]) = 0 THEN Head(w).do = "delete" /\ Head(w).at = p ELSE Head(w).do = "set"
      /\ p \in Slots => Busy(t) = {p}
  BY <1>1, UnrefWork
<1>3. /\ \A i \in Todo(w) : i.do = "init" => i \in Todo(work[t])
      /\ \A i \in Todo(w) : i.do = "set" /\ i.arg # None => Source(t, i.arg)
  <2>1. Step("delete", p, None).do = "delete"
    BY DEF Step
  <2> QED
    BY <1>1, <1>2, <2>1
<1>4. /\ work'[t] = w /\ Busy(t)' = Busy(t) /\ \A u \in Threads : Busy(u)' = Busy(u)
      /\ \A u \in Threads \ {t} : work'[u] = work[u]
  BY <1>2, WorkStep
<1>5. Excl' /\ HalfDone' = HalfDone \cup {p}
  <2>1. Excl' /\ HalfDone' = (HalfDone \ Busy(t)) \cup Half(w)
    BY <1>1, <1>2, HalfStep DEF Safe
  <2> QED
    BY <1>1, <1>2, <2>1
<1>6. x # None /\ ref[p] = x /\ x \in alive /\ p \in Counted(x)
  BY <1>1, RefCountAssumption DEF Target, Places, Safe, NoneDead, Counted
<1>7. Counted(x)' = Counted(x) \ {p}
  BY <1>5 DEF Counted
<1>8. \A o : o # x => Counted(o)' = Counted(o)
  <2> SUFFICES ASSUME NEW o, o # x PROVE Counted(o)' = Counted(o)
    OBVIOUS
  <2>1. ref[p] # o
    BY <1>6
  <2> QED
    BY <1>5, <2>1 DEF Counted
<1>9. /\ count[x] \in Nat /\ count[x] = Cardinality(Counted(x)) /\ IsFiniteSet(Counted(x))
      /\ count[x] # 0 /\ count[x] < Wrap /\ Wrap \in Nat
  BY <1>1, <1>6, CountedOnce, RefCountAssumption
<1>10. Less(count[x]) = count[x] - 1
  BY <1>9, ModLess DEF Less
<1>11. count \in [Objects -> 0 .. Wrap - 1] /\ ref \in [Places -> Objects \cup {None}]
  BY DEF Typed, TypeOK
<1>12. count'[x] = count[x] - 1 /\ \A o \in Objects \ {x} : count'[o] = count[o]
  BY <1>10, <1>11
<1>13. Cardinality(Counted(x) \ {p}) = count[x] - 1
  BY <1>6, <1>9, FS_RemoveElement
<1>14. Typed'
  <2>1. count' \in [Objects -> 0 .. Wrap - 1]
    BY <1>9, <1>10, <1>11
  <2>2. /\ ref' \in [Places -> Objects \cup {None}] /\ unborn' \in SUBSET Objects
        /\ alive' \in SUBSET (Objects \ unborn') /\ owner' \in [Slots -> Threads]
        /\ lost' \in BOOLEAN /\ seen' \in [Threads -> (0 .. Wrap - 1) \cup {None}]
    BY DEF Typed, TypeOK
  <2> QED
    BY <1>2, <2>1, <2>2, TypedStep
<1>15. OwnSlots' /\ Born'
  BY <1>4 DEF Safe, OwnSlots, Born, Own
<1>16. Unborn' /\ NoneDead'
  <2>1. unborn \subseteq Objects /\ x \notin unborn
    BY <1>6 DEF Typed, TypeOK
  <2>2. Unborn'
    BY <1>12, <2>1 DEF Safe, Unborn
  <2>3. NoneDead'
    BY <1>5 DEF Safe, NoneDead
  <2> QED
    BY <2>2, <2>3
<1>17. Exact'
  <2>1. ASSUME NEW o \in alive PROVE count'[o] = Cardinality(Counted(o)')
    <3>1. CASE o = x
      BY <1>7, <1>12, <1>13, <3>1
    <3>2. CASE o # x
      <4>1. o \in Objects
        BY DEF Typed, TypeOK
      <4> QED
        BY <1>8, <1>12, <3>2, <4>1 DEF Safe, Exact
    <3> QED
      BY <3>1, <3>2
  <2> QED
    BY <2>1 DEF Exact
<1>18. ~ lost' /\ \A q \in Places \ Busy(t) : ref'[q] = ref[q]
  OBVIOUS
<1>19. seen'[t] = None /\ \A u \in Threads \ {t} : seen'[u] = seen[u]
  BY DEF Typed, TypeOK
<1>20. \A q \in Places \ HalfDone' : q \notin HalfDone /\ ref'[q] = ref[q]
  BY <1>5
<1>21. Doing(t, "delete")' => Less(count[x]) = 0 /\ Target(t)' = x
  BY <1>2, <1>4, <1>6 DEF Doing, Target, At
<1>22. ASSUME NEW u \in Threads \ {t}
       PROVE  /\ Sources(u)' /\ Pending(u)' /\ Loaded(u)'
              /\ Doing(u, "delete")' = Doing(u, "delete")
              /\ Doing(u, "delete") => Target(u)' = Target(u) /\ Target(u) # x
  <2>1. /\ Sources(u)' /\ Pending(u)' /\ Loaded(u)'
        /\ Doing(u, "delete")' = Doing(u, "delete")
        /\ Doing(u, "delete") => Target(u)' = Target(u)
    BY <1>2, <1>18, <1>19, Others DEF Doing
  <2>2. Doing(u, "delete") => Target(u) # x
    BY <1>6 DEF Safe, Condemned
  <2> QED
    BY <2>1, <2>2
<1>23. ASSUME NEW u \in Threads \ {t} PROVE Confined(u)' /\ Newborn(u)' /\ Condemned(u)'
  <2>1. Confined(u)'
    BY <1>4, <1>20, OtherConfined
  <2>2. Newborn(u)'
    <3>1. \A q \in Places : \E r \in Places : ref'[q] = ref[r]
      OBVIOUS
    <3>2. Ats(w) \ Busy(t) = {} /\ alive \ alive' = {}
      BY <1>2
    <3> QED
      BY <1>2, <1>3, <3>1, <3>2, OtherNewborn
  <2>3. Condemned(u)'
    <3>1. Doing(u, "delete") => Target(u) \in alive'
      BY DEF Safe, Condemned
    <3>2. Doing(u, "delete") => Target(u) \notin Ats(w) \ Busy(t)
      BY <1>2
    <3>3. Doing(u, "delete") /\ Doing(t, "delete")' => Target(t)' # Target(u)
      BY <1>21, <1>22
    <3> QED
      BY <1>2, <1>20, <1>22, <3>1, <3>2, <3>3, OtherCondemned
  <2> QED
    BY <2>1, <2>2, <2>3
<1>24. Confined(t)'
  <2>1. Own(t)' = Own(t)
    BY DEF Own
  <2> QED
    BY <1>4, <1>20, <2>1 DEF Safe, Confined
<1>25. Sources(t)'
  <2>1. ASSUME NEW i \in Todo(w), i.do = "set", i.arg # None PROVE Source(t, i.arg)'
    <3>1. Source(t, i.arg)
      BY <1>3, <2>1
    <3>2. i.arg \notin Busy(t)' /\ Busy(t)' \cap Slots \subseteq Busy(t)
      BY <1>4, <3>1 DEF Source
    <3> QED
      BY <1>18, <3>1, <3>2, SourceStep
  <2>2. Todo(work'[t]) = Todo(w)
    BY <1>4
  <2> QED
    BY <2>1, <2>2 DEF Sources, Todo
<1>26. Newborn(t)'
  <2>1. \A i \in Todo(w) : i.do = "init" =>
          /\ i.arg \in alive
          /\ \A q \in Places : ref[q] # i.arg
          /\ \A u \in Threads \ {t} :
               /\ i.arg \notin Busy(u)
               /\ \A j \in Todo(work[u]) : j.do = "init" => j.arg # i.arg
    BY <1>3 DEF Safe, Newborn
  <2>2. \A i \in Todo(w) : i.do = "init" =>
          /\ i.arg \in alive'
          /\ \A q \in Places : ref'[q] # i.arg
          /\ \A u \in Threads \ {t} :
               /\ i.arg \notin Busy(u)'
               /\ \A j \in Todo(work'[u]) : j.do = "init" => j.arg # i.arg
    BY <1>4, <2>1
  <2>3. Todo(work'[t]) = Todo(w)
    BY <1>4
  <2> QED
    BY <2>2, <2>3 DEF Newborn, Todo
<1>27. Condemned(t)'
  <2> SUFFICES ASSUME Less(count[x]) = 0, Target(t)' = x, Doing(t, "delete")' PROVE Condemned(t)'
    BY <1>21 DEF Condemned
  <2>1. Counted(x)' = {}
    <3>1. IsFiniteSet(Counted(x) \ {p})
      BY <1>9, FS_Subset
    <3> QED
      BY <1>7, <1>9, <1>10, <1>13, <3>1, FS_EmptySet
  <2>2. ASSUME NEW u \in Threads, x \in Busy(u) PROVE FALSE
    <3>1. p \in Own(u)
      BY <1>1, <1>6, <2>2 DEF Safe, Confined
    <3>2. p \in Own(t) /\ p \in Slots
      BY <1>1, <3>1 DEF Safe, OwnSlots, Own
    <3>3. u = t /\ Busy(t) = {p}
      BY <1>2, <3>1, <3>2 DEF Own
    <3> QED
      BY <2>2, <3>2, <3>3, RefCountAssumption
  <2>3. \A u \in Threads \ {t} : Doing(u, "delete")' => Target(u)' # x
    BY <1>22
  <2>4. /\ Target(t)' \in alive' /\ Counted(Target(t))' = {}
        /\ \A u \in Threads : Target(t)' \notin Busy(u)'
        /\ \A u \in Threads \ {t} : Doing(u, "delete")' => Target(u)' # Target(t)'
    <3>1. Counted(Target(t))' = {}
      BY <2>1 DEF Counted
    <3> QED
      BY <1>4, <1>6, <2>2, <2>3, <3>1
  <2> QED
    BY <2>4 DEF Condemned
<1>28. Pending(t)' /\ Loaded(t)'
  <2>1. ~ Doing(t, "ref")'
    BY <1>2, <1>4 DEF Doing
  <2> QED
    BY <1>19, <2>1 DEF Pending, Loaded
<1>29. Tidy'
  <2>1. ~ Doing(t, "delete")
    BY DEF Doing
  <2>2. \A i \in Todo(work[t]) : i.do \in {"set", "init"} => i \in Todo(w)
    <3>1. Todo(work[t]) = {Head(work[t])} \cup Todo(Tail(work[t]))
      BY Micro
    <3> QED
      BY <1>2, <3>1
  <2>3. \A o : Step("set", o, None).do = "set"
    BY DEF Step
  <2>4. \A i \in Todo(w) : i.do = "set" => i \in Todo(work[t])
    <3>1. Step("delete", p, None).do = "delete"
      BY DEF Step
    <3> QED
      BY <1>1, <1>2, <3>1
  <2>5. ASSUME NEW o \in alive', Counted(o) # {}
        PROVE  Counted(o)' # {} \/ (Doing(t, "delete")' /\ Target(t)' = o)
    <3>1. CASE o # x
      BY <1>8, <2>5, <3>1
    <3>2. CASE o = x /\ Less(count[x]) = 0
      BY <1>2, <1>4, <1>6, <3>2 DEF Doing, Target, At
    <3>3. CASE o = x /\ Less(count[x]) # 0
      <4>1. Cardinality(Counted(x)') # 0
        BY <1>7, <1>10, <1>13, <3>3
      <4> QED
        BY <3>3, <4>1, FS_EmptySet
    <3> QED
      BY <3>1, <3>2, <3>3
  <2> QED
    BY <1>2, <1>22, <2>1, <2>2, <2>3, <2>4, <2>5, TidyStep
<1> QED
  BY <1>5, <1>14, <1>15, <1>16, <1>17, <1>22, <1>23, <1>24, <1>25, <1>26, <1>27, <1>28,
     <1>29 DEF Safe

LEMMA UnrefPlainSafe ==
  ASSUME Typed, Safe, NEW t \in Threads, UnrefPlain(t)
  PROVE  Typed' /\ (~ lost' => Safe')
<1>1. PICK x \in Objects :
      /\ x = Target(t) /\ ~ lost /\ work[t] # <<>> /\ Head(work[t]).do = "unref"
      /\ seen[t] # None
      /\ count' = [count EXCEPT ![x] = Less(seen[t])]
      /\ AfterUnref(t, Less(seen[t]))
      /\ lost' = (count[x] # seen[t])
      /\ seen' = [seen EXCEPT ![t] = None]
      /\ UNCHANGED <<ref, unborn, alive, owner>>
  BY RefCountAssumption DEF UnrefPlain, Doing, Store
<1>2. CASE count[x] = seen[t]
  <2>1. lost' = lost
    BY <1>1, <1>2 DEF Typed, TypeOK
  <2> QED
    BY <1>1, <1>2, <2>1, UncountSafe
<1>3. CASE count[x] # seen[t]
  <2>1. Less(seen[t]) \in 0 .. Wrap - 1
    <3>1. Wrap \in Nat /\ 0 < Wrap
      BY RefCountAssumption, FS_CardinalityType
    <3>2. seen[t] + Wrap - 1 \in Nat
      BY <1>1, <3>1 DEF Typed, TypeOK
    <3> QED
      BY <3>1, <3>2, ModRange DEF Less
  <2>2. count' \in [Objects -> 0 .. Wrap - 1]
    BY <1>1, <2>1 DEF Typed, TypeOK
  <2>3. /\ ref' \in [Places -> Objects \cup {None}] /\ unborn' \in SUBSET Objects
        /\ alive' \in SUBSET (Objects \ unborn') /\ owner' \in [Slots -> Threads]
        /\ lost' \in BOOLEAN /\ seen' \in [Threads -> (0 .. Wrap - 1) \cup {None}]
    BY <1>1 DEF Typed, TypeOK
  <2>4. PICK w \in Seq(Steps) : work' = [work EXCEPT ![t] = w] /\ Shape(w)
    BY <1>1, UnrefWork
  <2>5. Typed'
    BY <2>2, <2>3, <2>4, TypedStep
  <2> QED
    BY <1>1, <1>3, <2>5
<1> QED
  BY <1>2, <1>3

LEMMA UnrefAtomicSafe ==
  ASSUME Typed, Safe, NEW t \in Threads, UnrefAtomic(t)
  PROVE  Typed' /\ Safe'
<1>1. PICK x \in Objects \ Plain :
      /\ x = Target(t) /\ ~ lost /\ work[t] # <<>> /\ Head(work[t]).do = "unref"
      /\ count' = [count EXCEPT ![x] = Less(count[x])]
      /\ AfterUnref(t, Less(count[x]))
      /\ UNCHANGED <<ref, unborn, alive, owner, seen, lost>>
  BY DEF UnrefAtomic, Doing
<1>2. seen[t] = None
  BY <1>1 DEF Safe, Loaded, Doing
<1>3. seen' = [seen EXCEPT ![t] = None]
  BY <1>1, <1>2 DEF Typed, TypeOK
<1> QED
  BY <1>1, <1>3, UncountSafe

\* A destructor releases and clears the member, then the place it came from.
AfterDelete(t, o, w) ==
  /\ Shape(w) /\ w # <<>>
  /\ Ats(w) = Busy(t) \cup {o}
  /\ Half(w) = Busy(t) \cup (IF ref[o] = None THEN {o} ELSE {})
  /\ \A i \in Todo(w) : \/ i \in Todo(Tail(work[t]))
                        \/ i.do # "init" /\ (i.do = "set" => i.arg = None)
  /\ Todo(Tail(work[t])) \cup {Step("set", o, None)} \subseteq Todo(w)
  /\ Head(w).do \in {"unref", "set"}

LEMMA DeleteWork ==
  ASSUME Typed, NEW t \in Threads, work[t] # <<>>, Head(work[t]).do = "delete",
         NEW p \in Places, p = At(t), NEW o \in Objects, o \notin Busy(t),
         Then(t, Release(o) \o <<Step("set", o, None), Step("set", p, None)>>)
  PROVE  \E w \in Seq(Steps) : work' = [work EXCEPT ![t] = w] /\ AfterDelete(t, o, w)
<1> DEFINE v == Tail(work[t])
           a == Step("set", o, None)
           b == Step("set", p, None)
           v1 == <<b>> \o v
           v2 == <<a>> \o v1
           w == Release(o) \o v2
<1>1. /\ v \in Seq(Steps) /\ Shape(v) /\ v # <<>> /\ Head(v).do = "set" /\ Head(v).at = p
      /\ \A i \in Todo(v) : i.do \notin Releases
      /\ Head(v) \in Todo(v) /\ Busy(t) = {p} \cup Ats(v)
  BY Work, Pop DEF At, Releases
<1>2. /\ a.do = "set" /\ a.at = o /\ a.arg = None /\ b.do = "set" /\ b.at = p /\ b.arg = None
      /\ a \in Steps /\ b \in Steps
  BY DEF Step, Steps, Places
<1>3. o \in Places /\ o \notin Slots
  BY RefCountAssumption DEF Places
<1>4. work' = [work EXCEPT ![t] = (Release(o) \o <<a, b>>) \o v]
  BY DEF Then
<1>5. Release(o) \in Seq(Steps)
  <2>1. Step("unref", o, None) \in Steps
    BY <1>3 DEF Step, Steps
  <2> QED
    BY <2>1, Single, Empty DEF Release
<1> HIDE DEF v, a, b
<1>6. <<a, b>> = <<a>> \o <<b>> /\ <<a>> \in Seq(Steps) /\ <<b>> \in Seq(Steps)
  BY <1>2, Two, Single
<1>7. (Release(o) \o <<a, b>>) \o v = w
  <2>1. <<a, b>> \in Seq(Steps)
    BY <1>2
  <2>2. (Release(o) \o <<a, b>>) \o v = Release(o) \o (<<a, b>> \o v)
    BY <1>1, <1>5, <2>1, ConcatAssociative
  <2>3. <<a, b>> \o v = <<a>> \o (<<b>> \o v)
    BY <1>1, <1>6, ConcatAssociative
  <2> QED
    BY <2>2, <2>3
<1>8. v1 \in Seq(Steps) /\ Shape(v1)
  BY <1>1, PushSet DEF b
<1>9. v1 # <<>> /\ Head(v1) = b /\ Todo(v1) = {b} \cup Todo(v) /\ Ats(v1) = Busy(t)
  BY <1>1, <1>2, Cons
<1> HIDE DEF v1
<1>10. \A i \in Todo(v1) : i.do \notin Releases
  BY <1>1, <1>2, <1>9 DEF Releases
<1>11. v2 \in Seq(Steps) /\ Shape(v2)
  BY <1>2, <1>3, <1>8, <1>9, <1>10, PushSet DEF a
<1>12. v2 # <<>> /\ Head(v2) = a /\ Todo(v2) = {a, b} \cup Todo(v) /\ Ats(v2) = Busy(t) \cup {o}
  BY <1>2, <1>8, <1>9, Cons
<1> HIDE DEF v2
<1>13. \A i \in Todo(v2) : i.do \notin Releases
  BY <1>1, <1>2, <1>12 DEF Releases
<1>14. /\ w \in Seq(Steps) /\ Shape(w) /\ w # <<>> /\ Ats(w) = Busy(t) \cup {o}
       /\ ref[o] = None => w = v2
       /\ ref[o] # None => /\ Head(w) = Step("unref", o, None)
                           /\ Todo(w) = {Step("unref", o, None)} \cup Todo(v2)
  BY <1>2, <1>3, <1>11, <1>12, <1>13, ReleaseBefore
<1>15. Step("unref", o, None).do = "unref" /\ Step("unref", o, None).at = o
  BY DEF Step
<1> HIDE DEF w
<1>16. /\ Half(w) = Busy(t) \cup (IF ref[o] = None THEN {o} ELSE {})
       /\ Head(w).do \in {"unref", "set"}
  BY <1>2, <1>12, <1>14, <1>15 DEF Half
<1>17. \A i \in Todo(v2) : \/ i \in Todo(v)
                           \/ i.do # "init" /\ (i.do = "set" => i.arg = None)
  BY <1>2, <1>12
<1>18. \A i \in Todo(w) : \/ i \in Todo(v)
                          \/ i.do # "init" /\ (i.do = "set" => i.arg = None)
  BY <1>14, <1>15, <1>17
<1>19. /\ \A i \in Todo(w) : \/ i \in Todo(Tail(work[t]))
                             \/ i.do # "init" /\ (i.do = "set" => i.arg = None)
       /\ Todo(Tail(work[t])) \cup {Step("set", o, None)} \subseteq Todo(w)
  BY <1>12, <1>14, <1>18 DEF a, v
<1>20. work' = [work EXCEPT ![t] = w] /\ w \in Seq(Steps)
  BY <1>4, <1>7, <1>14
<1>21. AfterDelete(t, o, w)
  BY <1>14, <1>16, <1>19 DEF AfterDelete
<1> QED
  BY <1>20, <1>21

\* Nobody is left that could come upon a deleted object.
LEMMA DeleteSafe ==
  ASSUME Typed, Safe, NEW t \in Threads, Delete(t)
  PROVE  Typed' /\ Safe'
<1>1. /\ ~ lost /\ work[t] # <<>> /\ Head(work[t]).do = "delete" /\ Doing(t, "delete")
      /\ UNCHANGED <<ref, count, unborn, owner, seen, lost>>
  BY DEF Delete, Doing
<1>2. PICK p \in Places :
      /\ p = At(t) /\ p \in Busy(t) /\ Busy(t) \subseteq HalfDone
      /\ \A u \in Threads \ {t} : Busy(t) \cap Busy(u) = {}
      /\ \A i \in Todo(Tail(work[t])) :
           /\ i \in Todo(work[t])
           /\ i.do = "set" /\ i.arg # None => Source(t, i.arg)
  BY <1>1, Micro
<1>3. PICK o \in Objects :
      /\ o = Target(t) /\ o \in alive /\ Counted(o) = {} /\ alive' = alive \ {o}
      /\ \A u \in Threads : o \notin Busy(u)
      /\ \A u \in Threads \ {t} : Doing(u, "delete") => Target(u) # o
  BY <1>1 DEF Safe, Condemned, Typed, TypeOK, Delete
<1>4. ref[p] = o /\ \A q \in Places \ HalfDone : ref[q] # o
  BY <1>2, <1>3 DEF Target, Counted
<1>5. PICK w \in Seq(Steps) :
      /\ work' = [work EXCEPT ![t] = w] /\ Shape(w) /\ w # <<>>
      /\ Ats(w) = Busy(t) \cup {o}
      /\ Half(w) = Busy(t) \cup (IF ref[o] = None THEN {o} ELSE {})
      /\ \A i \in Todo(w) : \/ i \in Todo(Tail(work[t]))
                            \/ i.do # "init" /\ (i.do = "set" => i.arg = None)
      /\ Todo(Tail(work[t])) \cup {Step("set", o, None)} \subseteq Todo(w)
      /\ Head(w).do \in {"unref", "set"}
  <2>1. Then(t, Release(o) \o <<Step("set", o, None), Step("set", p, None)>>)
    BY <1>2, <1>3 DEF Delete
  <2>2. \E w \in Seq(Steps) : work' = [work EXCEPT ![t] = w] /\ AfterDelete(t, o, w)
    BY <1>1, <1>2, <1>3, <2>1, DeleteWork
  <2> QED
    BY <2>2, Zenon DEF AfterDelete
<1>6. /\ \A i \in Todo(w) : i.do = "init" => i \in Todo(work[t])
      /\ \A i \in Todo(w) : i.do = "set" /\ i.arg # None => Source(t, i.arg)
  BY <1>2, <1>5
<1>7. /\ work'[t] = w /\ Busy(t)' = Busy(t) \cup {o}
      /\ \A u \in Threads \ {t} : Busy(u)' = Busy(u) /\ work'[u] = work[u]
  BY <1>5, WorkStep
<1>8. Excl' /\ HalfDone' = HalfDone \cup (IF ref[o] = None THEN {o} ELSE {})
  <2>1. \A u \in Threads \ {t} : Ats(w) \cap Busy(u) = {}
    BY <1>2, <1>3, <1>5
  <2>2. Excl' /\ HalfDone' = (HalfDone \ Busy(t)) \cup Half(w)
    BY <1>5, <2>1, HalfStep DEF Safe
  <2> QED
    BY <1>2, <1>5, <2>2
<1>9. o \in Places /\ o \notin Slots /\ o \notin unborn /\ o # None
  BY <1>3, RefCountAssumption DEF Places, Typed, TypeOK
<1>10. Typed'
  <2>1. alive' \in SUBSET (Objects \ unborn')
    BY <1>1, <1>3 DEF Typed, TypeOK
  <2>2. /\ ref' \in [Places -> Objects \cup {None}] /\ unborn' \in SUBSET Objects
        /\ count' \in [Objects -> 0 .. Wrap - 1] /\ owner' \in [Slots -> Threads]
        /\ lost' \in BOOLEAN /\ seen' \in [Threads -> (0 .. Wrap - 1) \cup {None}]
    BY <1>1 DEF Typed, TypeOK
  <2> QED
    BY <1>5, <2>1, <2>2, TypedStep
<1>11. \A u \in Threads : Own(u)' = Own(u)
  BY <1>1 DEF Own
<1>12. OwnSlots' /\ Born'
  <2>1. \A u \in Threads : Busy(u)' \subseteq Busy(u) \cup {o}
    BY <1>7
  <2> QED
    BY <1>1, <1>9, <1>11, <2>1 DEF Safe, OwnSlots, Born
<1>13. \A q \in Places \ HalfDone' : q \notin HalfDone /\ ref'[q] = ref[q]
  BY <1>1, <1>8
<1>14. Unborn' /\ NoneDead'
  <2>1. Unborn'
    BY <1>1 DEF Safe, Unborn
  <2>2. NoneDead'
    BY <1>3, <1>4, <1>13 DEF Safe, NoneDead
  <2> QED
    BY <2>1, <2>2
<1>15. ASSUME NEW x \in Objects PROVE Counted(x)' = Counted(x)
  <2>1. x # None
    BY RefCountAssumption DEF Places
  <2>2. ref' = ref
    BY <1>1
  <2> QED
    BY <1>8, <2>1, <2>2 DEF Counted
<1>16. Exact'
  BY <1>1, <1>3, <1>15 DEF Safe, Exact, Typed, TypeOK
<1>17. ~ lost' /\ \A q \in Places \ Busy(t) : ref'[q] = ref[q]
  BY <1>1
<1>18. ~ Doing(t, "delete")' /\ ~ Doing(t, "ref")'
  BY <1>5, <1>7 DEF Doing
<1>19. ASSUME NEW u \in Threads \ {t}
       PROVE  /\ Confined(u)' /\ Sources(u)' /\ Pending(u)' /\ Newborn(u)'
              /\ Condemned(u)' /\ Loaded(u)'
  <2>1. /\ Sources(u)' /\ Pending(u)' /\ Loaded(u)' /\ Busy(u)' = Busy(u)
    BY <1>1, <1>5, <1>17, Others
  <2>2. Confined(u)'
    BY <1>1, <1>13, <2>1, OtherConfined
  <2>3. Newborn(u)'
    <3>1. \A q \in Places : \E r \in Places : ref'[q] = ref[r]
      BY <1>1
    <3>2. \A x \in Ats(w) \ Busy(t) : \E q \in Places : ref[q] = x
      BY <1>4, <1>5
    <3>3. \A x \in alive \ alive' : \E q \in Places : ref[q] = x
      BY <1>3, <1>4
    <3> QED
      BY <1>5, <1>6, <3>1, <3>2, <3>3, OtherNewborn
  <2>4. Condemned(u)'
    <3>1. ASSUME NEW y \in Threads \ {t}
          PROVE  /\ Doing(y, "delete")' = Doing(y, "delete")
                 /\ Doing(y, "delete") => Target(y)' = Target(y)
      BY <1>1, <1>5, <1>17, Others DEF Doing
    <3>2. Doing(u, "delete") => Target(u) \in alive' /\ Target(u) \notin Ats(w) \ Busy(t)
      BY <1>3, <1>5 DEF Safe, Condemned
    <3> QED
      BY <1>5, <1>13, <1>18, <3>1, <3>2, OtherCondemned
  <2> QED
    BY <2>1, <2>2, <2>3, <2>4
<1>20. Confined(t)'
  <2>1. ASSUME NEW x \in Busy(t)' \cap Objects, NEW q \in Places \ HalfDone', ref'[q] = x
        PROVE  q \in Own(t)'
    <3>1. q \in Places \ HalfDone /\ ref[q] = x /\ x # o
      BY <1>4, <1>13, <2>1
    <3>2. x \in Busy(t) \cap Objects
      BY <1>7, <3>1
    <3> QED
      BY <1>11, <3>1, <3>2 DEF Safe, Confined
  <2> QED
    BY <2>1 DEF Confined
<1>21. Sources(t)'
  <2>1. ASSUME NEW i \in Todo(w), i.do = "set", i.arg # None PROVE Source(t, i.arg)'
    <3>1. Source(t, i.arg)
      BY <1>6, <2>1
    <3>2. i.arg # o
      BY <1>4, <3>1, SourceFree
    <3>3. i.arg \notin Busy(t)' /\ Busy(t)' \cap Slots \subseteq Busy(t)
      BY <1>7, <1>9, <3>1, <3>2 DEF Source
    <3>4. UNCHANGED owner
      BY <1>1
    <3> QED
      BY <1>17, <3>1, <3>3, <3>4, SourceStep
  <2>2. Todo(work'[t]) = Todo(w)
    BY <1>7
  <2> QED
    BY <2>1, <2>2 DEF Sources, Todo
<1>22. Newborn(t)'
  <2>1. \A i \in Todo(w) : i.do = "init" =>
          /\ i.arg \in alive
          /\ \A q \in Places : ref[q] # i.arg
          /\ \A u \in Threads \ {t} :
               /\ i.arg \notin Busy(u)
               /\ \A j \in Todo(work[u]) : j.do = "init" => j.arg # i.arg
    BY <1>6 DEF Safe, Newborn
  <2>2. \A i \in Todo(w) : i.do = "init" =>
          /\ i.arg \in alive'
          /\ \A q \in Places : ref'[q] # i.arg
          /\ \A u \in Threads \ {t} :
               /\ i.arg \notin Busy(u)'
               /\ \A j \in Todo(work'[u]) : j.do = "init" => j.arg # i.arg
    BY <1>1, <1>3, <1>4, <1>7, <2>1
  <2>3. Todo(work'[t]) = Todo(w)
    BY <1>7
  <2> QED
    BY <2>2, <2>3 DEF Newborn, Todo
<1>23. Pending(t)' /\ Condemned(t)' /\ Loaded(t)'
  <2>1. seen[t] = None
    BY <1>1 DEF Safe, Loaded, Doing
  <2> QED
    BY <1>1, <1>18, <2>1 DEF Pending, Condemned, Loaded
<1>24. Tidy'
  <2>1. ASSUME NEW y \in Threads \ {t}
        PROVE  /\ Doing(y, "delete")' = Doing(y, "delete")
               /\ Doing(y, "delete") => Target(y)' = Target(y)
    BY <1>1, <1>5, <1>17, Others DEF Doing
  <2>2. Target(t) \notin alive' /\ alive \ alive' = {o} /\ alive' \ alive = {}
    BY <1>3
  <2>3. \A i \in Todo(work[t]) : i.do \in {"set", "init"} => i \in Todo(w)
    <3>1. Todo(work[t]) = {Head(work[t])} \cup Todo(Tail(work[t]))
      BY <1>1, Micro
    <3> QED
      BY <1>1, <1>5, <3>1
  <2>4. \A x : Step("set", x, None).do = "set"
    BY DEF Step
  <2>5. \A i \in Todo(w) : i.do = "set" /\ i.arg # None => i \in Todo(work[t])
    BY <1>2, <1>5
  <2>6. \A x \in alive' : Counted(x)' = Counted(x)
    BY <1>3, <1>15 DEF Typed, TypeOK
  <2>7. \A x \in alive \ alive' : /\ Step("set", x, None) \in Todo(w)
                                 /\ \A u \in Threads : x \notin Busy(u)
    BY <1>3, <1>5, <2>2
  <2>8. \A x \in Objects : Step("set", x, None) \in Todo(work[t]) =>
          Step("set", x, None) \in Todo(w)
    BY <2>3, <2>4
  <2>9. ref' = ref /\ (\A i \in Todo(work[t]) : i.do = "init" => i \in Todo(w))
    BY <1>1, <2>3
  <2>10. work' = [work EXCEPT ![t] = w]
    BY <1>5
  <2> QED
    BY <2>1, <2>2, <2>5, <2>6, <2>7, <2>8, <2>9, <2>10, TidyStep
<1> QED
  BY <1>8, <1>10, <1>12, <1>14, <1>16, <1>19, <1>20, <1>21, <1>22, <1>23, <1>24 DEF Safe

\* A new object gets its first Ref.
LEMMA InitRefSafe ==
  ASSUME Typed, Safe, NEW t \in Threads, InitRef(t)
  PROVE  Typed' /\ Safe'
<1>1. PICK o : o = Head(work[t]).arg
  OBVIOUS
<1>2. /\ ~ lost /\ ~ lost' /\ work[t] # <<>> /\ Head(work[t]).do = "init" /\ Doing(t, "init")
      /\ count' = [count EXCEPT ![o] = 1] /\ ref' = [ref EXCEPT ![At(t)] = o]
      /\ work' = [work EXCEPT ![t] = <<>> \o Tail(work[t])]
      /\ UNCHANGED <<unborn, alive, owner, seen, lost>>
  BY <1>1 DEF InitRef, Doing, Then
<1>3. PICK to \in Places :
      /\ to = At(t) /\ to \in Busy(t) /\ Busy(t) = {to} \cup Ats(Tail(work[t]))
      /\ Busy(t) \subseteq HalfDone
      /\ \A u \in Threads \ {t} : Busy(t) \cap Busy(u) = {}
      /\ Head(work[t]) \in Todo(work[t])
  BY <1>2, Micro
<1>4. Tail(work[t]) = <<>> /\ to \in Slots /\ o \in Objects
  BY <1>1, <1>2, <1>3, Work, Pop DEF At
<1>5. work' = [work EXCEPT ![t] = <<>>] /\ work' = [work EXCEPT ![t] = Tail(work[t])]
  BY <1>2, <1>4, Empty, ConcatEmptySeq
<1>6. /\ work'[t] = <<>> /\ Busy(t)' = {} /\ \A u \in Threads \ {t} : Busy(u)' = Busy(u)
      /\ HalfDone' = HalfDone \ {to} /\ Excl' /\ OwnSlots' /\ Born'
  <2>1. /\ work'[t] = Tail(work[t]) /\ Busy(t)' = Ats(Tail(work[t]))
        /\ \A u \in Threads \ {t} : Busy(u)' = Busy(u)
        /\ HalfDone' = (HalfDone \ Busy(t)) \cup Ats(Tail(work[t])) /\ Excl' /\ OwnSlots' /\ Born'
    BY <1>2, <1>5, PopStep
  <2> QED
    BY <1>3, <1>4, <2>1, Empty
<1>7. /\ o \in alive /\ \A q \in Places : ref[q] # o
      /\ \A u \in Threads \ {t} : /\ o \notin Busy(u)
                                  /\ \A j \in Todo(work[u]) : j.do = "init" => j.arg # o
  BY <1>1, <1>2, <1>3 DEF Safe, Newborn
<1>8. o # None /\ o \notin unborn /\ to \notin unborn /\ to \notin Objects
  BY <1>4, <1>7, RefCountAssumption DEF Typed, TypeOK, Places
<1>9. /\ ref \in [Places -> Objects \cup {None}] /\ count \in [Objects -> 0 .. Wrap - 1]
      /\ unborn \subseteq Objects /\ alive \subseteq Objects
  BY DEF Typed, TypeOK
<1>10. /\ ref'[to] = o /\ \A q \in Places \ {to} : ref'[q] = ref[q]
       /\ count'[o] = 1 /\ \A x \in Objects \ {o} : count'[x] = count[x]
  BY <1>2, <1>3, <1>4, <1>9
<1>11. 1 \in 0 .. Wrap - 1
  <2>1. to \notin Counted(o)
    BY <1>7 DEF Counted
  <2> QED
    BY <1>7, <2>1, CountedOnce, RefCountAssumption
<1>12. Typed'
  <2>1. ref' \in [Places -> Objects \cup {None}] /\ count' \in [Objects -> 0 .. Wrap - 1]
    BY <1>2, <1>4, <1>9, <1>11
  <2>2. /\ unborn' \in SUBSET Objects /\ alive' \in SUBSET (Objects \ unborn')
        /\ owner' \in [Slots -> Threads] /\ lost' \in BOOLEAN
        /\ seen' \in [Threads -> (0 .. Wrap - 1) \cup {None}]
    BY <1>2 DEF Typed, TypeOK
  <2> QED
    BY <1>5, <2>1, <2>2, TypedStep, Empty
<1>13. Unborn' /\ NoneDead'
  <2>1. unborn \subseteq Places
    BY <1>9 DEF Places
  <2>2. Unborn'
    <3>1. ASSUME NEW x \in unborn
          PROVE  ref'[x] = None /\ count'[x] = 0 /\ \A q \in Places : ref'[q] # x
      <4>1. x \in Places /\ x \in Objects /\ x # to /\ x # o
        BY <1>8, <1>9, <2>1
      <4>2. ref[x] = None /\ count[x] = 0 /\ \A q \in Places : ref[q] # x
        BY DEF Safe, Unborn
      <4> QED
        BY <1>10, <4>1, <4>2
    <3> QED
      BY <1>2, <3>1 DEF Unborn
  <2>3. NoneDead'
    BY <1>2, <1>6, <1>7, <1>10 DEF Safe, NoneDead
  <2> QED
    BY <2>2, <2>3
<1>14. Exact'
  <2>1. ASSUME NEW x \in alive PROVE count'[x] = Cardinality(Counted(x)')
    <3>1. CASE x = o
      <4>1. Counted(o)' = {to}
        BY <1>6, <1>7, <1>10 DEF Counted
      <4> QED
        BY <1>10, <3>1, <4>1, FS_Singleton
    <3>2. CASE x # o
      <4>1. Counted(x)' = Counted(x)
        <5>1. ASSUME NEW q \in Places PROVE q \in Counted(x)' <=> q \in Counted(x)
          BY <1>3, <1>6, <1>10, <3>2 DEF Counted
        <5> QED
          BY <5>1 DEF Counted
      <4>2. x \in Objects
        BY <1>9
      <4> QED
        BY <1>10, <3>2, <4>1, <4>2 DEF Safe, Exact
    <3> QED
      BY <3>1, <3>2
  <2> QED
    BY <1>2, <2>1 DEF Exact
<1>15. \A q \in Places \ Busy(t) : ref'[q] = ref[q]
  BY <1>3, <1>10
<1>16. \A q \in Places \ HalfDone' : \/ q \notin HalfDone /\ ref'[q] = ref[q]
                                     \/ ref'[q] = o
  BY <1>6, <1>10
<1>17. Ats(<<>>) = {} /\ Todo(<<>>) = {} /\ <<>> \in Seq(Steps)
  BY Empty
<1>18. ~ Doing(t, "delete")' /\ ~ Doing(t, "ref")'
  BY <1>6 DEF Doing
<1>19. ASSUME NEW u \in Threads \ {t}
       PROVE  /\ Confined(u)' /\ Sources(u)' /\ Pending(u)' /\ Newborn(u)'
              /\ Condemned(u)' /\ Loaded(u)'
  <2>1. /\ Sources(u)' /\ Pending(u)' /\ Loaded(u)' /\ Busy(u)' = Busy(u)
    BY <1>2, <1>5, <1>15, <1>17, Others
  <2>2. Confined(u)'
    BY <1>2, <1>7, <1>16, <2>1, OtherConfined
  <2>3. Newborn(u)'
    <3>1. \A q \in Places : \/ \E r \in Places : ref'[q] = ref[r]
                            \/ \E i \in Todo(work[t]) : i.do = "init" /\ ref'[q] = i.arg
      BY <1>1, <1>2, <1>3, <1>10
    <3>2. alive \ alive' = {}
      BY <1>2
    <3> QED
      BY <1>5, <1>17, <3>1, <3>2, OtherNewborn
  <2>4. Condemned(u)'
    <3>1. ASSUME NEW y \in Threads \ {t}
          PROVE  /\ Doing(y, "delete")' = Doing(y, "delete")
                 /\ Doing(y, "delete") => Target(y)' = Target(y)
      BY <1>2, <1>5, <1>15, <1>17, Others DEF Doing
    <3>2. Doing(u, "delete") => Target(u) \in alive' /\ Target(u) # o
      <4> SUFFICES ASSUME Doing(u, "delete") PROVE Target(u) \in alive' /\ Target(u) # o
        OBVIOUS
      <4>1. At(u) \in Places
        BY Micro DEF Doing
      <4> QED
        BY <1>2, <1>7, <4>1 DEF Safe, Condemned, Target
    <3> QED
      BY <1>5, <1>16, <1>17, <1>18, <3>1, <3>2, OtherCondemned
  <2> QED
    BY <2>1, <2>2, <2>3, <2>4
<1>20. Confined(t)' /\ Sources(t)' /\ Newborn(t)'
  <2>1. Todo(work'[t]) = {}
    BY <1>6, <1>17
  <2> QED
    BY <1>6, <2>1 DEF Confined, Sources, Newborn, Todo
<1>21. Pending(t)' /\ Condemned(t)' /\ Loaded(t)'
  <2>1. seen[t] = None
    BY <1>2 DEF Safe, Loaded, Doing
  <2> QED
    BY <1>2, <1>18, <2>1 DEF Pending, Condemned, Loaded
<1>22. Tidy'
  <2>1. ASSUME NEW y \in Threads \ {t}
        PROVE  /\ Doing(y, "delete")' = Doing(y, "delete")
               /\ Doing(y, "delete") => Target(y)' = Target(y)
    BY <1>2, <1>5, <1>15, <1>17, Others DEF Doing
  <2>2. Todo(work[t]) = {Head(work[t])}
    BY <1>2, <1>4, <1>17, Micro
  <2>3. ~ Doing(t, "delete") /\ \A x : Step("set", x, None) # Head(work[t])
    BY <1>2 DEF Doing, Step
  <2>4. to \in Counted(o)'
    BY <1>6, <1>10 DEF Counted
  <2>5. \A x \in Objects : Counted(x) # {} => Counted(x)' # {}
    <3>1. \A x : x # o => Counted(x) \subseteq Counted(x)'
      BY <1>3, <1>6, <1>10 DEF Counted
    <3> QED
      BY <2>4, <3>1
  <2>6. \A x \in alive' : Counted(x) # {} => Counted(x)' # {}
    BY <1>2, <1>9, <2>5
  <2>7. \A x \in Objects : ref'[x] = ref[x]
    BY <1>8, <1>10 DEF Places
  <2>8. \A i \in Todo(work[t]) : Counted(i.arg)' # {}
    <3>1. \A i \in Todo(work[t]) : i.arg = o
      BY <1>1, <2>2
    <3> QED
      BY <2>4, <3>1
  <2>9. /\ alive' \ alive = {} /\ alive \ alive' = {}
        /\ \A x \in Objects : Step("set", x, None) \notin Todo(work[t])
    BY <1>2, <2>2, <2>3
  <2> QED
    BY <1>5, <1>17, <2>1, <2>3, <2>6, <2>7, <2>8, <2>9, TidyStep
<1> QED
  BY <1>6, <1>12, <1>13, <1>14, <1>19, <1>20, <1>21, <1>22 DEF Safe

-----------------------------------------------------------------------------
(* The specification.                                                      *)

LEMMA InitHolds == Init => IInv
<1> SUFFICES ASSUME Init PROVE IInv
  OBVIOUS
<1>1. Wrap \in Nat /\ 0 < Wrap
  BY RefCountAssumption, FS_CardinalityType
<1>2. Typed
  <2>1. TypeOK
    <3>1. work \in [Threads -> Seq(Steps)]
      BY Empty DEF Init
    <3>2. count \in [Objects -> 0 .. Wrap - 1]
      BY <1>1 DEF Init
    <3>3. ref \in [Places -> Objects \cup {None}] /\ owner \in [Slots -> Threads]
      BY RefCountAssumption DEF Init
    <3>4. unborn \in SUBSET Objects /\ alive \in SUBSET (Objects \ unborn) /\ lost \in BOOLEAN
      BY DEF Init
    <3>5. seen \in [Threads -> (0 .. Wrap - 1) \cup {None}]
      BY DEF Init
    <3> QED
      BY <3>1, <3>2, <3>3, <3>4, <3>5 DEF TypeOK
  <2>2. \A t \in Threads : Shape(work[t])
    BY Empty DEF Init
  <2> QED
    BY <2>1, <2>2 DEF Typed
<1>3. \A t \in Threads : work[t] = <<>> /\ seen[t] = None /\ Busy(t) = {} /\ Todo(work[t]) = {}
  <2>1. \A t \in Threads : work[t] = <<>> /\ seen[t] = None
    BY DEF Init
  <2>2. \A t \in Threads : Busy(t) = {} /\ Todo(work[t]) = {}
    BY <1>2, <2>1, Work, Empty
  <2> QED
    BY <2>1, <2>2
<1>4. Excl /\ OwnSlots /\ Born
  BY <1>3 DEF Excl, OwnSlots, Born
<1>5. Unborn /\ NoneDead /\ Exact
  BY RefCountAssumption DEF Init, Unborn, NoneDead, Exact, Places
<1>6. \A t \in Threads : /\ Confined(t) /\ Sources(t) /\ Pending(t)
                         /\ Newborn(t) /\ Condemned(t) /\ Loaded(t)
  BY <1>3 DEF Confined, Sources, Pending, Newborn, Condemned, Loaded, Doing
<1>7. Tidy
  BY <1>3, RefCountAssumption DEF Init, Tidy, Kept, Cleared, Written, Places
<1> QED
  BY <1>2, <1>4, <1>5, <1>6, <1>7 DEF IInv, Safe

LEMMA OperationSafe ==
  ASSUME Typed, Safe, NEW t \in Threads, Operation(t)
  PROVE  Typed' /\ Safe'
<1>1. CASE \E to \in Own(t) \cup Private(t), from \in Places :
             from \in Own(t) \cup Held(t, Own(t) \ {to}) /\ Assign(t, to, from)
  BY <1>1, AssignSafe
<1>2. CASE \E to \in Own(t) \cup Private(t) : Clear(t, to)
  BY <1>2, ClearSafe
<1>3. CASE \E to \in Own(t), o \in Objects, from \in Own(t) \cup {None} : Make(t, to, o, from)
  BY <1>3, MakeSafe
<1>4. CASE \E u \in Threads \ {t}, s \in Own(t) : Give(t, u, s)
  BY <1>4, GiveSafe
<1> QED
  BY <1>1, <1>2, <1>3, <1>4 DEF Operation

LEMMA MicroStepSafe ==
  ASSUME Typed, Safe, NEW t \in Threads, MicroStep(t)
  PROVE  Typed' /\ (~ lost' => Safe')
<1>1. CASE Load(t)
  BY <1>1, LoadSafe
<1>2. CASE RefNothing(t)
  BY <1>2, RefNothingSafe
<1>3. CASE RefPlain(t)
  BY <1>3, RefPlainSafe
<1>4. CASE RefAtomic(t)
  BY <1>4, RefAtomicSafe
<1>5. CASE UnrefPlain(t)
  BY <1>5, UnrefPlainSafe
<1>6. CASE UnrefAtomic(t)
  BY <1>6, UnrefAtomicSafe
<1>7. CASE Delete(t)
  BY <1>7, DeleteSafe
<1>8. CASE Set(t)
  BY <1>8, SetSafe
<1>9. CASE InitRef(t)
  BY <1>9, InitRefSafe
<1> QED
  BY <1>1, <1>2, <1>3, <1>4, <1>5, <1>6, <1>7, <1>8, <1>9 DEF MicroStep

\* After a lost update there is no step.
LEMMA NotLost ==
  ASSUME Next
  PROVE  ~ lost
<1>1. PICK t \in Threads : Operation(t) \/ MicroStep(t)
  BY DEF Next
<1>2. CASE Operation(t)
  BY <1>2 DEF Operation, Assign, Clear, Make, Give, Idle
<1>3. CASE MicroStep(t)
  BY <1>3 DEF MicroStep, Load, RefNothing, RefPlain, RefAtomic, UnrefPlain, UnrefAtomic, Delete,
              Set, InitRef, Doing
<1> QED
  BY <1>1, <1>2, <1>3

LEMMA StepHolds == IInv /\ [Next]_vars => IInv'
<1> SUFFICES ASSUME IInv, [Next]_vars PROVE IInv'
  OBVIOUS
<1>1. CASE Next
  <2>1. Typed /\ Safe
    BY <1>1, NotLost DEF IInv
  <2>2. PICK t \in Threads : Operation(t) \/ MicroStep(t)
    BY <1>1 DEF Next
  <2>3. Typed' /\ (~ lost' => Safe')
    BY <2>1, <2>2, OperationSafe, MicroStepSafe
  <2> QED
    BY <2>3 DEF IInv
<1>2. CASE UNCHANGED vars
  <2>1. UNCHANGED <<ref, count, unborn, alive, owner, work, seen, lost>>
    BY <1>2 DEF vars
  <2>2. TypeOK'
    BY <2>1 DEF IInv, Typed, TypeOK
  <2>3. (\A v \in Threads : Shape(work[v]))'
    <3>1. \A v \in Threads : Shape(work'[v])
      BY <2>1 DEF IInv, Typed
    <3> QED
      BY <3>1 DEF Shape, ReleaseFirst, SetThenRef, RefAfterSet, InitLast, Ats, Todo
  <2>4. /\ \A v \in Threads : Busy(v)' = Busy(v) /\ Own(v)' = Own(v)
        /\ HalfDone' = HalfDone /\ \A o : Counted(o)' = Counted(o)
        /\ \A v, f : Source(v, f)' <=> Source(v, f)
    BY <2>1 DEF Busy, Own, HalfDone, Counted, At, Source
  <2>5. ASSUME Safe PROVE Safe'
    <3>1. Excl' /\ OwnSlots' /\ Born' /\ Unborn' /\ NoneDead' /\ Exact'
      BY <2>1, <2>4, <2>5 DEF Safe, Excl, OwnSlots, Born, Unborn, NoneDead, Exact
    <3>2. ASSUME NEW v \in Threads
          PROVE  /\ Confined(v)' /\ Sources(v)' /\ Pending(v)'
                 /\ Newborn(v)' /\ Condemned(v)' /\ Loaded(v)'
      <4>1. Confined(v)' /\ Sources(v)' /\ Newborn(v)'
        BY <2>1, <2>4, <2>5 DEF Safe, Confined, Sources, Newborn, Todo
      <4>2. Pending(v)' /\ Condemned(v)' /\ Loaded(v)'
        BY <2>1, <2>4, <2>5 DEF Safe, Pending, Condemned, Loaded, Doing, Target, At
      <4> QED
        BY <4>1, <4>2
    <3>3. Kept' /\ Cleared' /\ Written'
      BY <2>1, <2>4, <2>5 DEF Safe, Tidy, Kept, Cleared, Written, Doing, Target, At, Step, Todo
    <3> QED
      BY <3>1, <3>2, <3>3 DEF Safe, Tidy
  <2> QED
    BY <2>1, <2>2, <2>3, <2>5 DEF IInv, Typed
<1> QED
  BY <1>1, <1>2

LEMMA Invariant == Spec => []IInv
  BY InitHolds, StepHolds, PTL DEF Spec

(* The variables have their types, whether or not an update was lost: no   *)
(* counter leaves its range and no operation makes a step that is none.    *)
THEOREM TypeCorrect == Spec => []TypeOK
<1>1. IInv => TypeOK
  BY DEF IInv, Typed
<1> QED
  BY <1>1, Invariant, PTL

(* As long as no plain counter lost an update, the count of every object   *)
(* is the number of Refs to it, for any number of threads, Refs and        *)
(* objects, in whatever order Ref::ref, Ref::unref and operator= overlap.  *)
THEOREM CountsExact == Spec => []CountExact
<1>1. IInv => CountExact
  BY DEF IInv, Safe, Exact, CountExact
<1> QED
  BY <1>1, Invariant, PTL

(* As long as no plain counter lost an update, no Ref points to a deleted  *)
(* object, one operation deletes each object, when no Ref is left (the     *)
(* delete of Ref::unref), and Ref::ref never meets a count of zero.        *)
THEOREM NothingDangles == Spec => []NoDangling
<1>1. IInv => NoDangling
  <2> SUFFICES ASSUME Safe PROVE NoDangling
    BY DEF IInv, NoDangling
  <2>1. \A t \in Threads : Doing(t, "ref") => seen[t] # 0
    BY RefCountAssumption DEF Safe, Loaded, Doing
  <2> QED
    BY <2>1 DEF Safe, NoneDead, Condemned, NoDangling
<1> QED
  BY <1>1, Invariant, PTL

-----------------------------------------------------------------------------
(* What members lead to.                                                   *)

\* Objects that are all pointed to from among themselves form cycles.
LEMMA Cycles ==
  ASSUME NEW U \in SUBSET Objects, IsFiniteSet(U), \A o \in U : \E p \in U : ref[p] = o
  PROVE  \A o \in U : ref[o] \in U /\ o \in Reach({ref[o]})
<1> DEFINE from == [o \in U |-> CHOOSE p \in U : ref[p] = o]
<1>1. from \in [U -> U] /\ \A o \in U : ref[from[o]] = o
  OBVIOUS
<1> HIDE DEF from
<1>2. from \in Injection(U, U)
  BY <1>1 DEF Injection, IsInjective
<1>3. \A p \in U : \E o \in U : from[o] = p
  BY <1>2, FS_Injection DEF Surjection
<1>4. \A p \in U : ref[p] \in U
  BY <1>1, <1>3
<1>5. \A p, q \in U : ref[p] = ref[q] => p = q
  BY <1>1, <1>3
<1>6. ASSUME NEW o \in U, NEW S \in SUBSET Objects, {ref[o]} \subseteq S, Closed(S)
      PROVE  o \in S
  <2> DEFINE T == S \cap U
             along == [p \in T |-> ref[p]]
  <2>1. \A p \in T : ref[p] \in T
    <3>1. None \notin U
      BY RefCountAssumption DEF Places
    <3> QED
      BY <1>4, <1>6, <3>1 DEF Closed
  <2>2. along \in Injection(T, T)
    BY <1>5, <2>1 DEF Injection, IsInjective
  <2>3. IsFiniteSet(T)
    BY FS_Subset
  <2>4. ref[o] \in T
    BY <1>4, <1>6
  <2>5. \A p \in T : along[p] = ref[p]
    OBVIOUS
  <2>6. T \subseteq U /\ T \subseteq S
    OBVIOUS
  <2> HIDE DEF T, along
  <2>7. \E c \in T : along[c] = ref[o]
    BY <2>2, <2>3, <2>4, FS_Injection DEF Surjection
  <2> QED
    BY <1>5, <2>5, <2>6, <2>7
<1> QED
  BY <1>4, <1>6 DEF Reach

LEMMA ReachCloses ==
  ASSUME NEW from \in SUBSET Objects, ref \in [Places -> Objects \cup {None}]
  PROVE  from \subseteq Reach(from) /\ Closed(Reach(from))
<1>1. from \subseteq Reach(from)
  BY DEF Reach
<1>2. ASSUME NEW o \in Reach(from) PROVE ref[o] \in Reach(from) \cup {None}
  <2>1. o \in Objects /\ ref[o] \in Objects \cup {None}
    BY DEF Reach, Places
  <2>2. ASSUME NEW S \in SUBSET Objects, from \subseteq S, Closed(S) PROVE ref[o] \in S \cup {None}
    BY <2>2 DEF Reach, Closed
  <2> QED
    BY <2>1, <2>2 DEF Reach
<1> QED
  BY <1>1, <1>2 DEF Closed

\* Between operations every object is held, and what is gone holds nothing.
LEMMA AllHeld ==
  ASSUME Typed, Safe, \A t \in Threads : work[t] = <<>>
  PROVE  /\ \A o \in alive : \E p \in Places : ref[p] = o
         /\ \A o \in Objects \ alive : ref[o] = None
<1>1. \A t \in Threads : Todo(work[t]) = {} /\ ~ Doing(t, "delete")
  BY Empty DEF Doing
<1>2. ASSUME NEW o \in alive PROVE \E p \in Places : ref[p] = o
  <2>1. Counted(o) # {}
    BY <1>1 DEF Safe, Tidy, Kept
  <2> QED
    BY <2>1 DEF Counted
<1>3. \A o \in Objects \ alive : ref[o] = None
  BY <1>1 DEF Safe, Tidy, Cleared
<1> QED
  BY <1>2, <1>3

(* "Cleaned-up automatically, as long as there's no nested reference"      *)
(* (README.md): between operations an object that is left can be reached   *)
(* from a slot, or members lead to it from a cycle.  The others would each *)
(* be held by another of them, and so form cycles themselves.              *)
THEOREM CleansUp == Spec => []CleanedUp
<1>1. IInv => CleanedUp
  <2> SUFFICES ASSUME IInv, ~ lost, \A t \in Threads : Idle(t)
               PROVE  alive \subseteq Reach(({ref[s] : s \in Slots} \ {None}) \cup Cyclic)
    BY DEF CleanedUp
  <2> DEFINE from == ({ref[s] : s \in Slots} \ {None}) \cup Cyclic
             U == alive \ Reach(from)
  <2>1. Typed /\ Safe /\ \A t \in Threads : work[t] = <<>>
    BY DEF IInv, Idle
  <2>2. /\ ref \in [Places -> Objects \cup {None}] /\ alive \subseteq Objects
        /\ Slots \subseteq Places /\ Objects \subseteq Places /\ None \notin Objects
    BY <2>1, RefCountAssumption DEF Typed, TypeOK, Places
  <2>3. from \in SUBSET Objects
    BY <2>2 DEF Cyclic
  <2>4. /\ \A o \in alive : \E p \in Places : ref[p] = o
        /\ \A o \in Objects \ alive : ref[o] = None
    BY <2>1, AllHeld
  <2>5. /\ \A s \in Slots : ref[s] # None => ref[s] \in from
        /\ Cyclic \subseteq from
    OBVIOUS
  <2> HIDE DEF from
  <2>6. from \subseteq Reach(from) /\ Closed(Reach(from))
    BY <2>2, <2>3, ReachCloses
  <2>7. ASSUME NEW o \in U PROVE \E p \in U : ref[p] = o
    <3>1. o \in alive /\ o \in Objects /\ o \notin Reach(from)
      BY <2>2
    <3>2. PICK p \in Places : ref[p] = o
      BY <2>4, <3>1
    <3>3. o # None
      BY <2>2, <3>1
    <3>4. p \notin Slots
      BY <2>5, <2>6, <3>1, <3>2, <3>3
    <3>5. p \in Objects /\ p \in alive
      BY <2>4, <3>2, <3>3, <3>4 DEF Places
    <3>6. p \notin Reach(from)
      BY <2>6, <3>1, <3>2, <3>3 DEF Closed
    <3> QED
      BY <3>2, <3>5, <3>6
  <2>8. U \in SUBSET Objects /\ IsFiniteSet(U)
    <3>1. U \in SUBSET Objects /\ U \in SUBSET Places
      BY <2>2
    <3> HIDE DEF U
    <3> QED
      BY <3>1, RefCountAssumption, FS_Subset
  <2>9. ASSUME NEW o \in U PROVE FALSE
    <3>1. ref[o] \in U /\ o \in Reach({ref[o]})
      <4> HIDE DEF U
      <4> QED
        BY <2>7, <2>8, <2>9, Cycles
    <3>2. o \in Cyclic
      BY <2>2, <3>1 DEF Cyclic
    <3> QED
      BY <2>5, <2>6, <3>2
  <2> QED
    BY <2>9 DEF from
<1> QED
  BY <1>1, Invariant, PTL
=============================================================================
