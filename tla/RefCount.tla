------------------------------ MODULE RefCount ------------------------------
(***************************************************************************)
(* Ref<T> (helper.h) over its two reference counters: ThreadSafeObject,    *)
(* whose SafeRefCount (safe_refcount.h) is atomic, and ThreadUnsafeObject, *)
(* whose counter is a plain integer, loaded and stored.                    *)
(*                                                                         *)
(* A place is a variable that holds a Ref: a slot (a local variable or the *)
(* copy bound into a queued task, which changes threads with Give), or the *)
(* one Ref member of an object, written as the object itself.  A thread    *)
(* works off the micro-steps of one operation on a Ref at a time.          *)
(*                                                                         *)
(* Left out: assigning from a member of the very object the target lets    *)
(* go of (no statement of src does it), and what follows a lost update of  *)
(* a plain counter, which is a data race: there the model stops.           *)
(***************************************************************************)
EXTENDS Naturals, Sequences, FiniteSets

CONSTANTS Threads,
          Slots,
          FirstOwner,    \* slot -> the thread that has it at first
          Objects,       \* addresses; one is not allocated a second time
          Plain,         \* the objects that are ThreadUnsafeObjects
          Wrap,          \* 2^32, the number of values of a counter
          None           \* nullptr

Places == Slots \cup Objects

ASSUME RefCountAssumption ==
  /\ FirstOwner \in [Slots -> Threads]
  /\ Plain \subseteq Objects
  /\ Slots \cap Objects = {}
  /\ None \notin Places \cup Nat
  /\ IsFiniteSet(Places)
  /\ Wrap \in Nat /\ Wrap > Cardinality(Places)

VARIABLES ref,      \* place -> the object it points to
          count,    \* object -> refcount
          unborn,   \* the objects that are yet to be allocated
          alive,    \* those allocated and not deleted
          owner,    \* slot -> the thread that may use it
          work,     \* thread -> the micro-steps it still has to do
          seen,     \* thread -> the count it loaded for its next store
          lost      \* a plain counter was overwritten with a stale value

vars == <<ref, count, unborn, alive, owner, work, seen, lost>>

Step(do, at, arg) == [do |-> do, at |-> at, arg |-> arg]
Steps == [do : {"unref", "delete", "set", "ref", "init"},
          at : Places, arg : Places \cup {None}]

TypeOK ==
  /\ ref \in [Places -> Objects \cup {None}]
  /\ count \in [Objects -> 0 .. Wrap - 1]
  /\ unborn \in SUBSET Objects
  /\ alive \in SUBSET (Objects \ unborn)
  /\ owner \in [Slots -> Threads]
  /\ work \in [Threads -> Seq(Steps)]
  /\ seen \in [Threads -> (0 .. Wrap - 1) \cup {None}]
  /\ lost \in BOOLEAN

Init ==
  /\ ref = [p \in Places |-> None]
  /\ count = [o \in Objects |-> 0]
  /\ unborn = Objects
  /\ alive = {}
  /\ owner = FirstOwner
  /\ work = [t \in Threads |-> <<>>]
  /\ seen = [t \in Threads |-> None]
  /\ lost = FALSE

-----------------------------------------------------------------------------
(* The operations, each as the micro-steps it is made of.                  *)

Idle(t) == ~ lost /\ work[t] = <<>>
Own(t) == {s \in Slots : owner[s] = t}
Held(t, slots) == {ref[s] : s \in slots} \ {None}

\* The members only t can reach: those of objects that only its slots hold.
Private(t) == {o \in Held(t, Own(t)) : \A p \in Places : ref[p] = o => p \in Own(t)}

Release(p) == IF ref[p] = None THEN <<>> ELSE <<Step("unref", p, None)>>

\* operator=(const Ref&), the copy constructor and c_style_cast.
MutAssign(t, to, from) ==          \* the new object is not referenced
  /\ Idle(t)
  /\ ref[from] # ref[to]
  /\ work' = [work EXCEPT ![t] = Release(to) \o <<Step("set", to, from)>>]
  /\ UNCHANGED <<ref, count, unborn, alive, owner, seen, lost>>
Assign(t, to, from) ==
  /\ Idle(t)
  /\ ref[from] # ref[to]
  /\ work' = [work EXCEPT ![t] = Release(to) \o
                 <<Step("set", to, from), Step("ref", to, None)>>]
  /\ UNCHANGED <<ref, count, unborn, alive, owner, seen, lost>>

\* operator=(nullptr) and the destructor.
Clear(t, to) ==
  /\ Idle(t)
  /\ ref[to] # None
  /\ work' = [work EXCEPT ![t] = Release(to) \o <<Step("set", to, None)>>]
  /\ UNCHANGED <<ref, count, unborn, alive, owner, seen, lost>>

\* make_ref: the constructor copies its argument into the member, then
\* from_uninitialized_object starts the count.
Make(t, to, o, from) ==
  /\ Idle(t)
  /\ ref[to] = None
  /\ o \in unborn
  /\ unborn' = unborn \ {o}
  /\ alive' = alive \cup {o}
  /\ work' = [work EXCEPT ![t] = <<Step("set", o, from), Step("ref", o, None),
                                   Step("init", to, o)>>]
  /\ UNCHANGED <<ref, count, owner, seen, lost>>

\* The queue of a handler hands the copy bound into a task to its thread.
Give(t, u, s) ==
  /\ Idle(t)
  /\ ref[s] # None
  /\ owner' = [owner EXCEPT ![s] = u]
  /\ UNCHANGED <<ref, count, unborn, alive, work, seen, lost>>

-----------------------------------------------------------------------------
(* The micro-steps.                                                        *)

Doing(t, do) == ~ lost /\ work[t] # <<>> /\ Head(work[t]).do = do
At(t) == Head(work[t]).at
Target(t) == ref[At(t)]
Then(t, steps) == work' = [work EXCEPT ![t] = steps \o Tail(work[t])]

\* The load of refcount: of ++ and --, and of conditional_increment.
Load(t) ==
  /\ Doing(t, "ref") \/ (Doing(t, "unref") /\ Target(t) \in Plain)
  /\ Target(t) # None
  /\ seen[t] = None
  /\ seen' = [seen EXCEPT ![t] = count[Target(t)]]
  /\ UNCHANGED <<ref, count, unborn, alive, owner, work, lost>>

\* The store of a plain counter.
Store(t, o, c) ==
  /\ count' = [count EXCEPT ![o] = c]
  /\ lost' = (count[o] # seen[t])
  /\ seen' = [seen EXCEPT ![t] = None]

\* ref() does nothing to a count of zero, and its result is not looked at.
RefNothing(t) ==
  /\ Doing(t, "ref")
  /\ Target(t) = None \/ seen[t] = 0
  /\ Then(t, <<>>)
  /\ seen' = [seen EXCEPT ![t] = None]
  /\ UNCHANGED <<ref, count, unborn, alive, owner, lost>>

RefPlain(t) ==
  /\ Doing(t, "ref")
  /\ Target(t) \in Plain
  /\ seen[t] \notin {None, 0}
  /\ Store(t, Target(t), (seen[t] + 1) % Wrap)
  /\ Then(t, <<>>)
  /\ UNCHANGED <<ref, unborn, alive, owner>>

\* conditional_increment: the weak exchange fails when the count is no longer
\* what was loaded, and may fail anyway; then it starts again from the load.
MutRefAtomic(t) ==                 \* stores without comparing
  /\ Doing(t, "ref")
  /\ Target(t) \in Objects \ Plain
  /\ seen[t] \notin {None, 0}
  /\ seen' = [seen EXCEPT ![t] = None]
  /\ count' = [count EXCEPT ![Target(t)] = (seen[t] + 1) % Wrap]
  /\ Then(t, <<>>)
  /\ UNCHANGED <<ref, unborn, alive, owner, lost>>
RefAtomic(t) ==
  /\ Doing(t, "ref")
  /\ Target(t) \in Objects \ Plain
  /\ seen[t] \notin {None, 0}
  /\ seen' = [seen EXCEPT ![t] = None]
  /\ \/ /\ count[Target(t)] = seen[t]
        /\ count' = [count EXCEPT ![Target(t)] = (seen[t] + 1) % Wrap]
        /\ Then(t, <<>>)
     \/ UNCHANGED <<count, work>>
  /\ UNCHANGED <<ref, unborn, alive, owner, lost>>

Less(c) == (c + Wrap - 1) % Wrap

AfterUnref(t, c) ==
  Then(t, IF c = 0 THEN <<Step("delete", At(t), None)>> ELSE <<>>)

UnrefPlain(t) ==
  /\ Doing(t, "unref")
  /\ Target(t) \in Plain
  /\ seen[t] # None
  /\ Store(t, Target(t), Less(seen[t]))
  /\ AfterUnref(t, Less(seen[t]))
  /\ UNCHANGED <<ref, unborn, alive, owner>>

UnrefAtomic(t) ==
  /\ Doing(t, "unref")
  /\ Target(t) \in Objects \ Plain
  /\ count' = [count EXCEPT ![Target(t)] = Less(count[Target(t)])]
  /\ AfterUnref(t, Less(count[Target(t)]))
  /\ UNCHANGED <<ref, unborn, alive, owner, seen, lost>>

\* delete reference: the virtual destructor releases the member, which may
\* delete the next object; then reference = nullptr.
MutDelete(t) ==                    \* the destructor of the base: not virtual
  /\ Doing(t, "delete")
  /\ alive' = alive \ {Target(t)}
  /\ Then(t, <<Step("set", Target(t), None), Step("set", At(t), None)>>)
  /\ UNCHANGED <<ref, count, unborn, owner, seen, lost>>
Delete(t) ==
  /\ Doing(t, "delete")
  /\ alive' = alive \ {Target(t)}
  /\ Then(t, Release(Target(t)) \o
             <<Step("set", Target(t), None), Step("set", At(t), None)>>)
  /\ UNCHANGED <<ref, count, unborn, owner, seen, lost>>

\* reference = p_from.reference; nullptr when arg is None.
MutSet(t) ==                       \* takes the place for the object in it
  /\ Doing(t, "set")
  /\ ref' = [ref EXCEPT ![At(t)] = Head(work[t]).arg]
  /\ Then(t, <<>>)
  /\ UNCHANGED <<count, unborn, alive, owner, seen, lost>>
Set(t) ==
  /\ Doing(t, "set")
  /\ LET from == Head(work[t]).arg
     IN  ref' = [ref EXCEPT ![At(t)] = IF from = None THEN None ELSE ref[from]]
  /\ Then(t, <<>>)
  /\ UNCHANGED <<count, unborn, alive, owner, seen, lost>>

\* init_ref(), and the Ref that from_uninitialized_object returns.
InitRef(t) ==
  /\ Doing(t, "init")
  /\ LET o == Head(work[t]).arg
     IN  /\ count' = [count EXCEPT ![o] = 1]
         /\ ref' = [ref EXCEPT ![At(t)] = o]
  /\ Then(t, <<>>)
  /\ UNCHANGED <<unborn, alive, owner, seen, lost>>

Operation(t) ==
  \/ \E to \in Own(t) \cup Private(t), from \in Places :
       /\ from \in Own(t) \cup Held(t, Own(t) \ {to})
       /\ Assign(t, to, from)
  \/ \E to \in Own(t) \cup Private(t) : Clear(t, to)
  \/ \E to \in Own(t), o \in Objects, from \in Own(t) \cup {None} :
       Make(t, to, o, from)
  \/ \E u \in Threads \ {t}, s \in Own(t) : Give(t, u, s)

MicroStep(t) ==
  \/ Load(t) \/ RefNothing(t) \/ RefPlain(t) \/ RefAtomic(t)
  \/ UnrefPlain(t) \/ UnrefAtomic(t) \/ Delete(t) \/ Set(t) \/ InitRef(t)

Next == \E t \in Threads : Operation(t) \/ MicroStep(t)

Spec == Init /\ [][Next]_vars

-----------------------------------------------------------------------------
(* Properties.                                                             *)

\* The places an operation is half through with: what they point to is not
\* counted for them, because it was released or is yet to be referenced.
Busy(t) == {work[t][k].at : k \in DOMAIN work[t]}
HalfDone ==
  {p \in Places : \E t \in Threads :
     p \in Busy(t) /\ ~ (Head(work[t]).do = "unref" /\ At(t) = p)}

Counted(o) == {p \in Places \ HalfDone : ref[p] = o}

\* As long as no update was lost, the count of an object is the number of
\* Refs to it, in whatever order threads copy, overwrite and drop theirs.
CountExact ==
  ~ lost => \A o \in alive : count[o] = Cardinality(Counted(o))

\* No Ref points to a deleted object; an object is deleted by the one
\* operation that let go of its last Ref (Ref::unref deletes on zero); and
\* ref() never finds a count of zero, which Ref::ref would not notice.
NoDangling ==
  ~ lost =>
    /\ \A p \in Places \ HalfDone : ref[p] \in alive \cup {None}
    /\ \A t \in Threads : Doing(t, "delete") =>
         /\ Target(t) \in alive
         /\ Counted(Target(t)) = {}
         /\ \A u \in Threads \ {t} : Doing(u, "delete") => Target(u) # Target(t)
    /\ \A t \in Threads : Doing(t, "ref") => seen[t] # 0

\* The objects members lead to from the given ones: those in every set that
\* has these and, with an object, the one its member points to.
Closed(S) == \A o \in S : ref[o] \in S \cup {None}
Reach(from) ==
  {o \in Objects : \A S \in SUBSET Objects : from \subseteq S /\ Closed(S) => o \in S}

Cyclic == {o \in alive : ref[o] # None /\ o \in Reach({ref[o]})}

\* "cleaned-up automatically, as long as there's no nested reference"
\* (README.md:51): between operations, an object no slot leads to is gone,
\* unless members form a cycle that leads to it.
CleanedUp ==
  (~ lost /\ \A t \in Threads : Idle(t)) =>
    alive \subseteq Reach(({ref[s] : s \in Slots} \ {None}) \cup Cyclic)
=============================================================================
