------------------------------ MODULE DataPath ------------------------------
(***************************************************************************)
(* What becomes of values in compiled code: a native caller calls a        *)
(* function through its trampoline, the function constructs and assigns    *)
(* variables, evaluates conditions, calls other functions, compiled or     *)
(* native, and returns a variable.  Its instructions are chosen, checked   *)
(* as the builder does and executed one by one; which of them are executed *)
(* is the matter of CompiledCode, where variables lie that of FrameLayout. *)
(*                                                                         *)
(* Beside what the code makes of a value is kept what the program means by *)
(* it: Unset if it does not say, or if it asks for something that the code *)
(* is known to do otherwise.                                               *)
(***************************************************************************)
EXTENDS Invocation

CONSTANTS
  Functions,        \* bound: the functions called, [sig, locals] with types of variables
  Callees,          \* bound: the signatures of the functions these call
  Immediates,       \* bound: type -> values that are passed and written as immediates
  MaxInstructions   \* bound: instructions of a function, its return not counted

\* No type is without size, and of each there is a greatest value to pass.
ASSUME ImmediatesAssumption ==
  \A t \in DOMAIN Immediates :
    /\ t \in Type /\ t.kind # "void" /\ t.size > 0
    /\ t.kind \in Integer \cup {"bool"} => t.size \in Size
    /\ Immediates[t] \subseteq Contents(t)
    /\ \E x \in Immediates[t] : \A y \in Immediates[t] : x >= y

\* Variables are of primitive types.
ASSUME FunctionsAssumption ==
  /\ \A f \in Functions :
       /\ f.sig.ret \in DOMAIN Immediates \cup {void}
       /\ f.sig.args \in Seq(DOMAIN Immediates)
       /\ f.locals \in Seq({ t \in DOMAIN Immediates : is_primitive(t) })
  /\ \A sig \in Callees : sig.ret \in DOMAIN Immediates \cup {void}
  /\ MaxInstructions \in Nat

VARIABLES
  function,         \* the function that is called
  outer,            \* the call of it
  locals, meant,    \* its variables: what is in them, what they are to hold
  condition,        \* the last condition: [taken, meant], as bits
  executed,         \* how many instructions have been executed
  inner,            \* the call an instruction makes, or none
  invocation,       \* [callee, target, received, returned]: who is called, the
                    \* variable for the return value, what got there and back
  result            \* what the caller got: [given, meant]

frameVars == <<locals, meant, condition, executed>>
vars == <<function, outer, frameVars, inner, invocation, result>>

none == [step |-> "none"]
idle == [callee |-> "none", target |-> {}, received |-> <<>>, returned |-> Unset]

\* The sequences with an element of choices[i] at each i.
Each(choices) ==
  { s \in [DOMAIN choices -> UNION Range(choices)] : \A i \in DOMAIN s : s[i] \in choices[i] }

TypeOf(v) == function.locals[v]
Nothing == [v \in DOMAIN function.locals |-> Unset]

Init ==
  /\ function \in Functions
  /\ LET args == function.sig.args
         passed(i) == { [given |-> x, meant |-> x] : x \in Immediates[args[i]] }
     IN  \E values \in Each([i \in DOMAIN args |-> passed(i)]) :
           outer = NewCall("native", function.sig, values)
  /\ locals = Nothing /\ meant = Nothing
  /\ condition = [taken |-> Unset, meant |-> Unset]
  /\ executed = 0
  /\ inner = none /\ invocation = idle
  /\ result = [given |-> Unset, meant |-> Unset]

-----------------------------------------------------------------------------
(* The instructions of the function.                                       *)

Executing == outer.step = "callee" /\ inner = none /\ Trap \notin Range(locals)

\* What an instruction reads: an immediate or a variable, with the values it may find.
Variable(v) ==
  [type |-> TypeOf(v), meant |-> meant[v],
   values |-> IF locals[v] = Unset THEN Immediates[TypeOf(v)] ELSE {locals[v]}]
Immediate(t, x) == [type |-> t, meant |-> x, values |-> {x}]

Variables(t) == { Variable(v) : v \in { w \in DOMAIN locals : TypeOf(w) = t } }

Write(v, x, m) ==
  /\ locals' = [locals EXCEPT ![v] = x]
  /\ meant' = [meant EXCEPT ![v] = m]

\* construct_from_immediate, construct_from_variable and the two assignments: of
\* primitives they are the same code. A variable is not copied to itself.
Copy(v) ==
  /\ LET others == { Variable(w) : w \in { w \in DOMAIN locals \ {v} : TypeOf(w) = TypeOf(v) } }
         immediates == { Immediate(TypeOf(v), x) : x \in Immediates[TypeOf(v)] }
     IN  \E o \in others \cup immediates : \E x \in o.values : Write(v, x, o.meant)
  /\ UNCHANGED <<condition, inner, invocation>>

\* construct_from_argument and assign_from_argument.
FromArgument(v, i) ==
  /\ function.sig.args[i] = TypeOf(v)
  /\ \E x \in Load(outer, args_map(function.sig, i), TypeOf(v)) :
       Write(v, x, outer.values[i].meant)
  /\ UNCHANGED <<condition, inner, invocation>>

\* An immediate in an expression: a floating point one is pushed, and push takes 32
\* bits. What is popped of a double is its lower half, unless it is 0.
Pushed(t, x) ==
  IF is_floating_point(t) /\ t.size = 8 /\ x # 0
  THEN [type |-> t, meant |-> Unset, values |-> Floats]
  ELSE Immediate(t, x)
Readable(t) == { Pushed(t, x) : x \in Immediates[t] } \cup Variables(t)

\* The operands of an expression the parser takes; of those it refuses for their types
\* only the pairs of different types are not formed.
Expressions(op) ==
  UNION { Readable(t) \X Readable(t) : t \in { t \in DOMAIN Immediates : Parses(op, t, t) } }
Known(op, l, r) ==
  Unset \notin {l.meant, r.meant} /\ Regular(op, l.type, l.meant, r.meant)

\* construct_from_primitive_atomic_expression and its assignment.
FromExpression(v, op, l, r) ==
  LET t == l.type
      meaning == IF ~ Known(op, l, r) THEN Unset
                 ELSE IF op \in Comparison THEN Bit(MeantComparison(op, t, l.meant, r.meant))
                 ELSE MeantNumber(op, t, l.meant, r.meant)
  IN  /\ ReturnType(op, t) = TypeOf(v)
      /\ \E x \in l.values, y \in r.values : \E z \in assigned(op, t, x, y) :
           Write(v, z, meaning)
      /\ UNCHANGED <<condition, inner, invocation>>

\* The condition of an if or a while.  Of a result only the lowest byte is looked
\* at, so that of several bytes the code does not do what is meant.
Test(op, l, r) ==
  LET t == l.type
      meaning == IF ~ Known(op, l, r) \/ (op \in Arithmetical /\ t.size # 1) THEN Unset
                 ELSE IF op \in Comparison THEN Bit(MeantComparison(op, t, l.meant, r.meant))
                 ELSE Bit(MeantNumber(op, t, l.meant, r.meant) # 0)
  IN  /\ \E x \in l.values, y \in r.values : \E b \in branches(op, t, x, y) :
           condition' = [taken |-> Bit(b), meant |-> meaning]
      /\ UNCHANGED <<locals, meant, inner, invocation>>

-----------------------------------------------------------------------------
(* Calls of other functions: to where a callee has read its arguments and  *)
(* returned, and back.                                                     *)

\* An argument of the function passed on is read through r11, which nothing has
\* loaded, and at an offset without the alignment args_map has.
Forwarded(t) == [type |-> t, meant |-> Unset, values |-> Immediates[t]]

\* Bound: one immediate of each type is passed and returned; variables have the others.
Sample(t) == Max(Immediates[t])

Passable(t, forwarded) ==
  {Immediate(t, Sample(t))} \cup Variables(t) \cup
    { Forwarded(t) : i \in { i \in DOMAIN function.sig.args :
                              forwarded /\ function.sig.args[i] = t } }

\* Bound: the values passed to a function that takes two at most are looked at.
ArgumentTypes == SeqOf(DOMAIN Immediates, 2)

Invoke(sig, callee, types, forwarded, target) ==
  LET given(o) == { [given |-> x, meant |-> o.meant] : x \in o.values }
      passable(i) == UNION { given(o) : o \in Passable(types[i], forwarded) }
  IN  /\ MayInvoke(function.sig.args, sig, callee # "compiled", types, forwarded,
                   { TypeOf(v) : v \in target })
      /\ \E values \in Each([i \in DOMAIN types |-> passable(i)]) :
           inner' = NewCall("compiled", sig, values)
      /\ invocation' = [idle EXCEPT !.callee = callee, !.target = target]
      /\ UNCHANGED <<locals, meant, condition>>

InnerStep == UNCHANGED <<function, outer, condition, executed, result>>

PassInner ==
  /\ inner.step = "pass"
  /\ IF More(inner) THEN inner' \in PassArgument(inner) ELSE inner' = Enter(inner)
  /\ UNCHANGED <<locals, meant, invocation>> /\ InnerStep

\* The callee returns one of its arguments or some other value.
ServeInner ==
  /\ inner.step = "callee"
  /\ LET sig == inner.sig
         found == [i \in DOMAIN sig.args |-> Receive(inner, invocation.callee, i)]
     IN  \E received \in Each(found) :
           LET same == { received[i] : i \in { j \in DOMAIN sig.args : sig.args[j] = sig.ret } }
           IN  \E x \in IF sig.ret = void THEN {Unset} ELSE same \cup {Sample(sig.ret)} :
                 /\ inner' = Leave(inner, x)
                 /\ invocation' = [invocation EXCEPT !.received = received, !.returned = x]
  /\ UNCHANGED <<locals, meant>> /\ InnerStep

DropInner ==
  /\ inner.step = "drop" /\ More(inner)
  /\ inner' \in DropArgument(inner)
  /\ UNCHANGED <<locals, meant, invocation>> /\ InnerStep

\* What is returned is meant to arrive.  The destructor of an argument may have
\* written over it.
TakeInner ==
  /\ inner.step = "drop" /\ ~ More(inner)
  /\ inner' \in TakeReturn(inner)
  /\ LET v == CHOOSE v \in invocation.target : TRUE
     IN  IF invocation.target = {} THEN UNCHANGED <<locals, meant>>
         ELSE \E x \in Taken(inner) :
                Write(v, x, IF Objects(inner) = {} THEN invocation.returned ELSE Unset)
  /\ UNCHANGED invocation /\ InnerStep

Resume ==
  /\ inner.step = "done"
  /\ inner' = none /\ invocation' = idle
  /\ UNCHANGED <<locals, meant>> /\ InnerStep

-----------------------------------------------------------------------------
(* The call of the function itself.                                        *)

PassOuter ==
  /\ outer.step = "pass"
  /\ IF More(outer) THEN outer' \in PassArgument(outer) ELSE outer' = Enter(outer)
  /\ UNCHANGED <<function, frameVars, inner, invocation, result>>

\* The variable is copied to the bottom of the space, and the frame is left.
Return ==
  /\ Executing
  /\ IF function.sig.ret = void THEN outer' = Leave(outer, Unset) /\ UNCHANGED result
     ELSE \E v \in DOMAIN locals :
            /\ TypeOf(v) = function.sig.ret
            /\ \E x \in Variable(v).values : outer' = Leave(outer, x)
            /\ result' = [result EXCEPT !.meant = meant[v]]
  /\ locals' = Nothing /\ meant' = Nothing
  /\ condition' = [taken |-> Unset, meant |-> Unset]
  /\ UNCHANGED <<function, executed, inner, invocation>>

TakeOuter ==
  /\ outer.step = "take"
  /\ outer' \in TakeReturn(outer)
  /\ IF function.sig.ret = void THEN UNCHANGED result
     ELSE \E x \in Taken(outer) : result' = [result EXCEPT !.given = x]
  /\ UNCHANGED <<function, frameVars, inner, invocation>>

DropOuter ==
  /\ outer.step = "drop"
  /\ IF More(outer) THEN outer' \in DropArgument(outer)
     ELSE outer' = [outer EXCEPT !.step = "done"]
  /\ UNCHANGED <<function, frameVars, inner, invocation, result>>

Instruction ==
  \/ \E v \in DOMAIN locals :
       \/ Copy(v)
       \/ \E i \in DOMAIN function.sig.args : FromArgument(v, i)
       \/ \E op \in Operation : \E e \in Expressions(op) : FromExpression(v, op, e[1], e[2])
  \/ \E op \in Operation : \E e \in Expressions(op) : Test(op, e[1], e[2])
  \/ \E sig \in Callees, callee \in {"compiled", "gcc", "clang"}, types \in ArgumentTypes,
        forwarded \in BOOLEAN, target \in {{}} \cup { {v} : v \in DOMAIN locals } :
       Invoke(sig, callee, types, forwarded, target)

Execute ==
  /\ Executing /\ executed < MaxInstructions
  /\ executed' = executed + 1
  /\ Instruction
  /\ UNCHANGED <<function, outer, result>>

Next ==
  \/ PassOuter \/ Execute \/ Return \/ TakeOuter \/ DropOuter
  \/ PassInner \/ ServeInner \/ DropInner \/ TakeInner \/ Resume

Spec == Init /\ [][Next]_vars

-----------------------------------------------------------------------------
(* Properties.                                                             *)

Fits(c) ==
  \A a \in DOMAIN c.cells : /\ a >= 0
                           /\ a + c.cells[a].type.size <= calculate_args_space(c.sig)

\* Values are of the types of what holds them, a call is at one of its arguments, and
\* neither caller nor callee writes outside the argument space.
TypeOK ==
  /\ function \in Functions /\ executed \in 0 .. MaxInstructions
  /\ DOMAIN locals = DOMAIN function.locals /\ DOMAIN meant = DOMAIN function.locals
  /\ \A v \in DOMAIN function.locals :
       /\ locals[v] \in Values(TypeOf(v)) \cup {Unset, Trap}
       /\ meant[v] \in Values(TypeOf(v)) \cup {Unset}
  /\ {condition.taken, condition.meant} \subseteq {0, 1, Unset}
  /\ outer.step \in {"pass", "callee", "take", "drop", "done"}
  /\ inner = none \/ inner.step \in {"pass", "callee", "drop", "done"}
  /\ \A c \in {outer, inner} \ {none} : c.i \in 1 .. Len(c.sig.args) + 1 /\ Fits(c)

\* Arguments, variables, immediates, results of operations and return values: wherever
\* the program determines a value, the code has it - in the variable, in the branch it
\* takes and at the caller - and it has not died of a division.
MeansWhatItSays ==
  /\ \A v \in DOMAIN meant : meant[v] # Unset => locals[v] = meant[v]
  /\ condition.meant # Unset => condition.taken = condition.meant
  /\ result.given # Unset /\ result.meant # Unset => result.given = result.meant

\* A callee, compiled or native, finds what compiled code has passed, though caller and
\* callee each work the addresses out for themselves.
ArgumentsArrive ==
  inner.step \in {"drop", "done"} /\ PassesRight(inner) =>
    \A i \in DOMAIN inner.values :
      inner.values[i].meant # Unset => invocation.received[i] = inner.values[i].meant

\* For every object a call makes in its space the destructor is called once, with the
\* address it was made at, and it is called for nothing else.  Native code calls it
\* while the object is still there.  Compiled code need not: it has given the space
\* back, and the call writes over the top of it (Overrun), so of it no more than this can be said.
ObjectsBalanced ==
  \A c \in {outer, inner} \ {none} :
    PassesRight(c) /\ CleansUpRight(c) =>
      /\ ~ c.astray
      /\ c.caller = "native" => ~ c.spoiled
      /\ c.step = "done" => c.alive = {}
=============================================================================
