----------------------------- MODULE Invocation -----------------------------
(***************************************************************************)
(* One call through an argument space: the caller, native                  *)
(* (InstanceTrampoline::call_internal, orchestrator.h) or compiled         *)
(* (invoke_function, jit_x86_64.cpp), copies the arguments into it, the    *)
(* callee finds them there and leaves its return value, and the caller     *)
(* takes that and destroys what it made.  Each side computes the addresses *)
(* for itself.  Addresses count from the bottom of the space.              *)
(*                                                                         *)
(* Compiled code walks the space with r10 and keeps its bottom in r11,     *)
(* which a function it calls may change: a copy constructor or destructor  *)
(* does or does not.                                                       *)
(***************************************************************************)
EXTENDS Arithmetic, SequencesExt

CONSTANT Payload          \* the values of objects

Unset == -2               \* a value the program does not determine
Wild == -1                \* the address in a register something has changed

void == [kind |-> "void", size |-> 0]
IsObject(type) == ~ is_primitive(type)
Contents(type) == IF IsObject(type) THEN Payload ELSE Values(type)

\* sig: [ret, args], the types of a function.
simple_16_bit_align(n) == ((n + 15) \div 16) * 16
SizeOf(args) == FoldLeft(LAMBDA total, type : total + type.size, 0, args)
UpTo(args, i) == SizeOf(SubSeq(args, 1, i))
calculate_args_space(sig) == simple_16_bit_align(sig.ret.size + SizeOf(sig.args))

\* What invoke_jit and invoke_native accept; types are those of the values passed,
\* result those of the variable for the return value, if there is one.  That the
\* function around the call takes as many arguments as its callee is checked, too.
MayInvoke(parent, sig, native, types, forwarded, result) ==
  /\ \A type \in result : type = sig.ret
  /\ Len(parent) = Len(sig.args) /\ Len(sig.args) = Len(types)
  /\ types = sig.args
  /\ native => ~ forwarded

-----------------------------------------------------------------------------
(* Where the callee finds its ith argument.                                *)

\* create_frame_report, for compiled code.
args_map(sig, i) == calculate_args_space(sig) - UpTo(sig.args, i)

\* NativeTrampoline::pass_arg: clang reads the arguments from left to right and
\* walks down, gcc from right to left and walks up.
MutRightToLeft(sig, i) == sig.ret.size + SizeOf(sig.args) - UpTo(sig.args, i)
RightToLeft(sig, i) ==
  LET combined == SizeOf(sig.args)
      floor == calculate_args_space(sig) - combined
      passed == SubSeq(sig.args, i + 1, Len(sig.args))
  IN  floor + SizeOf(passed)
LeftToRight(sig, i) ==
  LET ceil == calculate_args_space(sig)
  IN  ceil - UpTo(sig.args, i - 1) - sig.args[i].size

Found(callee, sig, i) ==
  CASE callee = "compiled" -> args_map(sig, i)
    [] callee = "gcc" -> RightToLeft(sig, i)
    [] callee = "clang" -> LeftToRight(sig, i)

-----------------------------------------------------------------------------
(* A call: its caller ("native" or "compiled") and signature, the values   *)
(* passed, each as it is given and as it is meant, the argument i it is    *)
(* at, the register that walks the space and r11, the contents of the      *)
(* space by address, the addresses of its objects, whether a destructor    *)
(* was called elsewhere (astray), and whether one was called on an object  *)
(* that something had been written over (spoiled).                         *)

NewCall(caller, sig, values) ==
  [caller |-> caller, sig |-> sig, values |-> values, step |-> "pass", i |-> 1,
   walk |-> calculate_args_space(sig), r11 |-> Wild,
   cells |-> <<>>, alive |-> {}, astray |-> FALSE, spoiled |-> FALSE]

type(c) == c.sig.args[c.i]
More(c) == c.i <= Len(c.sig.args)

\* Writing at an address ends what lay in its way.
Store(c, a, t, x) ==
  LET apart(b) == b + c.cells[b].type.size <= a \/ a + t.size <= b
      kept == { b \in DOMAIN c.cells : apart(b) }
  IN  IF a = Wild THEN c
      ELSE [c EXCEPT !.cells = [b \in kept \cup {a} |->
                                  IF b = a THEN [type |-> t, value |-> x] ELSE c.cells[b]],
                     !.alive = IF IsObject(t) THEN @ \cup {a} ELSE @]

Holding(c, a, t) == a \in DOMAIN c.cells /\ c.cells[a].type = t
Load(c, a, t) == IF Holding(c, a, t) THEN {c.cells[a].value} ELSE Contents(t)

Destroy(c, a, t) ==
  IF ~ IsObject(t) THEN c
  ELSE [c EXCEPT !.alive = @ \ {a},
                 !.astray = @ \/ a \notin c.alive,
                 !.spoiled = @ \/ ~ Holding(c, a, t)]

Below(a, t) == IF a = Wild THEN Wild ELSE a - t.size
\* A register after a call on an object of compiled code's.
Called(c, t, register) ==
  IF c.caller = "compiled" /\ IsObject(t) THEN {register, Wild} ELSE {register}

\* move_argument; the first loop of invoke_function.  Both walk down.
MutPassArgument(c) ==     \* writes before it moves
  { [Store(c, c.walk, type(c), c.values[c.i].given) EXCEPT !.i = @ + 1, !.walk = r] :
      r \in Called(c, type(c), Below(c.walk, type(c))) }
PassArgument(c) ==
  LET a == Below(c.walk, type(c))
  IN  { [Store(c, a, type(c), c.values[c.i].given) EXCEPT !.i = @ + 1, !.walk = r] :
          r \in Called(c, type(c), a) }

Enter(c) == [c EXCEPT !.step = "callee"]

Receive(c, callee, i) == Load(c, Found(callee, c.sig, i), c.sig.args[i])

\* The callee has left x at the bottom (x is not used if it returns nothing); where
\* the caller starts to clean up.
Leave(c, x) ==
  LET left == IF c.sig.ret.size = 0 THEN c ELSE Store(c, 0, c.sig.ret, x)
  IN  IF c.caller = "native" THEN [left EXCEPT !.step = "take", !.walk = 0]
      ELSE [left EXCEPT !.step = "drop", !.i = 1, !.walk = calculate_args_space(c.sig),
                        !.r11 = 0]

\* Compiled code gives the space back before it cleans up in it.  Any call from then
\* on pushes its return address over the top eight bytes, and of what lies below them
\* its frame spares some or nothing.
Overrun(c) ==
  LET clear == { b \in DOMAIN c.cells :
                   b + c.cells[b].type.size <= calculate_args_space(c.sig) - 8 }
  IN  { [c EXCEPT !.cells = Restrict(c.cells, spared)] : spared \in SUBSET clear }
Collapsed(c, t) == IF c.caller = "compiled" /\ IsObject(t) THEN Overrun(c) ELSE {c}

\* destruct_argument walks up from the return value, in the order of the
\* parameters; the second loop of invoke_function walks down as the first did.
MutDropArgument(c) ==    \* compiled code walks up, too
  { [Destroy(d, c.walk, type(c)) EXCEPT !.i = @ + 1, !.walk = @ + type(c).size] :
      d \in Collapsed(c, type(c)) }
Drop(c, a, r, q) ==
  [Destroy(c, a, type(c)) EXCEPT !.i = @ + 1, !.walk = r, !.r11 = q]
DropArgument(c) ==
  IF c.caller = "native" THEN { Drop(c, c.walk, c.walk + type(c).size, c.r11) }
  ELSE LET a == Below(c.walk, type(c))
       IN  { Drop(d, a, r, q) : d \in Collapsed(c, type(c)),
                                r \in Called(c, type(c), a), q \in Called(c, type(c), c.r11) }

\* The return value is copied, if anyone wants it, and destroyed.
Bottom(c) == IF c.caller = "native" THEN 0 ELSE c.r11
Taken(c) == UNION { Load(d, Bottom(c), c.sig.ret) : d \in Collapsed(c, c.sig.ret) }
TakeReturn(c) ==
  { [Destroy(d, Bottom(c), c.sig.ret) EXCEPT
       !.step = IF c.caller = "native" THEN "drop" ELSE "done",
       !.i = 1, !.walk = c.sig.ret.size] : d \in Collapsed(c, c.sig.ret) }

-----------------------------------------------------------------------------
(* The calls that are done right.                                          *)

Objects(c) == { i \in DOMAIN c.sig.args : IsObject(c.sig.args[i]) }

\* Compiled code: nothing is passed after an object.
PassesRight(c) ==
  c.caller = "compiled" => Objects(c) \subseteq {Len(c.sig.args)}

\* Compiled code: what is at the bottom is not destroyed after an object argument.
\* Native code: walking up it meets the arguments only if they fill the space and are
\* alike.
CleansUpRight(c) ==
  Objects(c) # {} =>
    IF c.caller = "compiled" THEN ~ IsObject(c.sig.ret)
    ELSE /\ \A t \in ToSet(c.sig.args) : t = c.sig.args[1]
         /\ calculate_args_space(c.sig) = c.sig.ret.size + SizeOf(c.sig.args)
=============================================================================
