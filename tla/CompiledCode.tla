---------------------------- MODULE CompiledCode ----------------------------
(***************************************************************************)
(* The code Compiler emits, run on the processor (which is not under src/) *)
(* against what the function means: a reference semantics by recursion on  *)
(* the scopes, with no labels and no stack.  What is observed is the trace *)
(* of the variables constructed and destructed and of the conditions       *)
(* evaluated.  Within a scope variables are destroyed in the order they    *)
(* were declared, as the two functions of jit_x86_64.cpp that do so agree. *)
(***************************************************************************)
EXTENDS Compiler

CONSTANT MaxDecisions     \* bound: the conditions a run evaluates

ASSUME DecisionAssumption == MaxDecisions \in Nat

VARIABLES
  pc,            \* the next instruction of code
  al,            \* the register the last condition was left in
  decisions,     \* the outcomes of the conditions so far
  trace          \* what the code has done

runVars == <<pc, al, decisions, trace>>
vars == <<builderVars, compilerVars, runVars>>

Init ==
  /\ BuilderInit /\ CompilerInit
  /\ pc = 1 /\ al = FALSE /\ decisions = <<>> /\ trace = <<>>

At(name) == phase = "running" /\ pc <= Len(code) /\ code[pc][1] = name
operand == code[pc][2]

\* To a label nothing bound, the jump goes anywhere.
Jump(label) ==
  LET bound == { k \in DOMAIN code : code[k] = <<"bind", label>> }
  IN  \/ /\ bound # {}
         /\ pc' \in bound
         /\ UNCHANGED phase
      \/ /\ bound = {}
         /\ phase' = "lost"
         /\ UNCHANGED pc

Advance == pc' = pc + 1 /\ UNCHANGED phase

\* A call of a constructor or a destructor.
Call ==
  /\ At("construct") \/ At("destruct")
  /\ trace' = Append(trace, code[pc])
  /\ Advance
  /\ UNCHANGED <<al, decisions>>

Label ==
  /\ At("bind")
  /\ Advance
  /\ UNCHANGED <<al, decisions, trace>>

\* A condition compares variables and immediate values: it may be either.
Eval ==
  /\ At("eval") /\ Len(decisions) < MaxDecisions
  /\ al' \in BOOLEAN
  /\ decisions' = Append(decisions, al')
  /\ trace' = Append(trace, code[pc])
  /\ Advance

JumpIf ==
  /\ At("je") \/ At("jne")
  /\ IF al = At("jne") THEN Jump(operand) ELSE Advance
  /\ UNCHANGED <<al, decisions, trace>>

JumpAlways ==
  /\ At("jmp")
  /\ Jump(operand)
  /\ UNCHANGED <<al, decisions, trace>>

Leave ==
  /\ phase = "running" /\ pc > Len(code)
  /\ phase' = "returned"
  /\ UNCHANGED runVars

Execute == Call \/ Label \/ Eval \/ JumpIf \/ JumpAlways

Next ==
  \/ phase = "building" /\ Build /\ UNCHANGED <<compilerVars, runVars>>
  \/ Compile /\ UNCHANGED runVars
  \/ Execute /\ UNCHANGED <<builderVars, scope_stack, loop_stack, code>>
  \/ Leave /\ UNCHANGED <<builderVars, scope_stack, loop_stack, code>>

Spec == Init /\ [][Next]_vars

-----------------------------------------------------------------------------
(* What a function means.                                                  *)

InLoop(s) == \E a \in ancestors[s] : IsLoop(a)

\* The variables of s that its first k instructions construct are destroyed.
Constructed(s, k, v) ==
  \E j \in DOMAIN instructions(s) :
    j <= k /\ instructions(s)[j] = [op |-> "construct", arg |-> v]
Destroyed(s, k) ==
  FlattenSeq([v \in DOMAIN instructions(s) |->
                IF instructions(s)[v].op = "declare" /\ v <= k /\ Constructed(s, k, v)
                THEN << <<"destruct", <<s, v>>>> >> ELSE <<>>])

\* A run of part of the function: what it did, the decisions it left, and how
\* it ended ("next", "break", "return", or "cut" for want of a decision).
Run(events, left, out) == [events |-> events, left |-> left, out |-> out]
Before(events, run) == [run EXCEPT !.events = events \o @]

\* m is the meaning: how scope s goes on when its kth instruction has run.
Then(m, s, k, run) == Before(run.events, m[<<s, k + 1, run.left>>])
After(m, s, k, run) ==
  CASE run.out = "next" -> Then(m, s, k, run)
    [] run.out = "cut" -> run
    [] OTHER -> [run EXCEPT !.events = @ \o Destroyed(s, k)]

\* Of an if and of a while with the decision that d begins with.
Tested(c, d) == Run(<< <<"eval", c>> >>, Tail(d), "next")
Inside(m, c, b, d) == Before(Tested(c, d).events, m[<<b, 1, Tail(d)>>])

MeantIf(m, s, k, d) ==
  LET c == instructions(s)[k].arg
  IN  IF d = <<>> THEN Run(<<>>, d, "cut")
      ELSE IF Head(d) THEN After(m, s, k, Inside(m, c, c, d))
      ELSE IF else_branch(c) = {} THEN Then(m, s, k, Tested(c, d))
      ELSE After(m, s, k, Inside(m, c, instructions(s)[k + 1].arg, d))

MeantWhile(m, s, k, d) ==
  LET c == instructions(s)[k].arg
      iteration == Inside(m, c, c, d)
  IN  IF d = <<>> THEN Run(<<>>, d, "cut")
      ELSE IF ~ Head(d) THEN Then(m, s, k, Tested(c, d))
      ELSE CASE iteration.out = "next" -> Before(iteration.events, m[<<s, k, iteration.left>>])
             [] iteration.out = "break" -> Then(m, s, k, iteration)
             [] OTHER -> After(m, s, k, iteration)

Meant(m, s, k, d) ==
  LET list == instructions(s)
      op == list[k].op
      arg == list[k].arg
  IN  IF k > Len(list) THEN Run(Destroyed(s, Len(list)), d, "next")
      ELSE CASE op = "declare" -> m[<<s, k + 1, d>>]
             [] op = "construct" ->
                  Then(m, s, k, Run(<< <<"construct", <<s, arg>>>> >>, d, "next"))
             [] op = "return" -> After(m, s, k, Run(<<>>, d, "return"))
             [] op = "break" -> IF InLoop(s) THEN After(m, s, k, Run(<<>>, d, "break"))
                                ELSE m[<<s, k + 1, d>>]
             [] op = "scope" -> After(m, s, k, m[<<arg, 1, d>>])
             [] op = "else" -> m[<<s, k + 1, d>>]         \* its if has seen to it
             [] op = "if" -> MeantIf(m, s, k, d)
             [] op = "while" -> MeantWhile(m, s, k, d)

\* meaning[<<s, k, d>>]: scope s from its kth instruction on, with the decisions d.
Points == (DOMAIN scopes) \X (Nat \ {0}) \X Seq(BOOLEAN)
meaning[p \in Points] == Meant(meaning, p[1], p[2], p[3])

Meaning == meaning[<<main, 1, decisions>>]

-----------------------------------------------------------------------------
(* The functions the compiler gets right.                                  *)

Has(s, op) == \E k \in DOMAIN instructions(s) : instructions(s)[k].op = op

\* No loop returns directly in its body: its condition would be left out, and
\* the jump to it leads past the body.
LoopsDoNotReturn(s) == IsLoop(s) => ~ Has(s, "return")

\* A break destroys the variables of its own scope only, not of the scopes
\* between it and the loop, nor of the loop's body.
LeftByBreak(s) ==
  { a \in ancestors[s] : \A l \in ancestors[s] : IsLoop(l) => a \notin ancestors[l] }
BreaksLeaveNothing(s) ==
  Has(s, "break") /\ InLoop(s) =>
    \A a \in LeftByBreak(s) : Variables(scopes[a].parent_scope, scopes[a].opener) = <<>>

\* The label at the beginning of a scope is bound by its first instruction.
LoopsAndElsesHaveInstructions(s) ==
  s # main /\ opener(s).op \in {"while", "else"} => instructions(s) # <<>>

\* The builder takes an else after an else or a while, too.
ElsesFollowIfs(s) ==
  s # main /\ opener(s).op = "else" =>
    instructions(scopes[s].parent_scope)[scopes[s].opener - 1].op = "if"

\* No branch in a scope of create_scope: compilation throws.
BranchesReported(s) == IsBranch(s) => Reported(s)

\* The code destroys what is declared, so nothing may leave the scope or enter
\* another before its variables are constructed.
ConstructedAtOnce(s) ==
  \A k \in DOMAIN instructions(s) :
    instructions(s)[k].op = "declare" =>
      \E j \in k + 1 .. Len(instructions(s)) :
        /\ instructions(s)[j] = [op |-> "construct", arg |-> k]
        /\ \A l \in k .. j : instructions(s)[l].op \in {"declare", "construct"}

Regular == \A s \in DOMAIN scopes :
             /\ ConstructedAtOnce(s)
             /\ LoopsDoNotReturn(s) /\ BreaksLeaveNothing(s)
             /\ LoopsAndElsesHaveInstructions(s)
             /\ ElsesFollowIfs(s) /\ BranchesReported(s)

-----------------------------------------------------------------------------
(* Properties.                                                             *)

\* The compiler's stacks hold scopes of the function, no further on than their
\* last instruction, and a run stays within the code.
TypeOK ==
  /\ phase \in {"building", "compiling", "raised", "running", "lost", "returned"}
  /\ scopes \in Seq(Scope) /\ building \in DOMAIN scopes /\ calls \in 0 .. MaxCalls
  /\ scope_stack \in Seq([scope : DOMAIN scopes, iterating : Nat])
  /\ \A k \in DOMAIN scope_stack :
       scope_stack[k].iterating <= Len(instructions(scope_stack[k].scope))
  /\ loop_stack \in Seq(DOMAIN scopes)
  /\ pc \in 1 .. Len(code) + 1
  /\ al \in BOOLEAN /\ decisions \in Seq(BOOLEAN)

\* What the code does is what the function means, for whatever outcomes of its
\* conditions: the same variables constructed, the same destroyed, each once and
\* on every way out of its scope, and the same conditions evaluated, in the same
\* order; and it is compiled at all, it returns when the function does, and it comes
\* to its next condition when the function does.
Faithful ==
  /\ phase \notin {"raised", "lost"}
  /\ phase = "returned" => /\ Meaning.events = trace
                           /\ Meaning.left = <<>>
                           /\ Meaning.out \in {"next", "return"}
  /\ At("eval") => Meaning.events = trace /\ Meaning.out = "cut"

\* jit_x86_64.cpp compiles regular functions as they mean.
FaithfulWhenRegular == Regular => Faithful

\* Of a regular function every jump has somewhere to go: the label is bound, and
\* only once, so that the code neither is refused nor gets lost.
JumpsBound ==
  Regular /\ phase \in {"running", "lost", "returned"} =>
    \A k \in DOMAIN code :
      code[k][1] \in {"jmp", "je", "jne"} =>
        Cardinality({ l \in DOMAIN code : code[l] = <<"bind", code[k][2]>> }) = 1

Happened(name, v) == Cardinality({ k \in DOMAIN trace : trace[k] = <<name, v>> })
Alive == { v \in Declarations : Happened("construct", v) > Happened("destruct", v) }

\* Variables alive at the same time share no byte of the frame, leave the pointer
\* to the arguments alone and lie above the stack pointer, while sibling scopes
\* reuse the bytes of each other.
SlotsDisjoint ==
  Regular /\ phase = "running" =>
    \A v \in Alive :
      /\ Bytes(v) \subseteq stack_reserve + 1 .. max_frame_size
      /\ \A w \in Alive \ {v} : Bytes(v) \cap Bytes(w) = {}

\* README.md: "Branches (if/else/while)" are done.  Code that has returned has left
\* out no condition of an if or a while the function would evaluate.
ConditionsEvaluated == phase = "returned" => Meaning.out # "cut"
=============================================================================
