------------------------------ MODULE Compiler ------------------------------
(***************************************************************************)
(* MicroJITCompiler_x86_64::compile_internal (jit_x86_64.cpp): one pass    *)
(* over the tree of scopes with an explicit stack, which emits code with   *)
(* labels.  What is kept of the code is its control: the construction and  *)
(* destruction of variables, the evaluation of conditions, labels and      *)
(* jumps.  (A destructor is called with the first word of the variable for *)
(* its argument, where the constructor gets its address: the code emitted  *)
(* loads with mov, not lea.  The model says only which one is called.)     *)
(***************************************************************************)
EXTENDS FrameLayout

VARIABLES
  phase,         \* "building", "compiling", "raised", "running", "lost", "returned"
  scope_stack,   \* [scope, iterating]: the instructions of the scope visited
  loop_stack,    \* the while scopes around the current one
  code           \* the instructions emitted: <<name, label, variable or scope>>

compilerVars == <<phase, scope_stack, loop_stack, code>>

CompilerInit ==
  /\ phase = "building"
  /\ scope_stack = <<>> /\ loop_stack = <<>> /\ code = <<>>

begin_of_scope(s) == <<"begin_of_scope", s>>
end_of_scope(s) == <<"end_of_scope", s>>
loop_end_of_scope(s) == <<"loop_end_of_scope", s>>
exit_label == <<"exit", 0>>

\* create_branches_report: it follows branches from the main scope, and not
\* into the scopes of create_scope.  An else belongs to the branch before it.
Reported(s) == \A a \in ancestors[s] \ {main} : IsBranch(a)

else_branch(s) ==
  LET siblings == instructions(scopes[s].parent_scope)
      next == scopes[s].opener + 1
  IN  IF next <= Len(siblings) /\ siblings[next].op = "else" THEN {siblings[next].arg} ELSE {}

\* Called to compile the function as it was built.
compile ==
  /\ phase = "building"
  /\ phase' = "compiling"
  /\ scope_stack' = << [scope |-> main, iterating |-> 0] >>
  /\ UNCHANGED <<builderVars, loop_stack, code>>

-----------------------------------------------------------------------------
current == Head(scope_stack)
i == current.iterating + 1
Ends == i > Len(instructions(current.scope))
instruction == instructions(current.scope)[i]
Visits(op) == phase = "compiling" /\ scope_stack # <<>> /\ ~ Ends /\ instruction.op = op

\* The first instruction of a branch binds the label of its beginning.
Begin == IF IsBranch(current.scope) /\ i = 1
         THEN << <<"bind", begin_of_scope(current.scope)>> >> ELSE <<>>
Emit(list) == code' = code \o Begin \o list

MutVisited == [current EXCEPT !.iterating = i + 1]    \* counted on twice
Visited == [current EXCEPT !.iterating = i]
Continue == scope_stack' = <<Visited>> \o Tail(scope_stack)
Enter(s) == scope_stack' = <<[scope |-> s, iterating |-> 0], Visited>> \o Tail(scope_stack)

Destructors(s, upto) ==
  LET vars == Variables(s, upto) IN [k \in DOMAIN vars |-> <<"destruct", vars[k]>>]

\* iterative_destructor_call: every scope on the stack.
MutAllDestructors == Destructors(current.scope, i)    \* only the innermost
AllDestructors ==
  LET of(f) == Destructors(f.scope, f.iterating)
      stack == <<Visited>> \o Tail(scope_stack)
  IN  FlattenSeq([k \in DOMAIN stack |-> of(stack[k])])

Declare ==
  /\ Visits("declare")
  /\ Emit(<<>>) /\ Continue
  /\ UNCHANGED <<builderVars, phase, loop_stack>>

Construct ==
  /\ Visits("construct")
  /\ Emit(<< <<"construct", <<current.scope, instruction.arg>> >> >>) /\ Continue
  /\ UNCHANGED <<builderVars, phase, loop_stack>>

\* The rest of the scope is skipped; a loop left this way has no condition.
MutUnlooped == loop_stack            \* forgets to leave the loop
Unlooped == IF loop_stack # <<>> /\ Head(loop_stack) = current.scope
            THEN Tail(loop_stack) ELSE loop_stack

MutSkipped(s) == <<>>                \* forgets that conditions jump over the scope
Skipped(s) == IF IsBranch(s) THEN << <<"bind", end_of_scope(s)>> >> ELSE <<>>

Return ==
  /\ Visits("return")
  /\ Emit(AllDestructors \o << <<"jmp", exit_label>> >>
            \o Skipped(current.scope))
  /\ scope_stack' = Tail(scope_stack)
  /\ loop_stack' = Unlooped
  /\ UNCHANGED <<builderVars, phase>>

ScopeCreate ==
  /\ Visits("scope")
  /\ Emit(<<>>) /\ Enter(instruction.arg)
  /\ UNCHANGED <<builderVars, phase, loop_stack>>

\* branch_map.at throws for a branch that is not in the report.
NotReported ==
  /\ \E op \in Branch : Visits(op)
  /\ ~ Reported(instruction.arg)
  /\ phase' = "raised"
  /\ UNCHANGED <<builderVars, scope_stack, loop_stack, code>>

VisitsBranch(op) == Visits(op) /\ Reported(instruction.arg)

MutUnmet(s) == end_of_scope(s)       \* jumps over the else
Unmet(s) == IF else_branch(s) = {} THEN end_of_scope(s)
            ELSE begin_of_scope(CHOOSE e \in else_branch(s) : TRUE)

If ==
  /\ VisitsBranch("if")
  /\ Emit(<< <<"eval", instruction.arg>>, <<"je", Unmet(instruction.arg)>> >>)
  /\ Enter(instruction.arg)
  /\ UNCHANGED <<builderVars, phase, loop_stack>>

Else ==
  /\ VisitsBranch("else")
  /\ Emit(<<>>) /\ Enter(instruction.arg)
  /\ UNCHANGED <<builderVars, phase, loop_stack>>

While ==
  /\ VisitsBranch("while")
  /\ Emit(<< <<"jmp", end_of_scope(instruction.arg)>> >>)
  /\ Enter(instruction.arg)
  /\ loop_stack' = <<instruction.arg>> \o loop_stack
  /\ UNCHANGED <<builderVars, phase>>

\* Outside every loop a break does nothing; in one it destroys the variables of
\* its own scope and leaves the innermost loop.
Break ==
  /\ Visits("break")
  /\ Emit(IF loop_stack = <<>> THEN <<>>
          ELSE Destructors(current.scope, i)
                 \o << <<"jmp", loop_end_of_scope(Head(loop_stack))>> >>)
  /\ Continue
  /\ UNCHANGED <<builderVars, phase, loop_stack>>

\* The end of a scope: its label comes after its destructors, the condition of a
\* loop after its label.
LoopTest(s) == << <<"eval", s>>, <<"jne", begin_of_scope(s)>>, <<"bind", loop_end_of_scope(s)>> >>

MutScopeEnd(s) == << <<"bind", end_of_scope(s)>> >> \o Destructors(s, Len(instructions(s)))
ScopeEnd(s) == Destructors(s, Len(instructions(s)))
                 \o IF IsBranch(s) THEN << <<"bind", end_of_scope(s)>> >> ELSE <<>>

AfterEnd(s) ==
  IF IsLoop(s) THEN LoopTest(s)
  ELSE IF s # main /\ opener(s).op = "if"
       THEN SetToSeq({ <<"jmp", end_of_scope(e)>> : e \in else_branch(s) })
       ELSE <<>>

EndScope ==
  /\ phase = "compiling" /\ scope_stack # <<>> /\ Ends
  /\ code' = code \o ScopeEnd(current.scope) \o AfterEnd(current.scope)
  /\ scope_stack' = Tail(scope_stack)
  /\ loop_stack' = IF IsLoop(current.scope) THEN Tail(loop_stack) ELSE loop_stack
  /\ UNCHANGED <<builderVars, phase>>

Epilogue ==
  /\ phase = "compiling" /\ scope_stack = <<>>
  /\ code' = code \o << <<"bind", exit_label>> >>
  /\ phase' = "running"
  /\ UNCHANGED <<builderVars, scope_stack, loop_stack>>

Compile ==
  \/ compile \/ Declare \/ Construct \/ Return \/ ScopeCreate \/ NotReported
  \/ If \/ Else \/ While \/ Break \/ EndScope \/ Epilogue

-----------------------------------------------------------------------------
\* The loop a break would leave is the innermost one that is being compiled: the
\* stack of loops is the loops of the stack of scopes, in their order.
LoopsNested ==
  LET loops == { k \in DOMAIN scope_stack : IsLoop(scope_stack[k].scope) }
  IN  phase = "compiling" =>
        \E place \in [DOMAIN loop_stack -> loops] :
          /\ \A m, n \in DOMAIN loop_stack : m < n => place[m] < place[n]
          /\ \A k \in loops : \E n \in DOMAIN loop_stack : place[n] = k
          /\ \A n \in DOMAIN loop_stack : loop_stack[n] = scope_stack[place[n]].scope
=============================================================================
