---------------------------- MODULE ScopeBuilder ----------------------------
(***************************************************************************)
(* RectifiedScope (instructions.h, instructions.cpp): a function is a tree *)
(* of scopes, each a list of instructions; the calls of the user push      *)
(* instructions and open sub-scopes.  Variables are objects with           *)
(* destructors (primitives need none); reading and assigning them changes  *)
(* no control and is left out.  A scope's vector of variables and its      *)
(* vector of branches are the declarations and the branches among its      *)
(* instructions, in the same order, since each is pushed on both.          *)
(***************************************************************************)
EXTENDS Naturals, SequencesExt

CONSTANTS Operations,  \* bound: the calls the user makes
          MaxCalls     \* bound: how many

Branch == {"if", "else", "while"}

ASSUME BuilderAssumption ==
  /\ Operations \subseteq Branch \cup {"variable", "return", "scope", "break"}
  /\ MaxCalls \in Nat

\* arg: the sub-scope, the variable constructed (its offset in the scope), or 0.
Instruction == [op : Branch \cup {"declare", "construct", "return", "scope", "break"},
                arg : Nat]
Scope == [parent_scope : Nat, opener : Nat, instructions : Seq(Instruction)]
main == 1

VARIABLES
  scopes,     \* the scopes in the order they were created, main first
  building,   \* the scope the user wrote to last
  calls       \* calls made

builderVars == <<scopes, building, calls>>

BuilderInit ==
  /\ scopes = << [parent_scope |-> 0, opener |-> 0, instructions |-> <<>>] >>
  /\ building = main
  /\ calls = 0

instructions(s) == scopes[s].instructions
opener(s) == instructions(scopes[s].parent_scope)[scopes[s].opener]
IsBranch(s) == s # main /\ opener(s).op \in Branch
IsLoop(s) == s # main /\ opener(s).op = "while"

ancestors[s \in 0 .. Len(scopes)] ==
  IF s = 0 THEN {} ELSE {s} \cup ancestors[scopes[s].parent_scope]

Pushed(s, list) == [scopes EXCEPT ![s].instructions = @ \o list]

\* Programs are written from top to bottom: a scope, once left, is closed.
Writes(s, op) ==
  /\ op \in Operations /\ calls < MaxCalls
  /\ s \in ancestors[building]
  /\ calls' = calls + 1

create_variable(s) ==
  /\ Writes(s, "variable")
  /\ scopes' = Pushed(s, << [op |-> "declare", arg |-> 0] >>)
  /\ building' = s

\* v is the offset of a variable of s itself (has_variable).  Bound: a variable is
\* constructed at most once; these calls are not counted.
default_construct(s, v) ==
  LET instruction == [op |-> "construct", arg |-> v]
  IN  /\ s \in ancestors[building]
      /\ instructions(s)[v].op = "declare"
      /\ instruction \notin ToSet(instructions(s))
      /\ scopes' = Pushed(s, << instruction >>)
      /\ building' = s
      /\ UNCHANGED calls

\* function_return, break_loop.
PushLeaf(s, op) ==
  /\ op \in {"return", "break"}
  /\ Writes(s, op)
  /\ scopes' = Pushed(s, << [op |-> op, arg |-> 0] >>)
  /\ building' = s

\* create_scope, if_branch, else_branch and while_branch.  else_branch only
\* looks whether the last instruction was a branch, of whatever type.
MayOpen(s, op) ==
  op = "else" => /\ instructions(s) # <<>>
                 /\ Last(instructions(s)).op \in Branch

Open(s, op) ==
  /\ op \in Branch \cup {"scope"}
  /\ Writes(s, op)
  /\ MayOpen(s, op)
  /\ LET child == Len(scopes) + 1
     IN  /\ scopes' = Append(Pushed(s, << [op |-> op, arg |-> child] >>),
                             [parent_scope |-> s, opener |-> Len(instructions(s)) + 1,
                              instructions |-> <<>>])
         /\ building' = child

Build ==
  \E s \in DOMAIN scopes :
    \/ create_variable(s)
    \/ \E v \in DOMAIN instructions(s) : default_construct(s, v)
    \/ \E op \in Operations : PushLeaf(s, op)
    \/ \E op \in Operations : Open(s, op)

-----------------------------------------------------------------------------
\* The variables s declares up to its ith instruction, by scope and offset.
Variables(s, i) ==
  FlattenSeq([j \in DOMAIN instructions(s) |->
                IF instructions(s)[j].op = "declare" /\ j <= i THEN << <<s, j>> >> ELSE <<>>])
=============================================================================
