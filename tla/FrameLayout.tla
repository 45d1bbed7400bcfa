----------------------------- MODULE FrameLayout -----------------------------
(***************************************************************************)
(* create_frame_report (jit.cpp): where the variables of a function lie in *)
(* its stack frame.  A scope starts where its parent stood when it was     *)
(* opened, so that sibling scopes share the bytes of the frame.            *)
(***************************************************************************)
EXTENDS ScopeBuilder

CONSTANTS type_size       \* scope -> the size of the variables created in it

ASSUME SizeAssumption == type_size \in [1 .. MaxCalls + 1 -> Nat \ {0}]

stack_reserve == 8        \* the pointer to the arguments, at rbp - 8

simple_16_bit_align(n) == ((n + 15) \div 16) * 16

\* The size of a frame of size n after one more variable of the given size.
MutGrown(n, size) == IF size >= 16 THEN simple_16_bit_align(n) + size - 8 ELSE n + size
Grown(n, size) ==
  IF size >= 16 THEN n + size + (simple_16_bit_align(n + size) - n) ELSE n + size

\* The size of the frame after the first i instructions of scope s, at <<s, i>>.
Positions == UNION { {s} \X (0 .. Len(instructions(s))) : s \in DOMAIN scopes }

current_size[p \in Positions] ==
  LET s == p[1]
      i == p[2]
  IN  IF i = 0
      THEN IF s = main THEN stack_reserve
           ELSE current_size[<<scopes[s].parent_scope, scopes[s].opener>>]
      ELSE IF instructions(s)[i].op = "declare"
           THEN Grown(current_size[<<s, i - 1>>], type_size[s])
           ELSE current_size[<<s, i - 1>>]

\* Variable v takes the bytes rbp - b for b in this interval.
Bytes(v) == LET offset == current_size[v]
            IN  (offset - type_size[v[1]] + 1) .. offset

\* The bytes below rbp the prologue reserves: none, not even stack_reserve, for
\* a function without variables.
Declarations ==
  UNION { ToSet(Variables(s, Len(instructions(s)))) : s \in DOMAIN scopes }
max_frame_size ==
  simple_16_bit_align(Max({0} \cup { current_size[d] : d \in Declarations }))
=============================================================================
