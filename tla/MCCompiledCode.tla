--------------------------- MODULE MCCompiledCode ---------------------------
(* CompiledCode for TLC: scopes take turns between a type over 16 bytes, *)
(* which the layout aligns, and one of a machine word.                   *)
EXTENDS CompiledCode

MCtype_size == [s \in 1 .. MaxCalls + 1 |-> IF s % 2 = 1 THEN 24 ELSE 8]
=============================================================================
