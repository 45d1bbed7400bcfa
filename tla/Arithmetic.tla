----------------------------- MODULE Arithmetic -----------------------------
(***************************************************************************)
(* Primitive operations: which the parser takes (instructions.h,           *)
(* instructions.cpp), what the code emitted for them computes              *)
(* (jit_x86_64.cpp), and what they mean in C++ (ObjectTools of type.h).    *)
(*                                                                         *)
(* A value of a primitive type is the content of a register of its size, a *)
(* natural number.  half[s] stands for 2^(8s - 1).  Of floating point only *)
(* the order and the unordered value are kept: sums, differences, products *)
(* and quotients are the processor's, any value.                           *)
(***************************************************************************)
EXTENDS Integers

CONSTANTS
  Size,     \* the sizes of integers, in bytes
  half,     \* size -> how many values of a signed integer are not negative
  Floats,   \* the values of floating point types, 0 among them
  NaN       \* the unordered one

ASSUME SizesAssumption == 1 \in Size /\ Size \subseteq Nat /\ half \in [Size -> Nat \ {0}]
ASSUME FloatsAssumption == Floats \subseteq Nat /\ NaN \in Floats \ {0}

\* "unlisted": signed, and not among the types is_signed_integer knows (char,
\* long long).
Integer == {"signed", "unsigned", "unlisted"}
Type == [kind : Integer \cup {"bool", "floating", "object", "void"}, size : Nat]
bool == [kind |-> "bool", size |-> 1]

is_floating_point(type) == type.kind = "floating"
is_signed_integer(type) == type.kind = "signed"
is_primitive(type) == type.kind # "object"

modulus(s) == 2 * half[s]
Values(type) == IF is_floating_point(type) THEN Floats ELSE 0 .. modulus(type.size) - 1
Bit(condition) == IF condition THEN 1 ELSE 0
Signed(s, x) == IF x < half[s] THEN x ELSE x - modulus(s)

Arithmetical == {"ADD", "SUB", "MUL", "DIV", "MOD"}             \* RET_SAME_TYPE
Ordering == {"GREATER", "GREATER_OR_EQUAL", "LESSER", "LESSER_OR_EQUAL"}
Comparison == {"EQUAL", "NOT_EQUAL"} \cup Ordering              \* RET_BOOLEAN
Operation == Arithmetical \cup Comparison
FloatingPointCapable == Operation \ {"MOD"}

\* PrimitiveAtomicBinaryExpressionParser::parse, in its four overloads.
Parses(op, left, right) ==
  /\ op \in Operation /\ left = right /\ is_primitive(left)
  /\ is_floating_point(left) => op \in FloatingPointCapable
ReturnType(op, type) == IF op \in Arithmetical THEN type ELSE bool

-----------------------------------------------------------------------------
(* The processor, by the operands of an instruction of size s.             *)

Abs(a) == IF a < 0 THEN -a ELSE a
Quotient(a, b) ==                         \* towards zero
  LET q == Abs(a) \div Abs(b) IN IF (a < 0) = (b < 0) THEN q ELSE -q
Remainder(a, b) == a - b * Quotient(a, b)

cmp(s, x, y) ==
  LET d == (x - y) % modulus(s)
  IN  [ZF |-> d = 0, CF |-> x < y, SF |-> d >= half[s],
       OF |-> Signed(s, x) - Signed(s, y) # Signed(s, d)]

comi(x, y) ==
  LET unordered == NaN \in {x, y}
  IN  [ZF |-> unordered \/ x = y, CF |-> unordered \/ x < y, PF |-> unordered]

set(cc, f) ==
  \/ cc = "e"  /\ f.ZF
  \/ cc = "ne" /\ ~ f.ZF
  \/ cc = "a"  /\ ~ f.CF /\ ~ f.ZF
  \/ cc = "nb" /\ ~ f.CF
  \/ cc = "b"  /\ f.CF
  \/ cc = "na" /\ (f.CF \/ f.ZF)
  \/ cc = "g"  /\ ~ f.ZF /\ f.SF = f.OF
  \/ cc = "ge" /\ f.SF = f.OF
  \/ cc = "l"  /\ f.SF # f.OF
  \/ cc = "le" /\ (f.ZF \/ f.SF # f.OF)

Trap == -1       \* a quotient that has no place: the process dies

\* div and idiv, of a dividend that has twice the size of the divisor.
Divide(signed, s, dividend, y) ==
  LET divisor == IF signed THEN Signed(s, y) ELSE y
      fits(q) == IF signed THEN -half[s] <= q /\ q < half[s] ELSE q < modulus(s)
  IN  IF divisor = 0 THEN [quotient |-> Trap, remainder |-> Trap]
      ELSE IF ~ fits(Quotient(dividend, divisor))
      THEN [quotient |-> Trap, remainder |-> Trap]
      ELSE [quotient |-> Quotient(dividend, divisor) % modulus(s),
            remainder |-> Remainder(dividend, divisor) % modulus(s)]

-----------------------------------------------------------------------------
(* The emitted code.                                                       *)

\* INTEGER_DIV clears rdx and does not extend the sign of rax.  For bytes the
\* dividend is ax: what ah holds is left over, and the remainder goes to ah.
INTEGER_DIV(type, x, y) ==
  LET signed == is_signed_integer(type)
      s == type.size
      ah == IF s # 1 THEN {0}
            ELSE IF signed THEN -half[1] .. half[1] - 1 ELSE 0 .. modulus(1) - 1
  IN  { Divide(signed, s, h * modulus(s) + x, y) : h \in ah }

\* The values integer_arithmetic may leave in rax.  imul has no form for two byte
\* registers: the assembler refuses it and emits nothing.  MOD takes rdx.
integer_arithmetic(op, type, x, y) ==
  LET wrapped(n) == { n % modulus(type.size) }
      cleared(r) == IF type.size = 1 /\ r # Trap THEN 0 ELSE r
  IN  CASE op = "ADD" -> wrapped(x + y)
        [] op = "SUB" -> wrapped(x - y)
        [] op = "MUL" -> IF type.size = 1 THEN {x} ELSE wrapped(x * y)
        [] op = "DIV" -> { d.quotient : d \in INTEGER_DIV(type, x, y) }
        [] op = "MOD" -> { cleared(d.remainder) : d \in INTEGER_DIV(type, x, y) }

UnsignedCondition ==
  [EQUAL |-> "e", NOT_EQUAL |-> "ne", GREATER |-> "a", GREATER_OR_EQUAL |-> "nb",
   LESSER |-> "b", LESSER_OR_EQUAL |-> "na"]
SignedCondition ==
  [EQUAL |-> "e", NOT_EQUAL |-> "ne", GREATER |-> "g", GREATER_OR_EQUAL |-> "ge",
   LESSER |-> "l", LESSER_OR_EQUAL |-> "le"]

MutInteger_comparison(op, type, x, y) ==    \* without regard to the sign
  set(UnsignedCondition[op], cmp(type.size, x, y))
integer_comparison(op, type, x, y) ==
  set(IF is_signed_integer(type) THEN SignedCondition[op] ELSE UnsignedCondition[op],
      cmp(type.size, x, y))

\* EQUAL: setnp, then 0 by cmovne; NOT_EQUAL: setp, then 1 by cmovne.
floating_point_comparison(op, x, y) ==
  LET f == comi(x, y)
  IN  \/ op = "EQUAL" /\ f.ZF /\ ~ f.PF
      \/ op = "NOT_EQUAL" /\ (~ f.ZF \/ f.PF)
      \/ op \in Ordering /\ set(UnsignedCondition[op], f)

floating_point_arithmetic(op, x, y) == Floats

compare(op, type, x, y) ==
  IF is_floating_point(type) THEN floating_point_comparison(op, x, y)
  ELSE integer_comparison(op, type, x, y)

arithmetic(op, type, x, y) ==
  IF is_floating_point(type) THEN floating_point_arithmetic(op, x, y)
  ELSE integer_arithmetic(op, type, x, y)

\* assign_primitive_binary_atomic_expression: what may be saved in the target.
assigned(op, type, x, y) ==
  IF op \in Arithmetical THEN arithmetic(op, type, x, y) ELSE {Bit(compare(op, type, x, y))}

\* branch_eval_primitive_binary_atomic_expression and the cmp al, 0 after it: a
\* floating point result is compared with 0, of an integer al is the lowest byte.
branches(op, type, x, y) ==
  IF op \in Comparison THEN { compare(op, type, x, y) }
  ELSE IF is_floating_point(type)
  THEN { compare("NOT_EQUAL", type, r, 0) : r \in arithmetic(op, type, x, y) }
  ELSE { r % modulus(1) # 0 : r \in arithmetic(op, type, x, y) \ {Trap} }

-----------------------------------------------------------------------------
(* What the operations mean (ObjectTools::add to mod, and the operators of *)
(* C++ for the comparisons, which type.h does not list).                   *)

Number(type, x) ==
  IF type.kind \in {"signed", "unlisted"} THEN Signed(type.size, x) ELSE x

Exact(op, a, b) ==
  CASE op = "ADD" -> a + b
    [] op = "SUB" -> a - b
    [] op = "MUL" -> a * b
    [] op = "DIV" -> Quotient(a, b)
    [] op = "MOD" -> Remainder(a, b)

Holds(op, a, b) ==
  \/ op = "EQUAL" /\ a = b
  \/ op = "NOT_EQUAL" /\ a # b
  \/ op = "GREATER" /\ a > b
  \/ op = "GREATER_OR_EQUAL" /\ a >= b
  \/ op = "LESSER" /\ a < b
  \/ op = "LESSER_OR_EQUAL" /\ a <= b

\* Of integers: a result too large for its type wraps around, a truth value is one.
MeantNumber(op, type, x, y) ==
  LET n == Exact(op, Number(type, x), Number(type, y))
  IN  IF type.kind = "bool" THEN Bit(n # 0) ELSE n % modulus(type.size)
MeantComparison(op, type, x, y) ==
  IF is_floating_point(type) /\ NaN \in {x, y} THEN op = "NOT_EQUAL"
  ELSE Holds(op, Number(type, x), Number(type, y))

\* The operations whose code computes what they mean.  Left out: the dividends
\* whose sign is not extended, products and quotients of bytes, the signed types
\* taken for unsigned, truth values added up, and an unordered value that is found
\* smaller than any other.
Regular(op, type, x, y) ==
  \/ op \in {"EQUAL", "NOT_EQUAL"}
  \/ /\ op \in Ordering
     /\ type.kind # "unlisted"
     /\ is_floating_point(type) /\ NaN \in {x, y} => op \in {"GREATER", "GREATER_OR_EQUAL"}
  \/ op \in {"ADD", "SUB"} /\ type.kind \in Integer
  \/ op = "MUL" /\ type.kind \in Integer /\ type.size # 1
  \/ /\ op \in {"DIV", "MOD"}
     /\ type.kind \in {"signed", "unsigned"} /\ type.size # 1
     /\ y # 0
     /\ type.kind = "signed" => x < half[type.size]
=============================================================================
