----------------------------- MODULE MCDataPath -----------------------------
(* DataPath for TLC.  A byte has two bits, a word of two bytes four: the sizes *)
(* of types and of argument spaces are real, the ranges of integers are not.   *)
EXTENDS DataPath

Of(kind, size) == [kind |-> kind, size |-> size]
int8 == Of("signed", 1)
int16 == Of("signed", 2)
uint16 == Of("unsigned", 2)
char == Of("unlisted", 1)
float == Of("floating", 4)
double == Of("floating", 8)
object == Of("object", 8)

MChalf == [s \in {1, 2} |-> IF s = 1 THEN 2 ELSE 8]
MCFloats == {0, 1, 2}
MCNaN == 2

MCImmediates ==
  [t \in {bool, int8, int16, uint16, char, float, double, object} |->
     CASE t \in {bool, object} -> {0, 1}
       [] t \in {int8, char} -> 0 .. 3
       [] t \in {float, double} -> MCFloats
       [] OTHER -> {0, 4, 8, 15}]

Function(ret, args, variables) == [sig |-> [ret |-> ret, args |-> args], locals |-> variables]
MCFunctions ==
  { Function(int16, <<int16>>, <<int16, bool>>),
    Function(uint16, <<uint16, int8>>, <<uint16>>),
    Function(bool, <<double, char>>, <<bool, double>>),
    Function(int8, <<object>>, <<int8, int8>>),
    Function(void, <<object, double>>, <<char>>),
    Function(void, <<object, object>>, <<int8>>) }

MCCallees ==
  { [ret |-> void, args |-> <<int16>>], [ret |-> int16, args |-> <<object>>],
    [ret |-> uint16, args |-> <<uint16, object>>], [ret |-> object, args |-> <<int8, object>>],
    [ret |-> object, args |-> <<int8, uint16>>], [ret |-> bool, args |-> <<bool, double>>],
    [ret |-> void, args |-> <<object, int8>>] }
=============================================================================
