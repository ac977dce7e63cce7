----------------------------- MODULE MCEnumerator -----------------------------
(* TLC instances of Enumerator: one cell, two devices one after the other,   *)
(* two interfaces, and configurations that describe both of them, only one,  *)
(* none, or nothing that can be walked.  A good device answers with strings  *)
(* and describes both interfaces.                                            *)
EXTENDS Enumerator

CONSTANTS d1, r1, r2, t1, w1

TwoInterfaces   == {0, 1}
TwoThenOne      == [i \in TwoInterfaces |-> IF i = 0 THEN <<129, 1>> ELSE <<130>>]

SomeAnswers ==
    {[byte |-> [k \in 0..3 |-> IF k = 0 THEN 3 ELSE IF k = 1 THEN type ELSE 1], len |-> 3] :
        type \in {StringType, 0}}

GoodAnswers == {answer \in SomeAnswers: answer.byte[1] = StringType}

Item(len, type, number, alt) == [len |-> len, type |-> type, number |-> number, alt |-> alt]

Header == Item(9, 2, 0, 0)
First  == Item(9, InterfaceType, 0, 0)
Second == Item(9, InterfaceType, 1, 0)
Zero   == Item(0, 5, 0, 0)
Items  == {Header, First, Second, Zero}

Walk(a, b) == [at |-> [o \in {0, 9, 18} |-> IF o = 0 THEN Header ELSE IF o = 9 THEN a ELSE b],
               total |-> 27]

GoodConfigurations == {Walk(First, Second)}
SomeConfigurations == {Walk(First, Second), Walk(Second, First), Walk(First, First), Walk(First, Zero)}
=============================================================================
