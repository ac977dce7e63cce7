----------------------------- MODULE MCDescriptors -----------------------------
(* TLC instances of Descriptors: strings of up to three characters in a      *)
(* buffer of eight bytes, and configurations of up to three descriptors      *)
(* after their own, some of them ill-formed.  A conversion does not look at  *)
(* the configuration, so that here it runs only while none has been taken.   *)
EXTENDS Descriptors, SequencesExt

(* Strings of even, odd and no length, answers that are no string and        *)
(* answers of another length than they say; every mix of high and low bytes  *)
(* that are 0 or not, sent or left over.                                     *)
SomeAnswers ==
    {[byte |-> (0 :> size) @@ (1 :> type) @@ chars, len |-> len] :
        size \in {0, 2, 5, 6, 7}, type \in {StringType, 0},
        chars \in [2 .. UnicodeSize - 1 -> {0, 1}], len \in {0, 2, 5, 6, 7}}

Item(len, type, number, alt) == [len |-> len, type |-> type, number |-> number, alt |-> alt]

Header   == Item(9, 2, 0, 0)
First    == Item(9, InterfaceType, 0, 0)
FirstAlt == Item(9, InterfaceType, 0, 1)
Second   == Item(9, InterfaceType, 1, 0)
Other    == Item(7, 5, 1, 0)
Zero     == Item(0, 5, 0, 0)
Short    == Item(2, InterfaceType, 0, 0)
Items    == {Header, First, FirstAlt, Second, Other, Zero, Short}

(* The chain of the descriptors of s, of which missing bytes were cut off. *)
Chain(s, missing) ==
    LET start(k) == FoldLeft(LAMBDA sum, item: sum + item.len, 0, SubSeq(s, 1, k - 1))
        total    == start(Len(s) + 1) - missing IN
    [at    |-> [o \in {start(k) : k \in DOMAIN s} \cap 0 .. total - 1 |->
                    s[CHOOSE k \in DOMAIN s: start(k) = o]],
     total |-> total]

SomeConfigurations ==
    {Chain(<<Header>> \o s, missing) :
        s \in SeqOf({First, FirstAlt, Second, Other, Zero, Short}, 3), missing \in {0, 1, 6, 8}}

ApartNext == (cfgDesc = Nothing /\ StringStep) \/ SearchStep

ApartSpec == DescInit /\ [][ApartNext]_descVars
=============================================================================
