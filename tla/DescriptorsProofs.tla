--------------------------- MODULE DescriptorsProofs ---------------------------
(* Theorems about Descriptors, for every answer a device can give to a query *)
(* for a string, every buffer size and every configuration descriptor.       *)
EXTENDS Descriptors, TLAPS

(* The locals keep their types, and the caller's buffer its size. *)
LocalsInv ==
    /\ unicode \in Answer
    /\ room \in Nat
    /\ buf \in [0..room -> Nat \cup {UNTOUCHED}]
    /\ srci \in Nat /\ desti \in Nat
    /\ cfgDesc \in Configurations \cup {Nothing}
    /\ pos \in Nat

(* The characters before desti are converted, those after it untouched. *)
Converted ==
    /\ srci = 2 * desti + 2
    /\ desti \in 0..room
    /\ \A k \in 0 .. desti - 1: 2 * k + 2 < unicode.len /\ IsCharacter(buf[k], k)
    /\ \A k \in desti + 1 .. room: buf[k] = UNTOUCHED

ConversionInv ==
    /\ stage = "converting" => Converted
    /\ stage = "converted" => Converted /\ ~More /\ buf[desti] = 0

(* The search stands at a descriptor or at the end of the configuration, and *)
(* what it looks for is not behind it.                                       *)
SearchInv ==
    stage = "searching" /\ WellFormed(cfgDesc) =>
        /\ pos \in DOMAIN cfgDesc.at \cup {cfgDesc.total}
        /\ \A o \in DOMAIN cfgDesc.at: o < pos => ~Describes(cfgDesc.at[o])

DescInv == LocalsInv /\ ConversionInv /\ SearchInv /\ SearchIsExact

-----------------------------------------------------------------------------
(* A character that the loop looks at is in unicodeBuf, its high byte too. *)
LEMMA InUnicodeBuf ==
    ASSUME NEW a \in Answer, NEW k \in Nat, 2 * k + 2 < a.len
    PROVE  a.byte[2 * k + 2] \in Nat /\ a.byte[2 * k + 3] \in Nat
<1>1. a.len \in 0..UnicodeSize /\ a.byte \in [0 .. UnicodeSize - 1 -> Byte]
  BY DEF Answer
<1>2. UnicodeSize \in Nat /\ UnicodeSize % 2 = 0
  BY DescriptorsAssumption
<1>3. 2 * k + 2 \in 0 .. UnicodeSize - 1 /\ 2 * k + 3 \in 0 .. UnicodeSize - 1
  BY <1>1, <1>2
<1>4. Byte \subseteq Nat
  BY <1>2 DEF Byte
<1>. QED
  BY <1>1, <1>3, <1>4

(* What the assumption says of one configuration, and the empty one. *)
LEMMA ConfigurationTypes ==
    ASSUME NEW c \in Configurations \cup {Nothing}
    PROVE  /\ c.total \in Nat
           /\ DOMAIN c.at \subseteq Nat
           /\ \A o \in DOMAIN c.at: c.at[o] \in AnyDescriptor
BY DescriptorsAssumption DEF Nothing

(* The cleared locals of a call that is not running have their types. *)
LEMMA ClearedTypes ==
    /\ NoString \in Answer
    /\ [k \in {0} |-> UNTOUCHED] \in [0..0 -> Nat \cup {UNTOUCHED}]
<1>1. UnicodeSize \in Nat \ {0, 1}
  BY DescriptorsAssumption
<1>2. 0 \in Byte /\ 0 \in 0..UnicodeSize
  BY <1>1 DEF Byte
<1>3. NoString \in Answer
  BY <1>2 DEF NoString, Answer
<1>4. 0..0 = {0}
  OBVIOUS
<1>. QED
  BY <1>3, <1>4

-----------------------------------------------------------------------------
(* Starting a conversion clears the buffer and looks at the first character. *)
LEMMA StartConversionStep ==
    ASSUME DescInv, NEW answer \in StringAnswers, NEW n \in Rooms, StartConversion(answer, n)
    PROVE  DescInv'
<1>1. answer \in Answer /\ n \in Nat
  BY DescriptorsAssumption
<1>2. LocalsInv'
  BY <1>1 DEF StartConversion, DescInv, LocalsInv, searchVars
<1>3. ConversionInv'
  <2>1. /\ srci' = 2 /\ desti' = 0 /\ room' \in Nat
        /\ buf' = [k \in 0..n |-> UNTOUCHED] /\ room' = n
        /\ stage' # "converted"
    BY <1>1 DEF StartConversion
  <2>2. 0 .. desti' - 1 = {}
    BY <2>1
  <2>3. \A k \in desti' + 1 .. room': buf'[k] = UNTOUCHED
    BY <2>1
  <2>. QED
    BY <2>1, <2>2, <2>3 DEF ConversionInv, Converted
<1>4. SearchInv' /\ SearchIsExact'
  BY DEF StartConversion, SearchInv, SearchIsExact
<1>. QED
  BY <1>2, <1>3, <1>4 DEF DescInv

(* One turn of the loop converts one character. *)
LEMMA ConvertCharacterStep ==
    ASSUME DescInv, ConvertCharacter
    PROVE  DescInv'
<1>1. /\ stage = "converting" /\ Converted /\ LocalsInv
      /\ srci < unicode.len /\ desti < room
      /\ desti \in 0..room /\ desti' = desti + 1 /\ desti' \in 0..room /\ srci' = srci + 2
      /\ UNCHANGED <<stage, unicode, room, cfgDesc, searchVars>>
  BY DEF DescInv, ConversionInv, ConvertCharacter, More, LocalsInv, Converted
<1>2. unicode.byte[srci] \in Nat /\ unicode.byte[srci + 1] \in Nat
  BY <1>1, InUnicodeBuf DEF LocalsInv, Converted
<1>3. /\ buf' \in [0..room -> Nat \cup {UNTOUCHED}]
      /\ buf'[desti] = IF unicode.byte[srci + 1] # 0 THEN Question ELSE unicode.byte[srci]
      /\ \A k \in 0..room: k # desti => buf'[k] = buf[k]
  BY <1>1, <1>2, DescriptorsAssumption DEF ConvertCharacter, LocalsInv
<1>4. LocalsInv'
  BY <1>1, <1>3 DEF LocalsInv, searchVars
<1>5. \A k \in 0 .. desti' - 1: 2 * k + 2 < unicode'.len /\ IsCharacter(buf[k], k)'
  <2>. SUFFICES ASSUME NEW k \in 0 .. desti' - 1
                PROVE  2 * k + 2 < unicode'.len /\ IsCharacter(buf[k], k)'
    OBVIOUS
  <2>1. CASE k = desti
    BY <1>1, <1>3, <2>1 DEF IsCharacter, Converted, LocalsInv
  <2>2. CASE k # desti
    <3>1. k \in 0 .. desti - 1 /\ k \in 0..room
      BY <1>1, <2>2 DEF LocalsInv
    <3>. QED
      BY <1>1, <1>3, <2>2, <3>1 DEF IsCharacter, Converted
  <2>. QED
    BY <2>1, <2>2
<1>6. \A k \in desti' + 1 .. room': buf'[k] = UNTOUCHED
  BY <1>1, <1>3 DEF Converted, LocalsInv
<1>7. Converted'
  BY <1>1, <1>5, <1>6 DEF Converted, LocalsInv
<1>8. SearchInv' /\ SearchIsExact'
  BY <1>1 DEF SearchInv, SearchIsExact
<1>. QED
  BY <1>1, <1>4, <1>7, <1>8 DEF DescInv, ConversionInv

(* The terminator is the last byte that is written. *)
LEMMA TerminateStep ==
    ASSUME DescInv, Terminate
    PROVE  DescInv'
<1>1. /\ Converted /\ LocalsInv /\ ~More
      /\ desti \in 0..room
      /\ UNCHANGED <<unicode, room, srci, desti, cfgDesc, searchVars>>
      /\ stage' = "converted"
  BY DEF DescInv, ConversionInv, Terminate, Converted
<1>2. /\ buf' \in [0..room -> Nat \cup {UNTOUCHED}]
      /\ buf'[desti] = 0
      /\ \A k \in 0..room: k # desti => buf'[k] = buf[k]
  BY <1>1 DEF Terminate, LocalsInv
<1>3. LocalsInv'
  BY <1>1, <1>2 DEF LocalsInv, searchVars
<1>4. \A k \in 0 .. desti - 1: k \in 0..room /\ k # desti
  BY <1>1 DEF LocalsInv
<1>5. \A k \in desti + 1 .. room: k \in 0..room /\ k # desti
  BY <1>1 DEF LocalsInv
<1>6. Converted'
  BY <1>1, <1>2, <1>4, <1>5 DEF Converted, IsCharacter
<1>7. ConversionInv' /\ SearchInv' /\ SearchIsExact'
  BY <1>1, <1>2, <1>6 DEF ConversionInv, SearchInv, SearchIsExact, More
<1>. QED
  BY <1>3, <1>7 DEF DescInv

-----------------------------------------------------------------------------
(* What the search can see of a descriptor of a well-formed configuration    *)
(* tells whether it is the one it looks for.                                 *)
LEMMA SeenIsEnough ==
    ASSUME LocalsInv, WellFormed(cfgDesc), pos \in DOMAIN cfgDesc.at, NEW x \in Seen(pos)
    PROVE  /\ x.len = cfgDesc.at[pos].len
           /\ Matches(x) <=> Describes(cfgDesc.at[pos])
<1>. DEFINE y == cfgDesc.at[pos]
<1>1. /\ cfgDesc.total \in Nat /\ pos \in Nat /\ y \in AnyDescriptor
      /\ x \in AnyDescriptor
  BY ConfigurationTypes, DescriptorsAssumption DEF LocalsInv, Seen
<1>2. /\ y.len >= IF y.type = InterfaceType THEN InterfaceSize ELSE 2
      /\ pos + y.len <= cfgDesc.total
  BY DEF WellFormed
<1>3. pos + 1 < cfgDesc.total
  BY <1>1, <1>2 DEF InterfaceSize, AnyDescriptor
<1>4. x.len = y.len /\ x.type = y.type
  BY <1>3 DEF Seen
<1>5. y.type = InterfaceType => pos + 2 < cfgDesc.total /\ pos + 3 < cfgDesc.total
  BY <1>1, <1>2 DEF InterfaceSize, AnyDescriptor
<1>6. y.type = InterfaceType => x.number = y.number /\ x.alt = y.alt
  BY <1>5 DEF Seen
<1>. QED
  BY <1>4, <1>6 DEF Matches, Describes

(* One turn of the search finds the descriptor or leaves it behind. *)
LEMMA SearchNextStep ==
    ASSUME DescInv, SearchNext
    PROVE  DescInv'
<1>1. PICK x \in Seen(pos):
        \/ Matches(x) /\ stage' = "found" /\ UNCHANGED pos
        \/ ~Matches(x) /\ pos' = pos + x.len /\ UNCHANGED stage
  BY DEF SearchNext
<1>2. /\ stage = "searching" /\ pos < cfgDesc.total /\ LocalsInv
      /\ UNCHANGED <<stringVars, cfgDesc, wanted>>
      /\ x \in AnyDescriptor /\ x.len \in Nat
  BY DescriptorsAssumption DEF SearchNext, DescInv, Seen, AnyDescriptor
<1>3. LocalsInv'
  BY <1>1, <1>2 DEF LocalsInv, stringVars
<1>4. ConversionInv'
  BY <1>1, <1>2 DEF ConversionInv
<1>5. CASE ~WellFormed(cfgDesc)
  <2>1. SearchInv' /\ SearchIsExact'
    BY <1>2, <1>5 DEF SearchInv, SearchIsExact, WellFormed
  <2>. QED
    BY <1>3, <1>4, <2>1 DEF DescInv
<1>6. CASE WellFormed(cfgDesc)
  <2>1. /\ cfgDesc.total \in Nat /\ pos \in Nat
        /\ DOMAIN cfgDesc.at \subseteq Nat
        /\ \A o \in DOMAIN cfgDesc.at: cfgDesc.at[o] \in AnyDescriptor
    BY <1>2, ConfigurationTypes DEF LocalsInv
  <2>2. /\ pos \in DOMAIN cfgDesc.at
        /\ \A o \in DOMAIN cfgDesc.at: o < pos => ~Describes(cfgDesc.at[o])
    BY <1>2, <1>6, <2>1 DEF DescInv, SearchInv
  <2>3. /\ x.len = cfgDesc.at[pos].len
        /\ Matches(x) <=> Describes(cfgDesc.at[pos])
    BY <1>2, <1>6, <2>2, SeenIsEnough
  <2>4. /\ cfgDesc.at[pos].len \in Nat
        /\ pos + cfgDesc.at[pos].len \in DOMAIN cfgDesc.at \cup {cfgDesc.total}
        /\ pos + cfgDesc.at[pos].len <= cfgDesc.total
        /\ \A q \in DOMAIN cfgDesc.at: q <= pos \/ q >= pos + cfgDesc.at[pos].len
        /\ Describes(cfgDesc.at[pos]) => cfgDesc.at[pos].len >= InterfaceSize
    BY <1>6, <2>1, <2>2 DEF WellFormed, Describes, AnyDescriptor
  <2>5. CASE Matches(x) /\ stage' = "found" /\ UNCHANGED pos
    <3>1. pos + InterfaceSize <= cfgDesc.total
      BY <2>1, <2>3, <2>4, <2>5 DEF InterfaceSize
    <3>2. SearchInv' /\ SearchIsExact'
      BY <1>2, <2>2, <2>3, <2>5, <3>1 DEF SearchInv, SearchIsExact, Describes
    <3>. QED
      BY <1>3, <1>4, <3>2 DEF DescInv
  <2>6. CASE ~Matches(x) /\ pos' = pos + x.len /\ UNCHANGED stage
    <3>1. \A o \in DOMAIN cfgDesc.at: o < pos' => ~Describes(cfgDesc.at[o])
      <4>. SUFFICES ASSUME NEW o \in DOMAIN cfgDesc.at, o < pos'
                    PROVE  ~Describes(cfgDesc.at[o])
        OBVIOUS
      <4>1. o <= pos
        BY <2>1, <2>3, <2>4, <2>6
      <4>2. o < pos \/ o = pos
        BY <2>1, <4>1
      <4>. QED
        BY <2>2, <2>3, <2>6, <4>2
    <3>2. pos' \in DOMAIN cfgDesc.at \cup {cfgDesc.total}
      BY <2>3, <2>4, <2>6
    <3>3. SearchInv' /\ SearchIsExact'
      BY <1>2, <2>6, <3>1, <3>2 DEF SearchInv, SearchIsExact, Describes
    <3>. QED
      BY <1>3, <1>4, <3>3 DEF DescInv
  <2>. QED
    BY <1>1, <2>5, <2>6
<1>. QED
  BY <1>5, <1>6

(* The search ends behind every descriptor. *)
LEMMA SearchEndsStep ==
    ASSUME DescInv, SearchEnds
    PROVE  DescInv'
<1>1. /\ stage = "searching" /\ pos >= cfgDesc.total /\ stage' = "not found" /\ LocalsInv
      /\ UNCHANGED <<stringVars, cfgDesc, searchVars>>
  BY DEF SearchEnds, DescInv
<1>2. LocalsInv' /\ ConversionInv' /\ SearchInv'
  BY <1>1 DEF LocalsInv, ConversionInv, SearchInv, stringVars, searchVars
<1>3. SearchIsExact'
  <2>1. /\ cfgDesc.total \in Nat /\ pos \in Nat
        /\ DOMAIN cfgDesc.at \subseteq Nat
        /\ \A o \in DOMAIN cfgDesc.at: cfgDesc.at[o].len \in Nat
    BY <1>1, ConfigurationTypes DEF LocalsInv, AnyDescriptor
  <2>2. ASSUME WellFormed(cfgDesc), NEW o \in DOMAIN cfgDesc.at
        PROVE  ~Describes(cfgDesc.at[o])
    <3>1. cfgDesc.at[o].len > 0 /\ o + cfgDesc.at[o].len <= cfgDesc.total
      BY <2>1, <2>2 DEF WellFormed, InterfaceSize
    <3>2. o < pos
      <4>1. o \in Nat /\ cfgDesc.at[o].len \in Nat
        BY <2>1, <2>2
      <4>2. \A m, n, e, p \in Nat: n > 0 /\ m + n <= e /\ p >= e => m < p
        OBVIOUS
      <4>3. pos >= cfgDesc.total
        BY <1>1
      <4>. QED
        BY <2>1, <3>1, <4>1, <4>2, <4>3
    <3>. QED
      BY <1>1, <2>2, <3>2 DEF DescInv, SearchInv
  <2>. QED
    BY <1>1, <2>2 DEF SearchIsExact, Describes, searchVars
<1>. QED
  BY <1>2, <1>3 DEF DescInv

-----------------------------------------------------------------------------
(* Steps that are at rest between two calls. *)
LEMMA IdleSteps ==
    ASSUME DescInv,
           \/ \E stages: CallReturns(stages)
           \/ \E c \in Configurations: TakeConfiguration(c)
           \/ \E number, altsetting \in Number: StartSearch(number, altsetting)
    PROVE  DescInv'
<1>1. ASSUME NEW stages, CallReturns(stages) PROVE DescInv'
  BY <1>1, ClearedTypes
     DEF CallReturns, DescInv, LocalsInv, ConversionInv, SearchInv, SearchIsExact
<1>2. ASSUME NEW c \in Configurations, TakeConfiguration(c) PROVE DescInv'
  BY <1>2 DEF TakeConfiguration, DescInv, LocalsInv, ConversionInv, SearchInv, SearchIsExact,
              stringVars, searchVars
<1>3. ASSUME NEW number \in Number, NEW altsetting \in Number, StartSearch(number, altsetting)
      PROVE  DescInv'
  <2>1. LocalsInv' /\ ConversionInv' /\ SearchIsExact'
    BY <1>3 DEF StartSearch, DescInv, LocalsInv, ConversionInv, SearchIsExact, stringVars
  <2>2. DOMAIN cfgDesc.at \subseteq Nat
    BY ConfigurationTypes DEF DescInv, LocalsInv
  <2>3. SearchInv'
    BY <1>3, <2>2 DEF StartSearch, SearchInv, WellFormed
  <2>. QED
    BY <2>1, <2>3 DEF DescInv
<1>. QED
  BY <1>1, <1>2, <1>3

(* The invariant holds before the first call. *)
LEMMA DescInitInv == DescInit => DescInv
BY ClearedTypes DEF DescInit, DescInv, LocalsInv, ConversionInv, SearchInv, SearchIsExact

(* Every step of the two functions keeps the invariant. *)
LEMMA DescNextInv == DescInv /\ [DescNext]_descVars => DescInv'
<1>. SUFFICES ASSUME DescInv, [DescNext]_descVars PROVE DescInv'
  OBVIOUS
<1>1. CASE StringStep
  BY <1>1, StartConversionStep, ConvertCharacterStep, TerminateStep, IdleSteps DEF StringStep
<1>2. CASE SearchStep
  BY <1>2, SearchNextStep, SearchEndsStep, IdleSteps DEF SearchStep
<1>3. CASE UNCHANGED descVars
  BY <1>3 DEF descVars, stringVars, searchVars, DescInv, LocalsInv, ConversionInv, Converted, More,
              IsCharacter, SearchInv, SearchIsExact, Describes, WellFormed
<1>. QED
  BY <1>1, <1>2, <1>3 DEF DescNext

(* At the end of a conversion the invariant is the property. *)
LEMMA InvConverts == DescInv => ConversionIsExact
<1>. SUFFICES ASSUME DescInv, stage = "converted" PROVE ConversionIsExact
  BY DEF ConversionIsExact
<1>1. Converted /\ ~More /\ buf[desti] = 0 /\ LocalsInv
  BY DEF DescInv, ConversionInv
<1>2. desti = room \/ 2 * desti + 2 >= unicode.len
  BY <1>1 DEF Converted, More, LocalsInv, Answer
<1>. QED
  BY <1>1, <1>2 DEF Converted, ConversionIsExact

-----------------------------------------------------------------------------
(* A string is converted exactly, whatever the device answered and however   *)
(* small the buffer is; only the byte after a full buffer is written beyond  *)
(* it.                                                                       *)
THEOREM StringsAreConverted == DescSpec => []ConversionIsExact
BY DescInitInv, DescNextInv, InvConverts, PTL DEF DescSpec

(* The search is exact for every well-formed configuration of any length.    *)
THEOREM InterfacesAreFound == DescSpec => []SearchIsExact
<1>1. DescInv => SearchIsExact
  BY DEF DescInv
<1>. QED
  BY <1>1, DescInitInv, DescNextInv, PTL DEF DescSpec

(* The descriptor that a turn is about starts at pos. *)
LEMMA InvAdvances == DescInv => SearchAdvances
<1>. SUFFICES ASSUME DescInv, stage = "searching", WellFormed(cfgDesc), pos < cfgDesc.total, NEW x \in Seen(pos)
              PROVE  x.len >= 2 /\ pos + x.len <= cfgDesc.total
  BY DEF SearchAdvances
<1>1. /\ cfgDesc.total \in Nat /\ pos \in Nat /\ LocalsInv
      /\ \A o \in DOMAIN cfgDesc.at: cfgDesc.at[o] \in AnyDescriptor
  BY ConfigurationTypes DEF DescInv, LocalsInv
<1>2. pos \in DOMAIN cfgDesc.at
  BY <1>1 DEF DescInv, SearchInv
<1>3. x.len = cfgDesc.at[pos].len
  BY <1>1, <1>2, SeenIsEnough
<1>4. cfgDesc.at[pos].len \in Nat /\ cfgDesc.at[pos].len >= 2 /\ pos + cfgDesc.at[pos].len <= cfgDesc.total
  BY <1>1, <1>2 DEF WellFormed, AnyDescriptor, InterfaceSize
<1>. QED
  BY <1>3, <1>4

(* The search of a well-formed configuration of any length moves on and      *)
(* never leaves it.                                                          *)
THEOREM SearchesMoveOn == DescSpec => []SearchAdvances
BY DescInitInv, DescNextInv, InvAdvances, PTL DEF DescSpec
=============================================================================
