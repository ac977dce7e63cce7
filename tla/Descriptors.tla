----------------------------- MODULE Descriptors -----------------------------
(* The two loops of libusbus that run over descriptors a device made up:     *)
(* usbusGetStringDescriptorAscii() (descriptor.c) converts a string, and     *)
(* iokitGetInterfaceDescriptor() (iokit.c) searches the configuration for an *)
(* interface.  One call runs at a time; its variables are the locals of the  *)
(* function, and it ends in a stage that tells its result.                   *)
EXTENDS Integers

CONSTANTS
    UnicodeSize,     \* sizeof unicodeBuf, 256 in the code; also the number of byte values
    StringAnswers,   \* what devices can answer to a query for a string
    Rooms,           \* the sizes of the buffers that callers pass
    Question,        \* the character '?'
    Descriptor,      \* what the first four bytes of a descriptor can be
    Number,          \* the numbers of interfaces and of their alternate settings
    Configurations,  \* the configuration descriptors that devices have
    UNTOUCHED        \* what a byte of the caller's buffer is before the call

(* A string arrives in unicodeBuf, of which the device fills len bytes.  The *)
(* bytes after those were never initialized: they can have any value.        *)
Byte   == 0 .. UnicodeSize - 1
Answer == [byte: [0 .. UnicodeSize - 1 -> Byte], len: 0 .. UnicodeSize]

(* A configuration descriptor of total bytes is a chain: at[o] is the        *)
(* descriptor that starts at offset o.                                       *)
StringType    == 3
InterfaceType == 4
InterfaceSize == 9

AnyDescriptor == [len: Nat, type: Nat, number: Nat, alt: Nat]

ASSUME DescriptorsAssumption ==
    /\ UnicodeSize \in Nat \ {0, 1}
    /\ UnicodeSize % 2 = 0
    /\ StringAnswers \subseteq Answer
    /\ Rooms \subseteq Nat
    /\ Question \in Nat
    /\ Descriptor \subseteq AnyDescriptor
    /\ Number \subseteq Nat
    /\ 0 \in Number
    /\ \A c \in Configurations:
        /\ c = [at |-> c.at, total |-> c.total]
        /\ DOMAIN c.at \subseteq Nat
        /\ \A o \in DOMAIN c.at: c.at[o] \in Descriptor
        /\ c.total \in Nat
    /\ UNTOUCHED \notin Nat

VARIABLES
    stage,     \* "idle", "converting", "converted", "io error", "searching", "found", "not found"
    unicode,   \* unicodeBuf and unicodeLen
    room,      \* the size of the caller's buffer
    buf,       \* that buffer, and the byte after its end
    srci, desti,
    cfgDesc,   \* the configuration descriptor of the device that is open
    wanted,    \* interfaceNumber and altsetting
    pos        \* the offset of p in the configuration descriptor

stringVars == <<unicode, room, buf, srci, desti>>
searchVars == <<wanted, pos>>
descVars   == <<stage, stringVars, cfgDesc, searchVars>>

NoString == [byte |-> [k \in 0 .. UnicodeSize - 1 |-> 0], len |-> 0]
Nothing  == [at |-> [o \in {} |-> 0], total |-> 0]

DescInit ==
    /\ stage = "idle"
    /\ unicode = NoString /\ room = 0 /\ buf = [k \in {0} |-> UNTOUCHED]
    /\ srci = 0 /\ desti = 0
    /\ cfgDesc = Nothing
    /\ wanted = [number |-> 0, alt |-> 0] /\ pos = 0

(* The call returns: its locals are gone. *)
CallReturns(stages) ==
    /\ stage \in stages
    /\ stage' = "idle"
    /\ unicode' = NoString /\ room' = 0 /\ buf' = [k \in {0} |-> UNTOUCHED]
    /\ srci' = 0 /\ desti' = 0
    /\ wanted' = [number |-> 0, alt |-> 0] /\ pos' = 0
    /\ UNCHANGED cfgDesc

-----------------------------------------------------------------------------
(* usbusGetStringDescriptorAscii().                                          *)

(* The platform has answered the query, and the answer says that it is a     *)
(* string of the length that has arrived.  n is the size of the buffer.      *)
StartConversion(answer, n) ==
    /\ stage = "idle"
    /\ stage' = IF answer.byte[1] = StringType /\ answer.byte[0] = answer.len
                THEN "converting" ELSE "io error"
    /\ unicode' = answer
    /\ room' = n
    /\ buf' = [k \in 0..n |-> UNTOUCHED]
    /\ srci' = 2 /\ desti' = 0
    /\ UNCHANGED <<cfgDesc, searchVars>>

(* A mutation: the loop does not look at the size of the caller's buffer.    *)
MoreUnbounded == srci < unicode.len /\ desti < UnicodeSize

More == srci < unicode.len /\ desti < room

(* One turn of the loop.  An odd length makes the last turn look at a byte   *)
(* that the device has not sent.                                             *)
ConvertCharacter ==
    /\ stage = "converting"
    /\ More
    /\ buf' = [buf EXCEPT ![desti] = IF unicode.byte[srci + 1] # 0 THEN Question
                                                                  ELSE unicode.byte[srci]]
    /\ srci' = srci + 2
    /\ desti' = desti + 1
    /\ UNCHANGED <<stage, unicode, room, cfgDesc, searchVars>>

(* The string is terminated, in the byte after the buffer if it is full. *)
Terminate ==
    /\ stage = "converting"
    /\ ~More
    /\ buf' = [buf EXCEPT ![desti] = 0]
    /\ stage' = "converted"
    /\ UNCHANGED <<unicode, room, srci, desti, cfgDesc, searchVars>>

-----------------------------------------------------------------------------
(* iokitGetInterfaceDescriptor().                                            *)

(* iokitOpen() takes the descriptor of the first configuration. *)
TakeConfiguration(c) ==
    /\ stage = "idle"
    /\ cfgDesc' = c
    /\ UNCHANGED <<stage, stringVars, searchVars>>

StartSearch(number, altsetting) ==
    /\ stage = "idle"
    /\ stage' = "searching"
    /\ wanted' = [number |-> number, alt |-> altsetting]
    /\ pos' = 0
    /\ UNCHANGED <<stringVars, cfgDesc>>

(* What the code can see at offset o: the descriptor that starts there, but  *)
(* anything where none starts, and anything in place of the bytes after the  *)
(* end.                                                                      *)
Seen(o) ==
    {x \in Descriptor: o \in DOMAIN cfgDesc.at =>
        /\ x.len = cfgDesc.at[o].len
        /\ o + 1 < cfgDesc.total => x.type = cfgDesc.at[o].type
        /\ o + 2 < cfgDesc.total => x.number = cfgDesc.at[o].number
        /\ o + 3 < cfgDesc.total => x.alt = cfgDesc.at[o].alt}

(* A mutation: the type of the descriptor is not looked at. *)
MatchesAnyType(x) == x.number = wanted.number /\ x.alt = wanted.alt

Matches(x) ==
    /\ x.type = InterfaceType
    /\ x.number = wanted.number
    /\ x.alt = wanted.alt

(* A mutation: the search does not step over a descriptor that is no interface. *)
SearchNextStays ==
    /\ stage = "searching"
    /\ pos < cfgDesc.total
    /\ \E x \in Seen(pos):
        \/ Matches(x) /\ stage' = "found" /\ UNCHANGED pos
        \/ /\ ~Matches(x)
           /\ pos' = IF x.type = InterfaceType THEN pos + x.len ELSE pos
           /\ UNCHANGED stage
    /\ UNCHANGED <<stringVars, cfgDesc, wanted>>

(* A mutation: the search steps on by the size of an interface descriptor. *)
SearchNextBySize ==
    /\ stage = "searching"
    /\ pos < cfgDesc.total
    /\ \E x \in Seen(pos):
        \/ Matches(x) /\ stage' = "found" /\ UNCHANGED pos
        \/ ~Matches(x) /\ pos' = pos + InterfaceSize /\ UNCHANGED stage
    /\ UNCHANGED <<stringVars, cfgDesc, wanted>>

(* One turn of the loop. *)
SearchNext ==
    /\ stage = "searching"
    /\ pos < cfgDesc.total
    /\ \E x \in Seen(pos):
        \/ Matches(x) /\ stage' = "found" /\ UNCHANGED pos
        \/ ~Matches(x) /\ pos' = pos + x.len /\ UNCHANGED stage
    /\ UNCHANGED <<stringVars, cfgDesc, wanted>>

SearchEnds ==
    /\ stage = "searching"
    /\ pos >= cfgDesc.total
    /\ stage' = "not found"
    /\ UNCHANGED <<stringVars, cfgDesc, searchVars>>

-----------------------------------------------------------------------------
StringStep ==
    \/ \E answer \in StringAnswers, n \in Rooms: StartConversion(answer, n)
    \/ ConvertCharacter \/ Terminate
    \/ CallReturns({"converted", "io error"})

SearchStep ==
    \/ \E c \in Configurations: TakeConfiguration(c)
    \/ \E number, altsetting \in Number: StartSearch(number, altsetting)
    \/ SearchNext \/ SearchEnds
    \/ CallReturns({"found", "not found"})

DescNext == StringStep \/ SearchStep

DescSpec == DescInit /\ [][DescNext]_descVars

-----------------------------------------------------------------------------
(* Properties.                                                               *)

(* The k-th character the caller should get: '?' unless the high byte is 0.  *)
(* Nothing is said of a high byte that was not sent.                         *)
IsCharacter(char, k) ==
    LET low  == unicode.byte[2 * k + 2]
        high == unicode.byte[2 * k + 3] IN
    /\ char \in {low, Question}
    /\ 2 * k + 3 < unicode.len => char = IF high = 0 THEN low ELSE Question

(* A conversion that succeeds returns the longest prefix of the string that  *)
(* fits, terminated, and *transferred (desti) is its length.  No byte before *)
(* the terminator is left out and none after it is written; the byte after   *)
(* the caller's buffer is written exactly if room characters were converted: *)
(* a caller needs a byte more than it says (descriptor.c:81-101).            *)
ConversionIsExact ==
    stage = "converted" =>
        /\ desti \in 0..room
        /\ \A k \in 0 .. desti - 1: 2 * k + 2 < unicode.len /\ IsCharacter(buf[k], k)
        /\ desti = room \/ 2 * desti + 2 >= unicode.len
        /\ buf[desti] = 0
        /\ \A k \in desti + 1 .. room: buf[k] = UNTOUCHED

(* A configuration that USB allows: its descriptors follow each other from   *)
(* the first byte to the last, and those of interfaces are complete.         *)
WellFormed(c) ==
    /\ 0 \in DOMAIN c.at
    /\ \A o \in DOMAIN c.at:
        /\ c.at[o].len >= IF c.at[o].type = InterfaceType THEN InterfaceSize ELSE 2
        /\ o + c.at[o].len \in DOMAIN c.at \cup {c.total}
        /\ o + c.at[o].len <= c.total
        /\ \A q \in DOMAIN c.at: q <= o \/ q >= o + c.at[o].len

Describes(x) == x.type = InterfaceType /\ x.number = wanted.number /\ x.alt = wanted.alt

(* In such a configuration the search returns the first descriptor of the    *)
(* interface and alternate setting asked for, and UsbusNotFound only if      *)
(* there is none, however interfaces, their alternate settings and other     *)
(* descriptors are mixed; and it copies no byte from beyond the end          *)
(* (iokit.c:603-645).                                                        *)
SearchIsExact ==
    WellFormed(cfgDesc) =>
        /\ stage = "found" =>
            /\ pos \in DOMAIN cfgDesc.at
            /\ Describes(cfgDesc.at[pos])
            /\ \A o \in DOMAIN cfgDesc.at: o < pos => ~Describes(cfgDesc.at[o])
            /\ pos + InterfaceSize <= cfgDesc.total
        /\ stage = "not found" => \A o \in DOMAIN cfgDesc.at: ~Describes(cfgDesc.at[o])

(* Each turn of a search of such a configuration has a descriptor in front   *)
(* of it, of two bytes at least, that ends in the configuration: the part    *)
(* that is left shrinks with every turn, so no length a device puts there    *)
(* holds the caller up or leads beyond the end (iokit.c:618-641).            *)
SearchAdvances ==
    stage = "searching" /\ WellFormed(cfgDesc) /\ pos < cfgDesc.total =>
        \A x \in Seen(pos): x.len >= 2 /\ pos + x.len <= cfgDesc.total
=============================================================================
