(* Strings and configurations that devices made up: the two loops over descriptors. *)
SPECIFICATION ApartSpec
CONSTANTS
    UnicodeSize = 8
    StringAnswers <- SomeAnswers
    Rooms = {0, 1, 2, 3, 8}
    Question = 63
    Descriptor <- Items
    Number = {0, 1}
    Configurations <- SomeConfigurations
    UNTOUCHED = UNTOUCHED
INVARIANTS
    ConversionIsExact
    SearchIsExact
    SearchAdvances
