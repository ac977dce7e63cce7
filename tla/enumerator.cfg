(* The enumerator on devices whose queries and interfaces may fail: it gives back what it opened. *)
SPECIFICATION FairEnumSpec
CONSTANTS
    d1 = d1
    r1 = r1
    r2 = r2
    t1 = t1
    w1 = w1
    NULL = NULL
    UNTOUCHED = UNTOUCHED
    Device = {d1}
    DevRef = {r1, r2}
    Transfer = {t1}
    Endpoint = {1, 129, 130}
    Token = {w1}
    Interface <- TwoInterfaces
    Endpoints <- TwoThenOne
    MaxDepth = 2
    MaxOwed = 1
    CarefulApp = FALSE
    PipesMayFail = TRUE
    Disciplined = FALSE
    UnicodeSize = 4
    StringAnswers <- SomeAnswers
    Rooms = {4}
    Question = 63
    Descriptor <- Items
    Number = {0, 1}
    Configurations <- SomeConfigurations
    QueriesMayFail = TRUE
    MaxConfigs = 2
    MaxInterfaces = 2
INVARIANTS
    LostOnlyInHalfOpen
    InterfacesGivenBack
PROPERTIES
    CallbackReturns
