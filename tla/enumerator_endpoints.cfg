(* Expected violation: the last endpoint of an interface is never reported. *)
SPECIFICATION EnumSpec
CONSTANTS
    d1 = d1
    r1 = r1
    r2 = r2
    t1 = t1
    w1 = w1
    NULL = NULL
    UNTOUCHED = UNTOUCHED
    Device = {d1}
    DevRef = {r1, r2}
    Transfer = {t1}
    Endpoint = {1, 129, 130}
    Token = {w1}
    Interface <- TwoInterfaces
    Endpoints <- TwoThenOne
    MaxDepth = 2
    MaxOwed = 1
    CarefulApp = FALSE
    PipesMayFail = FALSE
    Disciplined = FALSE
    UnicodeSize = 4
    StringAnswers <- GoodAnswers
    Rooms = {4}
    Question = 63
    Descriptor <- Items
    Number = {0, 1}
    Configurations <- GoodConfigurations
    QueriesMayFail = FALSE
    MaxConfigs = 2
    MaxInterfaces = 2
INVARIANTS
    EveryEndpointReported
