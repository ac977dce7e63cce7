(* Two devices, two references, two interfaces, notifications: a disciplined application never reaches a dead reference. *)
SPECIFICATION Spec
CONSTANTS
    d1 = d1
    d2 = d2
    r1 = r1
    r2 = r2
    t1 = t1
    t2 = t2
    w1 = w1
    w2 = w2
    NULL = NULL
    Device = {d1, d2}
    DevRef = {r1, r2}
    Transfer = {t1}
    Endpoint = {1, 129}
    Token = {w1}
    Interface <- TwoInterfaces
    Endpoints <- InThenOut
    MaxDepth = 2
    MaxOwed = 1
    CarefulApp = TRUE
    PipesMayFail = FALSE
    Disciplined = TRUE
SYMMETRY Symmetry
INVARIANTS
    TypeOK
    OpenDevicesHoldReferences
    NoWildCall
    RequestsOnOwnInterface
