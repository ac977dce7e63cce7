(* Two devices, two handle values, a completion port that may fail: only what the port strands leaks, and no open device is reached. *)
SPECIFICATION Spec
CONSTANTS
    d1 = d1
    d2 = d2
    h1 = h1
    h2 = h2
    t1 = t1
    t2 = t2
    w1 = w1
    w2 = w2
    w3 = w3
    NULL = NULL
    INVALID = INVALID
    Device = {d1, d2}
    Handle = {h1, h2}
    Transfer = {t1}
    Endpoint = {e1}
    Token = {w1, w2}
    Interface <- TwoInterfaces
    MaxDepth = 3
    CarefulApp = TRUE
    PortMayFail = TRUE
SYMMETRY Symmetry
INVARIANTS
    TypeOK
    OpenDevicesOwnHandles
    NothingLeaked
    IOOnOwnDevice
PROPERTIES
    OpenDeviceUndisturbed
