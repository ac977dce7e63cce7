(* One device, two transfers, three requests, two endpoints: resubmission, collective cancel, nested callbacks. *)
SPECIFICATION Spec
CONSTANTS
    d1 = d1
    d2 = d2
    h1 = h1
    h2 = h2
    t1 = t1
    t2 = t2
    w1 = w1
    w2 = w2
    w3 = w3
    NULL = NULL
    INVALID = INVALID
    Device = {d1}
    Handle = {h1}
    Transfer = {t1, t2}
    Endpoint = {e1, e2}
    Token = {w1, w2, w3}
    Interface <- OneInterface
    MaxDepth = 3
    CarefulApp = TRUE
    PortMayFail = FALSE
SYMMETRY Symmetry
INVARIANTS
    WotOwnership
    CompletionLedger
    NoReleasedInFlight
PROPERTIES
    AcceptedCellsAreFreed
    ImplementsContract
