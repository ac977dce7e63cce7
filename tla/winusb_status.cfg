(* Expected violation: a failed transfer is reported as canceled. *)
SPECIFICATION FairSpec
CONSTANTS
    d1 = d1
    d2 = d2
    h1 = h1
    h2 = h2
    t1 = t1
    t2 = t2
    w1 = w1
    w2 = w2
    w3 = w3
    NULL = NULL
    INVALID = INVALID
    Device = {d1}
    Handle = {h1}
    Transfer = {t1}
    Endpoint = {e1}
    Token = {w1}
    Interface <- OneInterface
    MaxDepth = 2
    CarefulApp = TRUE
    PortMayFail = FALSE
PROPERTIES
    CanceledMeansCanceled
