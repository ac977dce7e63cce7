(* Expected violation: canceling a transfer aborts the requests of another endpoint. *)
SPECIFICATION FairSpec
CONSTANTS
    d1 = d1
    d2 = d2
    r1 = r1
    r2 = r2
    t1 = t1
    t2 = t2
    w1 = w1
    w2 = w2
    NULL = NULL
    Device = {d1}
    DevRef = {r1}
    Transfer = {t1, t2}
    Endpoint = {1, 129}
    Token = {w1, w2}
    Interface <- OneInterface
    Endpoints <- InAndOut
    MaxDepth = 2
    MaxOwed = 1
    CarefulApp = TRUE
    PipesMayFail = FALSE
    Disciplined = TRUE
PROPERTIES
    CancelAbortsOwnEndpoint
