(* The echo client with failing devices, requests and submissions, and a second device that takes the place of the first. *)
SPECIFICATION FairEchoSpec
CONSTANTS
    d1 = d1
    d2 = d2
    r1 = r1
    r2 = r2
    t1 = t1
    t2 = t2
    t3 = t3
    w1 = w1
    w2 = w2
    w3 = w3
    NULL = NULL
    Device = {d1, d2}
    DevRef = {r1, r2}
    Rx = {t1}
    Tx = t2
    InEP = 129
    OutEP = 1
    Transfer = {t1, t2}
    Endpoint = {1, 129}
    Token = {w1, w2, w3}
    Interface <- OneInterface
    Endpoints <- InAndOut
    MaxDepth = 2
    MaxOwed = 1
    CarefulApp = FALSE
    PipesMayFail = TRUE
    Disciplined = FALSE
INVARIANTS
    OneTxInFlight
    RxStayPending
    HoldsLiveDevices
    NoWildCall
PROPERTIES
    EchoGoesOn
