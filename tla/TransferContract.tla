--------------------------- MODULE TransferContract ---------------------------
(* What asynchronous I/O promises, whatever the platform.  A request is one  *)
(* successful usbusSubmitTransfer(): it is accepted only for an open device, *)
(* stays outstanding however often its device is closed, reopened or         *)
(* disposed, and is reported exactly once, to the callback of the transfer   *)
(* it was submitted for, if that has one.  While it is outstanding nobody    *)
(* changes or releases that transfer.                                        *)
EXTENDS Naturals

CONSTANTS
    Device, Transfer, Request, NULL,
    CloseForfeits   \* may closing a device end its requests with no report?

VARIABLES
    open,     \* the devices that are open
    info,     \* info[t]: NULL, or the fields the application gave transfer t
    phase,    \* phase[r]: "idle", "outstanding" or "reporting"
    subject   \* subject[r]: the transfer r was submitted for, NULL if r is idle

vars == <<open, info, phase, subject>>

Outstanding(t) == {r \in Request: phase[r] = "outstanding" /\ subject[r] = t}

Init ==
    /\ open = {}
    /\ info = [t \in Transfer |-> NULL]
    /\ phase = [r \in Request |-> "idle"]
    /\ subject = [r \in Request |-> NULL]

(* Opening, closing and disposing devices leaves every request alone.        *)
OpenOrClose ==
    /\ open' \in SUBSET Device
    /\ UNCHANGED <<info, phase, subject>>

(* On some platforms requests end with no report when d, or the interface    *)
(* they run on, is closed.                                                   *)
Forfeit(d) ==
    /\ CloseForfeits
    /\ d \in open
    /\ open' \in {open, open \ {d}}
    /\ \E gone \in SUBSET {r \in Request: phase[r] = "outstanding" /\ info[subject[r]].device = d}:
        /\ phase' = [r \in Request |-> IF r \in gone THEN "idle" ELSE phase[r]]
        /\ subject' = [r \in Request |-> IF r \in gone THEN NULL ELSE subject[r]]
    /\ UNCHANGED info

(* The application allocates, sets up or releases a transfer.                *)
Prepare(t) ==
    /\ Outstanding(t) = {}
    /\ \A u \in Transfer \ {t}: info'[u] = info[u]
    /\ UNCHANGED <<open, phase, subject>>

Accept(r, t) ==
    /\ phase[r] = "idle"
    /\ info[t] # NULL
    /\ info[t].device \in open
    /\ phase' = [phase EXCEPT ![r] = "outstanding"]
    /\ subject' = [subject EXCEPT ![r] = t]
    /\ UNCHANGED <<open, info>>

Report(r) ==
    /\ phase[r] = "outstanding"
    /\ info[subject[r]].callback
    /\ phase' = [phase EXCEPT ![r] = "reporting"]
    /\ UNCHANGED <<open, info, subject>>

(* A transfer without a callback completes silently. *)
Finish(r) ==
    /\ \/ phase[r] = "reporting"
       \/ phase[r] = "outstanding" /\ ~info[subject[r]].callback
    /\ phase' = [phase EXCEPT ![r] = "idle"]
    /\ subject' = [subject EXCEPT ![r] = NULL]
    /\ UNCHANGED <<open, info>>

Next ==
    \/ OpenOrClose
    \/ \E d \in Device: Forfeit(d)
    \/ \E t \in Transfer: Prepare(t)
    \/ \E r \in Request, t \in Transfer: Accept(r, t)
    \/ \E r \in Request: Report(r) \/ Finish(r)

Spec == Init /\ [][Next]_vars
=============================================================================
