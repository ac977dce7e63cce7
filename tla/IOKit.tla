-------------------------------- MODULE IOKit --------------------------------
(* The OS X half of libusbus: platform/iokit.c under core.c and io.c, with   *)
(* the part of IOKit it drives (plug-in references, interfaces and pipes,    *)
(* run loop sources, notifications) modelled from how iokit.c uses it.       *)
(*                                                                           *)
(* Where the code calls through a reference that was released, was never     *)
(* taken or has been set to 0, the call is lost: what follows is undefined,  *)
(* and the model stops.  Most properties assume an application that keeps    *)
(* the rules of Disciplined, the ones the code turns out to need.            *)
EXTENDS UsbusCore

CONSTANTS
    DevRef,        \* the values a reference to a device plug-in can have
    Interface,     \* the indices of interfaces[]: 0 .. USBUS_MAX_INTERFACES-1
    Endpoints,     \* Endpoints[i]: the addresses of the pipes 1, 2, ... of interface i
    MaxOwed,       \* bound on the completions a transfer is owed at one time
    PipesMayFail,  \* can an interface fail to describe its pipes or to make its source?
    Disciplined    \* does the application keep the rules MayOpen, MayUse and MayStop?

(* A request the kernel has accepted.  Its result is "pending", then what the *)
(* kernel found, then "delivered" while the callback of its transfer runs.   *)
Result  == {"success", "aborted", "failed"}
Request == [ref: DevRef, index: Interface, pipe: Nat, transfer: Transfer,
            aborting: BOOLEAN, result: {"pending", "delivered"} \cup Result]

ASSUME IOKitAssumption ==
    /\ NULL \notin DevRef \cup Request
    /\ Interface \subseteq Nat
    /\ Endpoint \subseteq Nat \ {0}
    /\ Endpoints \in [Interface -> Seq(Endpoint)]
    /\ MaxOwed \in Nat
    /\ PipesMayFail \in BOOLEAN /\ Disciplined \in BOOLEAN

VARIABLES
    portRef,    \* IOKitContext.portRef # NULL
    notes,      \* the notifications registered with the port
    dev,        \* IOKitDevice.dev
    devRef,     \* devRef[r]: "free", "idle" (held), or "open" (held, its device seized)
    tried,      \* tried[d]: has the application called usbusOpen() for d?
    intf,       \* intf[d]: the interfaces whose intf is not 0
    cached,     \* cached[d][i]: how many of interface i's epAddresses are filled
    source,     \* source[d][i]: runLoopSourceRef: "none", "live" or "released"
    usbIntf,    \* usbIntf[r][i]: "closed", "open", or "attached" (open, its source in the run loop)
    io          \* io[w]: NULL, or the request w

listenVars == <<portRef, notes>>
deviceVars == <<dev, devRef, tried>>
intfVars   == <<intf, cached, source, usbIntf>>
iokitVars  == <<listenVars, deviceVars, intfVars, io>>
vars       == <<coreVars, iokitVars>>

TypeOK ==
    /\ CoreTypeOK
    /\ portRef \in BOOLEAN
    /\ notes \subseteq {"matched", "terminated"}
    /\ dev \in [Device -> DevRef \cup {NULL}]
    /\ devRef \in [DevRef -> {"free", "idle", "open"}]
    /\ tried \in [Device -> BOOLEAN]
    /\ intf \in [Device -> SUBSET Interface]
    /\ cached \in [Device -> [Interface -> Nat]]
    /\ source \in [Device -> [Interface -> {"none", "live", "released"}]]
    /\ usbIntf \in [DevRef -> [Interface -> {"closed", "open", "attached"}]]
    /\ io \in [Token -> {NULL} \cup Request]

Outstanding(w) == io[w] # NULL /\ io[w].result # "delivered"
Reporting(w)   == io[w] # NULL /\ io[w].result = "delivered"

AllInterfaces(x) == [i \in Interface |-> x]

Init ==
    /\ CoreInit
    /\ portRef = FALSE /\ notes = {}
    /\ dev = [d \in Device |-> NULL]
    /\ devRef = [r \in DevRef |-> "free"]
    /\ tried = [d \in Device |-> FALSE]
    /\ intf = [d \in Device |-> {}]
    /\ cached = [d \in Device |-> AllInterfaces(0)]
    /\ source = [d \in Device |-> AllInterfaces("none")]
    /\ usbIntf = [r \in DevRef |-> AllInterfaces("closed")]
    /\ io = [w \in Token |-> NULL]

-----------------------------------------------------------------------------
(* Listening.  iokitListen() creates the port, loops over the devices that   *)
(* are there, and then over those that have gone.                            *)

(* The call fails before its first loop, but the port stays in portRef: from *)
(* then on iokitListen() takes the context for one that is listening.        *)
ListenFails ==
    /\ AppRuns
    /\ ~portRef
    /\ portRef' = TRUE
    /\ UNCHANGED <<coreVars, notes, deviceVars, intfVars, io>>

iokitListen ==
    /\ usbusListen
    /\ ~portRef
    /\ portRef' = TRUE
    /\ notes' = notes \cup {"matched"}
    /\ UNCHANGED <<deviceVars, intfVars, io>>

(* The second notification cannot be registered: the function returns -1. *)
ListenStopsEarly ==
    /\ ListenReturns
    /\ portRef
    /\ UNCHANGED iokitVars

ListenGoesOn ==
    /\ ListenContinues
    /\ portRef
    /\ notes' = notes \cup {"terminated"}
    /\ UNCHANGED <<portRef, deviceVars, intfVars, io>>

(* A connected callback of the first loop has stopped listening: the second  *)
(* notification is registered with a port that is not there.                 *)
ListenIsLost ==
    /\ Waiting("listen")
    /\ ~portRef
    /\ frames' = Append(frames, LostFrame("lost port"))
    /\ UNCHANGED <<mem, isOpen, transfer, owed, iokitVars>>

(* A disciplined application stops listening in no callback of usbusListen(). *)
MayStop == Disciplined => \A i \in DOMAIN frames: frames[i].kind # "listen"

iokitStopListen ==
    /\ AppRuns
    /\ portRef
    /\ MayStop
    /\ portRef' = FALSE
    /\ notes' = {}
    /\ UNCHANGED <<coreVars, deviceVars, intfVars, io>>

(* usbusProcessEvents() finds a notification of the port. *)
NotifyDiscovered == "matched" \in notes /\ LoopStarts("discovered") /\ UNCHANGED iokitVars

NotifyTerminated == "terminated" \in notes /\ LoopStarts("terminated") /\ UNCHANGED iokitVars

DiscoveryEnds == LoopEnds("discovered") /\ UNCHANGED iokitVars

TerminationEnds == LoopEnds("terminated") /\ UNCHANGED iokitVars

-----------------------------------------------------------------------------
(* The loops' bodies: deviceDiscoveredCallback(), deviceTerminatedCallback().*)

(* A plug-in reference that nothing is left of, and its creation. *)
Fresh(r) ==
    /\ devRef[r] = "free"
    /\ usbIntf[r] = AllInterfaces("closed")
    /\ \A w \in Token: Outstanding(w) => io[w].ref # r

TakeRef(r) == Fresh(r) /\ devRef' = [devRef EXCEPT ![r] = "idle"]

DiscoverDevice(d, r) ==
    /\ dispatchConnectedDevice(d)
    /\ TakeRef(r)
    /\ dev' = [dev EXCEPT ![d] = r]
    /\ tried' = [tried EXCEPT ![d] = FALSE]
    /\ intf' = [intf EXCEPT ![d] = {}]
    /\ cached' = [cached EXCEPT ![d] = AllInterfaces(0)]
    /\ source' = [source EXCEPT ![d] = AllInterfaces("none")]
    /\ UNCHANGED <<listenVars, usbIntf, io>>

(* A hub is skipped, and its reference is not released. *)
DiscoverHub(r) ==
    /\ Enumerating
    /\ TakeRef(r)
    /\ UNCHANGED <<coreVars, listenVars, dev, tried, intfVars, io>>

(* ctx->disconnected gets a reference of its own, which nothing releases. *)
TerminateDevice(r) ==
    /\ DisconnectedCall
    /\ TakeRef(r)
    /\ UNCHANGED <<listenVars, dev, tried, intfVars, io>>

DisconnectedCallbackReturns == DisconnectedReturns /\ UNCHANGED iokitVars

AppKeepsDevice == KeepDevice /\ UNCHANGED iokitVars

ConnectedCallbackReturns == ConnectedReturns /\ UNCHANGED iokitVars

Dispose(d) == usbusDispose(d) /\ UNCHANGED iokitVars

-----------------------------------------------------------------------------
(* Opening and closing devices.                                              *)

(* dev points at a reference that is held. *)
Held(d) == dev[d] # NULL /\ devRef[dev[d]] # "free"

(* A disciplined application gives a device up once it was closed or could   *)
(* not be opened.                                                            *)
MayOpen(d) == Disciplined => ~tried[d]

(* iokitOpen() before it calls USBDeviceOpenSeize(), and what that does.     *)
OpenCall(d, r) ==
    /\ usbusOpen(d, r)
    /\ MayOpen(d) /\ Held(d)
    /\ tried' = [tried EXCEPT ![d] = TRUE]
    /\ UNCHANGED <<listenVars, dev, intfVars, io>>

DescriptorFails(d) == OpenCall(d, Failed) /\ UNCHANGED devRef

(* The device cannot be seized: its reference is released, dev keeps it. *)
SeizeFails(d) == OpenCall(d, Failed) /\ devRef' = [devRef EXCEPT ![dev[d]] = "free"]

(* The device is seized; r is Failed if its configuration cannot be set, and *)
(* then it stays seized.                                                     *)
Seized(d, r) == OpenCall(d, r) /\ devRef' = [devRef EXCEPT ![dev[d]] = "open"]

iokitOpen(d) ==
    \/ DescriptorFails(d)
    \/ SeizeFails(d)
    \/ Seized(d, Failed)
    \/ Seized(d, UsbusOK)

(* Closing the interfaces is of d: their sources leave the run loop and are  *)
(* released, so the reports of their requests are never delivered.           *)
CloseInterfaces(d, is) ==
    LET gone(w) == Outstanding(w) /\ io[w].ref = dev[d] /\ io[w].index \in is IN
    /\ \A i \in is: source[d][i] = "live"
    /\ intf' = [intf EXCEPT ![d] = @ \ is]
    /\ source' = [source EXCEPT ![d] = [i \in Interface |-> IF i \in is THEN "released" ELSE @[i]]]
    /\ usbIntf' = [usbIntf EXCEPT ![dev[d]] = [i \in Interface |-> IF i \in is THEN "closed" ELSE @[i]]]
    /\ io' = [w \in Token |-> IF gone(w) THEN NULL ELSE io[w]]
    /\ UNCHANGED cached

(* A mutation: iokitClose() that leaves the interfaces to the system. *)
iokitCloseKeepsInterfaces(d) ==
    /\ usbusClose(d)
    /\ Held(d)
    /\ devRef' = [devRef EXCEPT ![dev[d]] = "free"]
    /\ dev' = [dev EXCEPT ![d] = NULL]
    /\ UNCHANGED <<listenVars, tried, intfVars, io>>

iokitClose(d) ==
    /\ usbusClose(d)
    /\ Held(d)
    /\ CloseInterfaces(d, intf[d])
    /\ devRef' = [devRef EXCEPT ![dev[d]] = "free"]
    /\ dev' = [dev EXCEPT ![d] = NULL]
    /\ UNCHANGED <<listenVars, tried>>

(* The calls that go through dev when it is 0 or released: opening, closing  *)
(* and the two configuration calls, which core.c does not gate.              *)
WildDeviceCall(d) ==
    /\ CallIsLost(d, "lost device")
    /\ Disciplined => isOpen[d] \/ ~tried[d]
    /\ ~Held(d)
    /\ UNCHANGED iokitVars

-----------------------------------------------------------------------------
(* Opening and closing interfaces.                                           *)

(* No plug-in can be had, or USBInterfaceOpen() fails, as it must if someone *)
(* has the interface open: intf ends up 0, whatever it was.                  *)
InterfaceRefused(d, index) ==
    /\ InterfaceCall(d)
    /\ Held(d)
    /\ Disciplined => index \notin intf[d]
    /\ intf' = [intf EXCEPT ![d] = @ \ {index}]
    /\ UNCHANGED <<listenVars, deviceVars, cached, source, usbIntf, io>>

(* USBInterfaceOpen() succeeds; populateEPAddressesForInterface() fills n    *)
(* slots, and those a previous call has filled stay.                         *)
InterfaceOpened(d, index, n, state) ==
    /\ InterfaceCall(d)
    /\ Held(d)
    /\ usbIntf[dev[d]][index] = "closed"
    /\ intf' = [intf EXCEPT ![d] = @ \cup {index}]
    /\ usbIntf' = [usbIntf EXCEPT ![dev[d]][index] = state]
    /\ cached' = [cached EXCEPT ![d][index] = IF @ > n THEN @ ELSE n]
    /\ UNCHANGED <<listenVars, deviceVars, io>>

(* The pipes cannot be described, or the source cannot be made: the function *)
(* returns -1 and leaves the interface open and intf set.                    *)
InterfaceHalfOpen(d, index) ==
    /\ PipesMayFail
    /\ \E n \in 0..Len(Endpoints[index]): InterfaceOpened(d, index, n, "open")
    /\ UNCHANGED source

(* Mutations: the source is not remembered, or not added to the run loop, or *)
(* intf is cleared as if USBInterfaceOpen() had failed.                      *)
InterfaceReadyForgetsSource(d, index) ==
    /\ InterfaceOpened(d, index, Len(Endpoints[index]), "attached")
    /\ UNCHANGED source

InterfaceReadyUnscheduled(d, index) ==
    /\ InterfaceOpened(d, index, Len(Endpoints[index]), "open")
    /\ source' = [source EXCEPT ![d][index] = "live"]

InterfaceReadyClearsIntf(d, index) ==
    /\ InterfaceCall(d)
    /\ Held(d)
    /\ usbIntf[dev[d]][index] = "closed"
    /\ intf' = [intf EXCEPT ![d] = @ \ {index}]
    /\ usbIntf' = [usbIntf EXCEPT ![dev[d]][index] = "attached"]
    /\ cached' = [cached EXCEPT ![d][index] = Len(Endpoints[index])]
    /\ source' = [source EXCEPT ![d][index] = "live"]
    /\ UNCHANGED <<listenVars, deviceVars, io>>

InterfaceReady(d, index) ==
    /\ InterfaceOpened(d, index, Len(Endpoints[index]), "attached")
    /\ source' = [source EXCEPT ![d][index] = "live"]

iokitOpenInterface(d, index) ==
    \/ InterfaceRefused(d, index)
    \/ InterfaceHalfOpen(d, index)
    \/ InterfaceReady(d, index)

(* An interface whose intf is 0 is left alone. *)
iokitCloseInterface(d, index) ==
    /\ InterfaceCall(d)
    /\ Held(d)
    /\ index \in intf[d]
    /\ CloseInterfaces(d, {index})
    /\ UNCHANGED <<listenVars, deviceVars>>

(* usbusClose() or usbusCloseInterface() comes to an interface whose intf is *)
(* set and whose source is 0 or released.                                    *)
WildSourceCall(d) ==
    /\ CallIsLost(d, "lost source")
    /\ isOpen[d]
    /\ \E i \in intf[d]: source[d][i] # "live"
    /\ UNCHANGED iokitVars

-----------------------------------------------------------------------------
(* Transfers.                                                                *)

AllocateTransfer(t) == usbusAllocateTransfer(t) /\ UNCHANGED iokitVars

ReleaseTransfer(t) == usbusReleaseTransfer(t) /\ UNCHANGED iokitVars

SetTransferInfo(t) ==
    /\ \E d \in Device, ep \in Endpoint, cb \in BOOLEAN: usbusSetBulkTransferInfo(t, d, ep, cb)
    /\ UNCHANGED iokitVars

(* The slots of the cache that hold ep, as pairs of an interface and a       *)
(* pipeRef, and the one pipeRefForEP() finds first.                          *)
Slots(d, ep) == {p \in Interface \X (1..Cardinality(Endpoint)):
                    p[2] <= cached[d][p[1]] /\ Endpoints[p[1]][p[2]] = ep}

pipeRefForEP(d, ep) == CHOOSE p \in Slots(d, ep):
    \A q \in Slots(d, ep): p[1] < q[1] \/ (p[1] = q[1] /\ p[2] <= q[2])

(* A disciplined application uses the endpoints of open interfaces only.     *)
MayUse(d, ep) == Disciplined => \E i \in intf[d]: ep \in ToSet(Endpoints[i])

(* What submitting and canceling t have in common: its endpoint is in the    *)
(* cache, and they go through the interface p[1].                            *)
PipeCall(t, p) ==
    LET d == Info(t).device IN
    /\ MayUse(d, Info(t).endpoint)
    /\ Slots(d, Info(t).endpoint) # {}
    /\ p = pipeRefForEP(d, Info(t).endpoint)
    /\ p[1] \in intf[d]

StartIO(w, t, p) ==
    /\ io[w] = NULL
    /\ source[Info(t).device][p[1]] = "live"
    /\ io' = [io EXCEPT ![w] = [ref |-> dev[Info(t).device], index |-> p[1], pipe |-> p[2],
                                transfer |-> t, aborting |-> FALSE, result |-> "pending"]]

(* A mutation: an accepted request is reported to the application as refused. *)
SubmitSaysRefused(t, w) ==
    \E p \in Interface \X (1..Cardinality(Endpoint)):
        /\ usbusSubmitTransfer(t, Failed)
        /\ PipeCall(t, p)
        /\ StartIO(w, t, p)
        /\ UNCHANGED <<listenVars, deviceVars, intfVars>>

(* ReadPipeAsync() or WritePipeAsync() takes the request.  If it does not,   *)
(* as on an interface without a source, nothing changes.                     *)
iokitSubmitTransfer(t, w) ==
    \E p \in Interface \X (1..Cardinality(Endpoint)):
        /\ usbusSubmitTransfer(t, UsbusOK)
        /\ owed[t] < MaxOwed
        /\ PipeCall(t, p)
        /\ StartIO(w, t, p)
        /\ UNCHANGED <<listenVars, deviceVars, intfVars>>

(* AbortPipe() is passed the endpoint address for a pipeRef.                 *)
iokitCancelTransfer(t) ==
    \E p \in Interface \X (1..Cardinality(Endpoint)):
        /\ usbusCancelTransfer(t)
        /\ PipeCall(t, p)
        /\ io' = [w \in Token |->
                    IF /\ io[w] # NULL /\ io[w].result = "pending"
                       /\ io[w].ref = dev[Info(t).device] /\ io[w].index = p[1]
                       /\ io[w].pipe = Info(t).endpoint
                    THEN [io[w] EXCEPT !.aborting = TRUE] ELSE io[w]]
        /\ UNCHANGED <<listenVars, deviceVars, intfVars>>

(* The cache still has the endpoint for an interface that was closed. *)
WildPipeUse(d, ep) ==
    /\ CallIsLost(d, "lost interface")
    /\ MayUse(d, ep)
    /\ Slots(d, ep) # {}
    /\ pipeRefForEP(d, ep)[1] \notin intf[d]
    /\ UNCHANGED iokitVars

(* Submitting, canceling. *)
WildPipeCall(t) == TransferCall(t) /\ WildPipeUse(Info(t).device, Info(t).endpoint)

(* Synchronous transfers change nothing, unless they are lost in this way. *)
WildSyncCall(d) == isOpen[d] /\ \E ep \in Endpoint: WildPipeUse(d, ep)

-----------------------------------------------------------------------------
(* Completions.                                                              *)

StatusOf(result) ==
    CASE result = "success" -> UsbusComplete
      [] result = "aborted" -> UsbusCanceled
      [] result = "failed"  -> UsbusStatusGenericError

(* The kernel finishes a request and sends its result to the interface. *)
IOCompletes(w, result) ==
    /\ io[w] # NULL /\ io[w].result = "pending"
    /\ result = "aborted" => io[w].aborting
    /\ io' = [io EXCEPT ![w].result = result]
    /\ UNCHANGED <<coreVars, listenVars, deviceVars, intfVars>>

(* iokitProcessEvents() runs the run loop, which handles one source: it      *)
(* calls iokitAsyncIOCallback() for a result of that interface.              *)
iokitProcessEvents(w) ==
    /\ Outstanding(w) /\ io[w].result # "pending"
    /\ usbIntf[io[w].ref][io[w].index] = "attached"
    /\ usbusProcessEvents(io[w].transfer, w, StatusOf(io[w].result))
    /\ io' = IF Info(io[w].transfer).callback THEN [io EXCEPT ![w].result = "delivered"]
                                              ELSE [io EXCEPT ![w] = NULL]
    /\ UNCHANGED <<listenVars, deviceVars, intfVars>>

TransferCallbackReturns ==
    /\ TransferReturns
    /\ io' = [io EXCEPT ![Last(frames).token] = NULL]
    /\ UNCHANGED <<listenVars, deviceVars, intfVars>>

(* A lost call does not return. *)
StaysLost == (\E kind \in Lost: Waiting(kind)) /\ UNCHANGED vars

-----------------------------------------------------------------------------
ListenStep ==
    \/ ListenFails \/ iokitListen \/ iokitStopListen
    \/ ListenStopsEarly \/ ListenGoesOn \/ ListenIsLost
    \/ NotifyDiscovered \/ NotifyTerminated \/ DiscoveryEnds \/ TerminationEnds
    \/ \E r \in DevRef: DiscoverHub(r) \/ TerminateDevice(r)
    \/ DisconnectedCallbackReturns \/ AppKeepsDevice \/ ConnectedCallbackReturns

DeviceStep(d) ==
    \/ \E r \in DevRef: DiscoverDevice(d, r)
    \/ Dispose(d) \/ iokitOpen(d) \/ iokitClose(d)
    \/ \E index \in Interface: iokitOpenInterface(d, index) \/ iokitCloseInterface(d, index)
    \/ WildDeviceCall(d) \/ WildSourceCall(d) \/ WildSyncCall(d)

TransferStep(t) ==
    \/ AllocateTransfer(t) \/ ReleaseTransfer(t) \/ SetTransferInfo(t)
    \/ \E w \in Token: iokitSubmitTransfer(t, w)
    \/ iokitCancelTransfer(t) \/ WildPipeCall(t)

Next ==
    \/ ListenStep
    \/ \E d \in Device: DeviceStep(d)
    \/ \E t \in Transfer: TransferStep(t)
    \/ \E w \in Token, result \in Result: IOCompletes(w, result)
    \/ \E w \in Token: iokitProcessEvents(w)
    \/ TransferCallbackReturns \/ StaysLost

Spec == Init /\ [][Next]_vars

(* The kernel finishes what it has aborted.  The application calls           *)
(* usbusProcessEvents() at regular intervals, as the ReadMe asks, the run    *)
(* loop starves no source, and every callback and every loop ends.           *)
Fairness ==
    /\ \A w \in Token: WF_vars(io[w] # NULL /\ io[w].aborting /\ \E result \in Result: IOCompletes(w, result))
    /\ \A w \in Token: SF_vars(iokitProcessEvents(w))
    /\ SF_vars(TransferCallbackReturns)
    /\ SF_vars(ConnectedCallbackReturns)
    /\ SF_vars(DisconnectedCallbackReturns)
    /\ SF_vars(ListenStopsEarly \/ ListenGoesOn)
    /\ SF_vars(DiscoveryEnds)
    /\ SF_vars(TerminationEnds)

FairSpec == Spec /\ Fairness

-----------------------------------------------------------------------------
(* Properties.                                                               *)

IsOpenDevice(d) == mem[d] = "live" /\ isOpen[d]

(* Every open device has the device seized through a reference of its own,   *)
(* and every interface whose intf is set is open with a live source in the   *)
(* run loop, so that everything a close gives back was taken, and only once, *)
(* after any number of refused opens and closes (iokit.c:429-502, 529-583).  *)
OpenDevicesHoldReferences ==
    \A d \in Device: IsOpenDevice(d) =>
        /\ dev[d] \in DevRef
        /\ devRef[dev[d]] = "open"
        /\ \A i \in intf[d]: usbIntf[dev[d]][i] = "attached" /\ source[d][i] = "live"
        /\ \A e \in Device \ {d}: mem[e] = "live" /\ dev[e] = dev[d] => ~isOpen[e]

(* A disciplined application never makes the library call through a          *)
(* reference that was released or set to 0, although closed and failed       *)
(* devices keep such references, the cache keeps the endpoints of closed     *)
(* interfaces and usbusListen() reads the port again after its callbacks     *)
(* (iokit.c:115, 401, 490-491, 554, 582).                                    *)
NoWildCall == \A kind \in Lost: ~Waiting(kind)

(* A request runs on the pipe of its transfer's endpoint, on an interface    *)
(* of its transfer's device that is still open and whose source is in the    *)
(* run loop: closing leaves no request behind, and what a failed or repeated *)
(* opening left in the cache sends no request astray, when devices are       *)
(* closed before disposal (iokit.c:110-120, 572-583, 703-731).               *)
RequestsOnOwnInterface ==
    \A w \in Token: Outstanding(w) =>
        /\ usbIntf[io[w].ref][io[w].index] = "attached"
        /\ io[w].pipe \in DOMAIN Endpoints[io[w].index]
        /\ Endpoints[io[w].index][io[w].pipe] = Info(io[w].transfer).endpoint
        /\ LET d == Info(io[w].transfer).device IN
           IsOpenDevice(d) /\ dev[d] = io[w].ref /\ io[w].index \in intf[d]

(* iokitAsyncIOCallback() writes to the transfer and calls through it: no    *)
(* request outlives the memory of its transfer (iokit.c:272-273, 305-307).   *)
NoReleasedInFlight == \A w \in Token: Outstanding(w) => transfer[io[w].transfer] # NULL

(* Asynchronous I/O on OS X is what the contract says, except that closing a *)
(* device or an interface ends its requests with no report.                  *)
OpenDevices == {d \in Device: IsOpenDevice(d)}
PhaseOf     == [w \in Token |-> IF Reporting(w) THEN "reporting"
                                ELSE IF Outstanding(w) THEN "outstanding" ELSE "idle"]
SubjectOf   == [w \in Token |-> IF io[w] # NULL THEN io[w].transfer ELSE NULL]

Contract == INSTANCE TransferContract WITH
    Request <- Token, CloseForfeits <- TRUE,
    open <- OpenDevices, info <- transfer, phase <- PhaseOf, subject <- SubjectOf

ImplementsContract == Contract!Spec

(* A request that was aborted or has a result is eventually reported, unless *)
(* a close ends it: while its interface stays open, its source stays in the  *)
(* run loop (iokit.c:468-474, 759-793).                                      *)
CompletionIsReported ==
    \A w \in Token: Outstanding(w) /\ (io[w].aborting \/ io[w].result # "pending") ~> ~Outstanding(w)

(* Refuted: canceling a transfer aborts only requests of its own endpoint.   *)
(* iokitCancelTransfer() looks up the pipeRef of the endpoint and passes the *)
(* endpoint itself (iokit.c:737, 742-749).                                   *)
CancelAbortsOwnEndpoint ==
    [][\A t \in Transfer: iokitCancelTransfer(t) =>
        \A w \in Token: io'[w] # io[w] => Info(io[w].transfer).endpoint = Info(t).endpoint]_vars
=============================================================================
