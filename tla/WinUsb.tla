-------------------------------- MODULE WinUsb --------------------------------
(* The Windows half of libusbus: platform/winusb.c under core.c and io.c,    *)
(* with the part of Windows it drives (files, WinUSB interface handles, one  *)
(* I/O completion port) modelled from how winusb.c uses it.                  *)
(*                                                                           *)
(* A submitted request is a WinOverlappedTransfer, a heap cell that passes   *)
(* from winusbSubmitTransfer() to the kernel (io), to the completion port    *)
(* (iocp), to winusbProcessEvents() (a frame of the call stack), which frees *)
(* it once the transfer's callback has returned.                             *)
EXTENDS UsbusCore

CONSTANTS
    Handle,      \* the values CreateFile() can return
    INVALID,     \* INVALID_HANDLE_VALUE
    Interface,   \* the indices of winusbHandles[]: 0 .. USBUS_MAX_INTERFACES-1
    PortMayFail  \* can CreateIoCompletionPort() fail?

(* Token: the heap cells a WinOverlappedTransfer can be allocated in.        *)
Wot == Token

(* What the kernel knows of a pending I/O: bound says if its file was bound  *)
(* to the port when it started, aborting if it has been canceled since.      *)
Pending == [file: Handle, endpoint: Endpoint, bound: BOOLEAN, aborting: BOOLEAN]
Result  == {"success", "failed", "aborted"}
Packet  == [ov: Wot, result: Result]

ASSUME WinUsbAssumption ==
    /\ INVALID \notin Handle \cup {NULL}
    /\ NULL \notin Handle
    /\ 0 \in Interface /\ Interface \subseteq Nat
    /\ PortMayFail \in BOOLEAN
    /\ NULL \notin Pending

VARIABLES
    deviceHandle,    \* WinUSBDevice.deviceHandle
    winusbHandles,   \* winusbHandles[d]: the indices at which the array is not NULL
    completionPort,  \* WinUSBContext.completionPort # NULL
    wot,             \* wot[w]: NULL if w is free, or WinOverlappedTransfer.t
    file,            \* file[h]: "closed", "open", or "bound" (open and bound to the port)
    intf,            \* the WinUSB interface handles: pairs of a file handle and an index
    io,              \* io[w]: NULL, or the I/O the kernel has pending on w->ov
    iocp             \* the queue of the completion port

winVars == <<deviceHandle, winusbHandles, completionPort, wot, file, intf, io, iocp>>
vars == <<coreVars, winVars>>

TypeOK ==
    /\ CoreTypeOK
    /\ deviceHandle \in [Device -> Handle \cup {INVALID, NULL}]
    /\ winusbHandles \in [Device -> SUBSET Interface]
    /\ completionPort \in BOOLEAN
    /\ wot \in [Wot -> Transfer \cup {NULL}]
    /\ file \in [Handle -> {"closed", "open", "bound"}]
    /\ intf \subseteq Handle \X Interface
    /\ io \in [Wot -> {NULL} \cup Pending]
    /\ iocp \in Seq(Packet)

Init ==
    /\ CoreInit
    /\ deviceHandle = [d \in Device |-> NULL]
    /\ winusbHandles = [d \in Device |-> {}]
    /\ completionPort = FALSE
    /\ wot = [w \in Wot |-> NULL]
    /\ file = [h \in Handle |-> "closed"]
    /\ intf = {}
    /\ io = [w \in Wot |-> NULL]
    /\ iocp = <<>>

-----------------------------------------------------------------------------
(* Enumeration.  populateDeviceDetails() also opens a file and closes it     *)
(* again, on every path, before it returns.                                  *)

winusbListen == usbusListen /\ UNCHANGED winVars

(* allocateDevice() clears the whole UsbusDevice. *)
ClearDevice(d) ==
    /\ deviceHandle' = [deviceHandle EXCEPT ![d] = NULL]
    /\ winusbHandles' = [winusbHandles EXCEPT ![d] = {}]
    /\ UNCHANGED <<completionPort, wot, file, intf, io, iocp>>

(* One turn of the loop of enumerateConnectedDevices(): the device is        *)
(* dispatched, or populateDeviceDetails() fails and it is forgotten.         *)
EnumerateDevice(d) == dispatchConnectedDevice(d) /\ ClearDevice(d)

SkipDevice(d) == AllocateAndLose(d) /\ ClearDevice(d)

EnumerationEnds == ListenReturns /\ UNCHANGED winVars

AppKeepsDevice == KeepDevice /\ UNCHANGED winVars

ConnectedCallbackReturns == ConnectedReturns /\ UNCHANGED winVars

Dispose(d) == usbusDispose(d) /\ UNCHANGED winVars

-----------------------------------------------------------------------------
(* winusbOpen(), one operator per way it can end.  CreateFile() returns some *)
(* value no open file has.                                                   *)

CreateFileFails(d) ==
    /\ usbusOpen(d, Failed)
    /\ deviceHandle' = [deviceHandle EXCEPT ![d] = INVALID]
    /\ winusbHandles' = [winusbHandles EXCEPT ![d] = {}]
    /\ UNCHANGED <<completionPort, wot, file, intf, io, iocp>>

(* The file is closed again, but its handle stays in deviceHandle. *)
InitializeFails(d, h) ==
    /\ usbusOpen(d, Failed)
    /\ file[h] = "closed"
    /\ deviceHandle' = [deviceHandle EXCEPT ![d] = h]
    /\ winusbHandles' = [winusbHandles EXCEPT ![d] = {}]
    /\ UNCHANGED <<completionPort, wot, file, intf, io, iocp>>

(* CreateFile() and WinUsb_Initialize() have succeeded with h; the file is   *)
(* left in the given state.                                                  *)
OpenedFile(d, h, state) ==
    /\ file[h] = "closed"
    /\ file' = [file EXCEPT ![h] = state]
    /\ intf' = intf \cup {<<h, 0>>}
    /\ deviceHandle' = [deviceHandle EXCEPT ![d] = h]
    /\ winusbHandles' = [winusbHandles EXCEPT ![d] = {0}]
    /\ UNCHANGED <<wot, io, iocp>>

(* The port cannot be created, or the file cannot be bound to it: the        *)
(* function returns -1 and closes nothing.                                   *)
PortFails(d, h) ==
    /\ PortMayFail
    /\ usbusOpen(d, Failed)
    /\ OpenedFile(d, h, "open")
    /\ completionPort' \in {completionPort, TRUE}

OpenSucceeds(d, h) ==
    /\ usbusOpen(d, UsbusOK)
    /\ OpenedFile(d, h, "bound")
    /\ completionPort' = TRUE

winusbOpen(d) ==
    \/ CreateFileFails(d)
    \/ \E h \in Handle: InitializeFails(d, h) \/ PortFails(d, h) \/ OpenSucceeds(d, h)

-----------------------------------------------------------------------------
(* CloseHandle(): the kernel cancels the I/O pending on the file.            *)
CloseHandle(h) ==
    /\ file' = [file EXCEPT ![h] = "closed"]
    /\ io' = [w \in Wot |-> IF io[w] # NULL /\ io[w].file = h
                            THEN [io[w] EXCEPT !.aborting = TRUE] ELSE io[w]]

(* Mutations: winusbClose() that frees only the first interface, and that    *)
(* frees the cells of the device's requests, so that they are never reported. *)
winusbCloseFirstOnly(d) ==
    LET h == deviceHandle[d] IN
    /\ usbusClose(d)
    /\ CloseHandle(h)
    /\ intf' = intf \ {<<h, 0>>}
    /\ deviceHandle' = [deviceHandle EXCEPT ![d] = INVALID]
    /\ winusbHandles' = [winusbHandles EXCEPT ![d] = {}]
    /\ UNCHANGED <<completionPort, wot, iocp>>

winusbCloseDropsIO(d) ==
    LET h == deviceHandle[d]
        dropped == {w \in Wot: io[w] # NULL /\ io[w].file = h} IN
    /\ usbusClose(d)
    /\ file' = [file EXCEPT ![h] = "closed"]
    /\ io' = [w \in Wot |-> IF w \in dropped THEN NULL ELSE io[w]]
    /\ wot' = [w \in Wot |-> IF w \in dropped THEN NULL ELSE wot[w]]
    /\ intf' = intf \ {<<h, i>> : i \in winusbHandles[d]}
    /\ deviceHandle' = [deviceHandle EXCEPT ![d] = INVALID]
    /\ winusbHandles' = [winusbHandles EXCEPT ![d] = {}]
    /\ UNCHANGED <<completionPort, iocp>>

(* usbusClose() has an open device closed: its file, if it has one, and      *)
(* every interface handle in the array.                                      *)
winusbClose(d) ==
    LET h == deviceHandle[d] IN
    /\ usbusClose(d)
    /\ IF h # INVALID THEN CloseHandle(h) ELSE UNCHANGED <<file, io>>
    /\ intf' = intf \ {<<h, i>> : i \in winusbHandles[d]}
    /\ deviceHandle' = [deviceHandle EXCEPT ![d] = INVALID]
    /\ winusbHandles' = [winusbHandles EXCEPT ![d] = {}]
    /\ UNCHANGED <<completionPort, wot, iocp>>

-----------------------------------------------------------------------------
(* Interfaces.  WinUsb_GetAssociatedInterface() works through the first      *)
(* interface's handle; a call that fails, or that finds the interface as     *)
(* wanted, changes nothing.                                                  *)
winusbOpenInterface(d, index) ==
    /\ InterfaceCall(d)
    /\ index \notin winusbHandles[d]
    /\ 0 \in winusbHandles[d]
    /\ winusbHandles' = [winusbHandles EXCEPT ![d] = @ \cup {index}]
    /\ intf' = intf \cup {<<deviceHandle[d], index>>}
    /\ UNCHANGED <<deviceHandle, completionPort, wot, file, io, iocp>>

winusbCloseInterface(d, index) ==
    /\ InterfaceCall(d)
    /\ index \in winusbHandles[d]
    /\ winusbHandles' = [winusbHandles EXCEPT ![d] = @ \ {index}]
    /\ intf' = intf \ {<<deviceHandle[d], index>>}
    /\ UNCHANGED <<deviceHandle, completionPort, wot, file, io, iocp>>

-----------------------------------------------------------------------------
(* Transfers.                                                                *)

AllocateTransfer(t) == usbusAllocateTransfer(t) /\ UNCHANGED winVars

ReleaseTransfer(t) == usbusReleaseTransfer(t) /\ UNCHANGED winVars

SetTransferInfo(t) ==
    /\ \E d \in Device, ep \in Endpoint, cb \in BOOLEAN: usbusSetBulkTransferInfo(t, d, ep, cb)
    /\ UNCHANGED winVars

(* WinUsb_ReadPipe() and WinUsb_WritePipe() go through winusbHandles[0]; the *)
(* kernel takes the request, whether it returns TRUE or ERROR_IO_PENDING.    *)
StartIO(w, t) ==
    LET d == Info(t).device
        h == deviceHandle[d] IN
    /\ 0 \in winusbHandles[d]
    /\ io' = [io EXCEPT ![w] = [file |-> h, endpoint |-> Info(t).endpoint,
                                bound |-> file[h] = "bound", aborting |-> FALSE]]

(* A mutation: ERROR_IO_PENDING is taken for a failure. *)
SubmitPendingIsFailure(t, w) ==
    /\ usbusSubmitTransfer(t, Failed)
    /\ wot[w] = NULL
    /\ wot' = [wot EXCEPT ![w] = t]
    /\ StartIO(w, t)
    /\ UNCHANGED <<deviceHandle, winusbHandles, completionPort, file, intf, iocp>>

SubmitAccepted(t, w) ==
    /\ usbusSubmitTransfer(t, UsbusOK)
    /\ wot[w] = NULL
    /\ wot' = [wot EXCEPT ![w] = t]
    /\ StartIO(w, t)
    /\ UNCHANGED <<deviceHandle, winusbHandles, completionPort, file, intf, iocp>>

(* The pipe refuses the request: w stays allocated and nothing refers to it. *)
SubmitRefused(t, w) ==
    /\ usbusSubmitTransfer(t, Failed)
    /\ wot[w] = NULL
    /\ wot' = [wot EXCEPT ![w] = t]
    /\ UNCHANGED <<deviceHandle, winusbHandles, completionPort, file, intf, io, iocp>>

winusbSubmitTransfer(t) == \E w \in Wot: SubmitAccepted(t, w) \/ SubmitRefused(t, w)

(* WinUsb_AbortPipe() cancels everything pending on the endpoint, not only t. *)
winusbCancelTransfer(t) ==
    LET d == Info(t).device IN
    /\ usbusCancelTransfer(t)
    /\ 0 \in winusbHandles[d]
    /\ io' = [w \in Wot |->
                IF io[w] # NULL /\ io[w].file = deviceHandle[d] /\ io[w].endpoint = Info(t).endpoint
                THEN [io[w] EXCEPT !.aborting = TRUE] ELSE io[w]]
    /\ UNCHANGED <<deviceHandle, winusbHandles, completionPort, wot, file, intf, iocp>>

-----------------------------------------------------------------------------
(* Completions.                                                              *)

(* winusbProcessEvents() passes on one of the error numbers as the status.   *)
StatusOf(result) == IF result = "success" THEN UsbusOK ELSE UsbusIoErr

(* Mutations: w is freed before the callback is called, and completions that *)
(* failed are dropped.                                                       *)
ProcessFreesFirst ==
    /\ iocp # <<>>
    /\ LET w == Head(iocp).ov IN
        /\ usbusProcessEvents(wot[w], w, StatusOf(Head(iocp).result))
        /\ wot' = [wot EXCEPT ![w] = NULL]
    /\ iocp' = Tail(iocp)
    /\ UNCHANGED <<deviceHandle, winusbHandles, completionPort, file, intf, io>>

ProcessDropsFailures ==
    /\ iocp # <<>>
    /\ LET w == Head(iocp).ov IN
        IF Head(iocp).result = "success"
        THEN /\ usbusProcessEvents(wot[w], w, UsbusOK)
             /\ wot' = IF Info(wot[w]).callback THEN wot ELSE [wot EXCEPT ![w] = NULL]
        ELSE /\ AppRuns /\ MayNest
             /\ UNCHANGED <<coreVars, wot>>
    /\ iocp' = Tail(iocp)
    /\ UNCHANGED <<deviceHandle, winusbHandles, completionPort, file, intf, io>>

(* A mutation: the cell is freed with the callback only. *)
ProcessKeepsCell ==
    /\ iocp # <<>>
    /\ LET w == Head(iocp).ov IN usbusProcessEvents(wot[w], w, StatusOf(Head(iocp).result))
    /\ iocp' = Tail(iocp)
    /\ UNCHANGED <<deviceHandle, winusbHandles, completionPort, wot, file, intf, io>>

(* One packet is taken from the port.  With an empty port the call times out *)
(* and nothing changes.                                                      *)
winusbProcessEvents ==
    /\ iocp # <<>>
    /\ LET w == Head(iocp).ov IN
        /\ usbusProcessEvents(wot[w], w, StatusOf(Head(iocp).result))
        /\ wot' = IF Info(wot[w]).callback THEN wot ELSE [wot EXCEPT ![w] = NULL]
    /\ iocp' = Tail(iocp)
    /\ UNCHANGED <<deviceHandle, winusbHandles, completionPort, file, intf, io>>

(* The transfer's callback returns to winusbProcessEvents(), which frees wot. *)
TransferCallbackReturns ==
    /\ TransferReturns
    /\ wot' = [wot EXCEPT ![Last(frames).token] = NULL]
    /\ UNCHANGED <<deviceHandle, winusbHandles, completionPort, file, intf, io, iocp>>

(* The kernel is done with w->ov.  It queues a packet if the file was bound  *)
(* to the port when the I/O started.                                         *)
IOCompletes(w, result) ==
    /\ io[w] # NULL
    /\ result = "aborted" => io[w].aborting
    /\ iocp' = IF io[w].bound THEN Append(iocp, [ov |-> w, result |-> result]) ELSE iocp
    /\ io' = [io EXCEPT ![w] = NULL]
    /\ UNCHANGED <<coreVars, deviceHandle, winusbHandles, completionPort, wot, file, intf>>

-----------------------------------------------------------------------------
DeviceStep(d) ==
    \/ EnumerateDevice(d) \/ SkipDevice(d) \/ Dispose(d)
    \/ winusbOpen(d) \/ winusbClose(d)
    \/ \E index \in Interface: winusbOpenInterface(d, index) \/ winusbCloseInterface(d, index)

TransferStep(t) ==
    \/ AllocateTransfer(t) \/ ReleaseTransfer(t) \/ SetTransferInfo(t)
    \/ winusbSubmitTransfer(t) \/ winusbCancelTransfer(t)

Next ==
    \/ winusbListen \/ EnumerationEnds \/ AppKeepsDevice \/ ConnectedCallbackReturns
    \/ \E d \in Device: DeviceStep(d)
    \/ \E t \in Transfer: TransferStep(t)
    \/ winusbProcessEvents \/ TransferCallbackReturns
    \/ \E w \in Wot, result \in Result: IOCompletes(w, result)

Spec == Init /\ [][Next]_vars

(* The kernel finishes what it has canceled.  The application calls          *)
(* usbusProcessEvents() at regular intervals, as the ReadMe asks, and every  *)
(* callback, like the loop that made it, returns.                            *)
Fairness ==
    /\ \A w \in Wot: WF_vars(io[w] # NULL /\ io[w].aborting /\ \E result \in Result: IOCompletes(w, result))
    /\ SF_vars(winusbProcessEvents)
    /\ SF_vars(TransferCallbackReturns)
    /\ SF_vars(ConnectedCallbackReturns)
    /\ SF_vars(EnumerationEnds)

FairSpec == Spec /\ Fairness
-----------------------------------------------------------------------------
(* Properties.                                                               *)

IsOpenDevice(d) == mem[d] = "live" /\ isOpen[d]
Queued(w)       == \E i \in DOMAIN iocp: iocp[i].ov = w
InFlight(w)     == io[w] # NULL \/ Queued(w)
Reporting(w)    == \E i \in DOMAIN frames: frames[i].kind = "transfer" /\ frames[i].token = w

(* Every open device has a file of its own that is bound to the completion   *)
(* port, and each handle in its array is a live WinUSB handle on that file,  *)
(* although failed opens leave values of closed files in deviceHandle and    *)
(* Windows hands the same values out again (winusb.c:152-161, 187-198).      *)
OpenDevicesOwnHandles ==
    \A d \in Device: IsOpenDevice(d) =>
        /\ deviceHandle[d] \in Handle
        /\ file[deviceHandle[d]] = "bound"
        /\ \A i \in winusbHandles[d]: <<deviceHandle[d], i>> \in intf
        /\ \A e \in Device \ {d}: IsOpenDevice(e) => deviceHandle[e] # deviceHandle[d]

(* No file and no interface handle outlives its use: each belongs to a       *)
(* device that is open now, so winusbClose() and the failing paths of        *)
(* winusbOpen() give back everything they took.  The one exception is what   *)
(* PortFails leaves: a file that was never bound to the completion port,     *)
(* with its first interface handle (winusb.c:140-178, 183-199).              *)
NothingLeaked ==
    /\ \A h \in Handle:
        \/ file[h] = "closed"
        \/ file[h] = "open" /\ PortMayFail
        \/ \E d \in Device: IsOpenDevice(d) /\ deviceHandle[d] = h
    /\ \A p \in intf:
        \/ file[p[1]] = "open" /\ p[2] = 0
        \/ \E d \in Device: IsOpenDevice(d) /\ deviceHandle[d] = p[1] /\ p[2] \in winusbHandles[d]

(* A device that is open stays open, allocated and on the same file until    *)
(* usbusClose() is called for it: no operation on another device, failed     *)
(* open, nested enumeration or returning connected callback takes its file   *)
(* or its memory away (core.c:41-62, 122-130).                               *)
OpenDeviceUndisturbed ==
    [][\A d \in Device: IsOpenDevice(d) =>
        \/ usbusClose(d)
        \/ /\ IsOpenDevice(d)'
           /\ deviceHandle'[d] = deviceHandle[d]
           /\ file'[deviceHandle[d]] = "bound"]_vars

(* A WinOverlappedTransfer has one owner at a time: the kernel, one packet   *)
(* in the port's queue, or one winusbProcessEvents() that is calling back;   *)
(* while it has one, it is not free.  So free(wot) in winusb.c:403 never     *)
(* frees a cell that is used or freed again, however callbacks nest.         *)
WotOwnership ==
    /\ \A w \in Wot: InFlight(w) \/ Reporting(w) => wot[w] # NULL
    /\ \A w \in Wot: io[w] # NULL => ~Queued(w) /\ ~Reporting(w)
    /\ \A w \in Wot: Queued(w) => ~Reporting(w)
    /\ \A i, j \in DOMAIN iocp: iocp[i].ov = iocp[j].ov => i = j
    /\ \A i, j \in DOMAIN frames:
        frames[i].kind = "transfer" /\ frames[j].kind = "transfer" /\ frames[i].token = frames[j].token
        => i = j

InFlightFor(t) == {w \in Wot: InFlight(w) /\ wot[w] = t}

(* The result of usbusSubmitTransfer() tells the truth: the completions the  *)
(* application is still owed for t, by the calls that returned UsbusOK and   *)
(* the completions it got, are exactly the requests for t in flight, through *)
(* refusals, cancels, closes, reopens and resubmission from callbacks        *)
(* (winusb.c:315-350, 366-408).                                              *)
CompletionLedger == \A t \in Transfer: owed[t] = Cardinality(InFlightFor(t))

(* A packet never leads winusbProcessEvents() to a released transfer, which  *)
(* it would write to and call through (winusb.c:397-400).                    *)
NoReleasedInFlight == \A w \in Wot: InFlight(w) => wot[w] \in Transfer /\ transfer[wot[w]] # NULL

(* A cell that the kernel took is freed when its last owner lets go of it:   *)
(* only refused submissions leave cells allocated that nobody has            *)
(* (winusb.c:315-350, 396-403).                                              *)
AcceptedCellsAreFreed ==
    [][\A w \in Wot: InFlight(w) \/ Reporting(w)
            => (InFlight(w) \/ Reporting(w))' \/ wot'[w] = NULL]_vars

(* The invariant the theorems rest on.  The ledger holds because no request  *)
(* gets lost: I/O is only started on files that are bound to the port, which *)
(* open devices own, and each cell has one owner that passes it on.          *)
FramesHoldTokens == \A i \in DOMAIN frames: frames[i].kind = "transfer" => frames[i].token \in Wot
IOIsBound        == \A w \in Wot: io[w] # NULL => io[w].bound

RequestInv ==
    /\ WotOwnership
    /\ FramesHoldTokens
    /\ IOIsBound
    /\ NoReleasedInFlight
    /\ CompletionLedger

(* I/O that nobody has canceled runs on the file and the endpoint of the     *)
(* open device its transfer names, and every I/O will be reported to the     *)
(* port: closing leaves nothing behind on a file another device may get      *)
(* (winusb.c:315-350, 183-199).                                              *)
IOOnOwnDevice ==
    \A w \in Wot: io[w] # NULL =>
        /\ io[w].bound
        /\ \/ io[w].aborting
           \/ LET t == Info(wot[w]) IN
              IsOpenDevice(t.device) /\ io[w].file = deviceHandle[t.device] /\ io[w].endpoint = t.endpoint

(* Asynchronous I/O on Windows is what the contract says; closing a device   *)
(* does not forfeit the reports of its requests.                             *)
OpenDevices == {d \in Device: IsOpenDevice(d)}
PhaseOf     == [w \in Wot |-> IF Reporting(w) THEN "reporting"
                              ELSE IF InFlight(w) THEN "outstanding" ELSE "idle"]
SubjectOf   == [w \in Wot |-> IF Reporting(w) \/ InFlight(w) THEN wot[w] ELSE NULL]

Contract == INSTANCE TransferContract WITH
    Request <- Wot, CloseForfeits <- FALSE,
    open <- OpenDevices, info <- transfer, phase <- PhaseOf, subject <- SubjectOf

ImplementsContract == Contract!Spec

(* A request whose device was closed, or that was canceled, or whose packet  *)
(* is in the port, is eventually reported and its cell freed if there is no  *)
(* callback: closing a device strands no request (winusb.c:183-199, 366-408). *)
CompletionIsReported ==
    \A w \in Wot: (io[w] # NULL /\ io[w].aborting) \/ Queued(w) ~> Reporting(w) \/ wot[w] = NULL

(* Refuted: a transfer is reported as UsbusCanceled only if its I/O was      *)
(* canceled.  winusbProcessEvents() passes UsbusIoErr, a number of enum      *)
(* UsbusError, which is UsbusCanceled in enum UsbusStatus.                   *)
CanceledMeansCanceled ==
    [][\A i \in DOMAIN frames' \ DOMAIN frames:
        frames'[i].kind = "transfer" /\ frames'[i].status = UsbusCanceled
        => Head(iocp).result = "aborted"]_vars
=============================================================================
