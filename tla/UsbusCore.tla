------------------------------ MODULE UsbusCore ------------------------------
(* The platform-independent half of libusbus: core.c and io.c.  The public   *)
(* API functions keep the memory of devices and transfers, gate every        *)
(* operation on UsbusDevice.isOpen, and call the platform through gPlatform; *)
(* a platform module EXTENDS this one and conjoins to each operator below    *)
(* what its own function does.                                               *)
(*                                                                           *)
(* The library takes no locks: the application calls it from one thread, and *)
(* the library calls the application back from inside usbusListen() and      *)
(* usbusProcessEvents().  A callback may call any API function, so control   *)
(* is a stack of library functions waiting for a callback to return.         *)
EXTENDS Integers, FiniteSets, SequencesExt

CONSTANTS
    Device,      \* the memory cells a UsbusDevice can be allocated in
    Transfer,    \* the memory cells a UsbusTransfer can be allocated in
    Endpoint,    \* the endpoint addresses the application uses
    Token,       \* the platform's handles on one submitted request
    NULL,        \* a null pointer
    MaxDepth,    \* bound on the depth of nested library functions
    CarefulApp   \* does the application close a device before it is disposed?

ASSUME CoreAssumption ==
    /\ NULL \notin Device \cup Transfer \cup Endpoint \cup Token
    /\ MaxDepth \in Nat
    /\ CarefulApp \in BOOLEAN
    /\ IsFiniteSet(Token)

VARIABLES
    mem,         \* mem[d]: "free", "live", or "lost" (live, but no pointer to it is left)
    isOpen,      \* isOpen[d]: UsbusDevice.isOpen
    transfer,    \* transfer[t]: NULL if t is not allocated, or its fields
    owed,        \* owed[t]: completions the application still expects for t
    frames       \* library functions that are waiting for a callback to return

coreVars == <<mem, isOpen, transfer, owed, frames>>

(* enum UsbusError and enum UsbusStatus: two numberings that overlap.  The   *)
(* platforms return -1 for failures enum UsbusError has no name for.         *)
UsbusOK       == 0
UsbusIoErr    == 1
Failed        == -1
UsbusComplete == 0
UsbusCanceled == 1
UsbusStatusGenericError == 6
Status        == 0..6

(* The fields of a UsbusTransfer: cleared, or set by usbusSetBulkTransferInfo(). *)
ClearedInfo  == [device |-> NULL, endpoint |-> NULL, callback |-> FALSE]
TransferInfo == {ClearedInfo} \cup [device: Device, endpoint: Endpoint, callback: BOOLEAN]

(* What a waiting library function will do when its callback returns: a loop *)
(* over devices goes on (in usbusListen(), or when a notification of devices *)
(* that came or went is processed), the device is disposed unless keep (the  *)
(* callback cleared dispose), the loop over terminated devices goes on, or   *)
(* the platform's token is freed.  A function that called the system through *)
(* a reference that is not there is lost: it does not return.                *)
Loop  == {"listen", "discovered", "terminated"}
Lost  == {"lost port", "lost device", "lost interface", "lost source"}
Frame == [kind: Loop \cup Lost \cup {"connected", "disconnected", "transfer"},
          device: Device \cup {NULL}, keep: BOOLEAN, token: Token \cup {NULL}, status: Status]

NewFrame(kind, d, w, s) ==
    [kind |-> kind, device |-> d, keep |-> FALSE, token |-> w, status |-> s]

ListenFrame         == NewFrame("listen", NULL, NULL, UsbusComplete)
LoopFrame(kind)     == NewFrame(kind, NULL, NULL, UsbusComplete)
LostFrame(kind)     == NewFrame(kind, NULL, NULL, UsbusComplete)
ConnectedFrame(d)   == NewFrame("connected", d, NULL, UsbusComplete)
DisconnectedFrame   == NewFrame("disconnected", NULL, NULL, UsbusComplete)
TransferFrame(w, s) == NewFrame("transfer", NULL, w, s)

Waiting(kind) == Len(frames) > 0 /\ Last(frames).kind = kind
Enumerating   == Waiting("listen") \/ Waiting("discovered")

(* The application runs unless the library is between two of its callbacks   *)
(* or lost.                                                                  *)
AppRuns == \A kind \in Loop \cup Lost: ~Waiting(kind)

MayNest == Len(frames) < MaxDepth

(* frames[i] will dispose d when its callback returns. *)
WillDispose(i, d) == frames[i].kind = "connected" /\ frames[i].device = d /\ ~frames[i].keep

Info(t) == transfer[t]

CoreTypeOK ==
    /\ mem \in [Device -> {"free", "live", "lost"}]
    /\ isOpen \in [Device -> BOOLEAN]
    /\ transfer \in [Transfer -> {NULL} \cup TransferInfo]
    /\ owed \in [Transfer -> Nat]
    /\ frames \in Seq(Frame)

CoreInit ==
    /\ mem = [d \in Device |-> "free"]
    /\ isOpen = [d \in Device |-> FALSE]
    /\ transfer = [t \in Transfer |-> NULL]
    /\ owed = [t \in Transfer |-> 0]
    /\ frames = <<>>

-----------------------------------------------------------------------------
(* Listening and the connected callback.                                     *)

(* usbusListen() runs the platform's loop over the devices; the calling code *)
(* does not run again until the loop ends, except in the callbacks it makes. *)
usbusListen ==
    /\ AppRuns /\ MayNest
    /\ frames' = Append(frames, ListenFrame)
    /\ UNCHANGED <<mem, isOpen, transfer, owed>>

ListenReturns ==
    /\ Waiting("listen")
    /\ frames' = Front(frames)
    /\ UNCHANGED <<mem, isOpen, transfer, owed>>

(* allocateDevice(), whose memset() clears isOpen, and dispatchConnectedDevice()  *)
(* up to the call of ctx->connected, with dispose set to 1.                       *)
dispatchConnectedDevice(d) ==
    /\ Enumerating /\ MayNest
    /\ mem[d] = "free"
    /\ mem' = [mem EXCEPT ![d] = "live"]
    /\ isOpen' = [isOpen EXCEPT ![d] = FALSE]
    /\ frames' = Append(frames, ConnectedFrame(d))
    /\ UNCHANGED <<transfer, owed>>

(* allocateDevice() for a device the platform then gives up on: nothing frees it. *)
AllocateAndLose(d) ==
    /\ Enumerating
    /\ mem[d] = "free"
    /\ mem' = [mem EXCEPT ![d] = "lost"]
    /\ isOpen' = [isOpen EXCEPT ![d] = FALSE]
    /\ UNCHANGED <<transfer, owed, frames>>

(* A notification makes the platform loop over devices that came or went. *)
LoopStarts(kind) ==
    /\ AppRuns /\ MayNest
    /\ frames' = Append(frames, LoopFrame(kind))
    /\ UNCHANGED <<mem, isOpen, transfer, owed>>

LoopEnds(kind) ==
    /\ Waiting(kind)
    /\ frames' = Front(frames)
    /\ UNCHANGED <<mem, isOpen, transfer, owed>>

(* usbusListen() goes on to the devices that have gone. *)
ListenContinues ==
    /\ Waiting("listen")
    /\ frames' = Append(Front(frames), LoopFrame("terminated"))
    /\ UNCHANGED <<mem, isOpen, transfer, owed>>

(* ctx->disconnected is given a device on the stack, not one of the heap. *)
DisconnectedCall ==
    /\ Waiting("terminated") /\ MayNest
    /\ frames' = Append(frames, DisconnectedFrame)
    /\ UNCHANGED <<mem, isOpen, transfer, owed>>

DisconnectedReturns ==
    /\ Waiting("disconnected")
    /\ frames' = Front(frames)
    /\ UNCHANGED <<mem, isOpen, transfer, owed>>

(* The application clears dispose in its callback: it keeps the device.      *)
KeepDevice ==
    /\ Waiting("connected")
    /\ ~Last(frames).keep
    /\ frames' = [frames EXCEPT ![Len(frames)].keep = TRUE]
    /\ UNCHANGED <<mem, isOpen, transfer, owed>>

(* A mutation: the device is disposed whatever the callback did to dispose.  *)
ConnectedReturnsDisposes ==
    /\ Waiting("connected")
    /\ LET top == Last(frames) IN
        /\ CarefulApp /\ ~top.keep => ~isOpen[top.device]
        /\ mem' = [mem EXCEPT ![top.device] = "free"]
    /\ frames' = Front(frames)
    /\ UNCHANGED <<isOpen, transfer, owed>>

(* The connected callback returns, and the device is disposed if dispose is still 1. *)
ConnectedReturns ==
    /\ Waiting("connected")
    /\ LET top == Last(frames) IN
        /\ CarefulApp /\ ~top.keep => ~isOpen[top.device]
        /\ mem' = IF top.keep THEN mem ELSE [mem EXCEPT ![top.device] = "free"]
    /\ frames' = Front(frames)
    /\ UNCHANGED <<isOpen, transfer, owed>>

-----------------------------------------------------------------------------
(* Devices.  r is what the platform returns.                                 *)

(* An open device is left alone: usbusOpen() returns UsbusOK and nothing changes. *)
usbusOpen(d, r) ==
    /\ AppRuns
    /\ mem[d] = "live"
    /\ ~isOpen[d]
    /\ isOpen' = [isOpen EXCEPT ![d] = (r = UsbusOK)]
    /\ UNCHANGED <<mem, transfer, owed, frames>>

(* A mutation: usbusClose() without its isOpen check.                        *)
usbusCloseUngated(d) ==
    /\ AppRuns
    /\ mem[d] = "live"
    /\ isOpen' = [isOpen EXCEPT ![d] = FALSE]
    /\ UNCHANGED <<mem, transfer, owed, frames>>

usbusClose(d) ==
    /\ AppRuns
    /\ mem[d] = "live"
    /\ isOpen[d]
    /\ isOpen' = [isOpen EXCEPT ![d] = FALSE]
    /\ UNCHANGED <<mem, transfer, owed, frames>>

(* usbusOpenInterface() and usbusCloseInterface() before their platform call. *)
InterfaceCall(d) ==
    /\ AppRuns
    /\ mem[d] = "live"
    /\ isOpen[d]
    /\ UNCHANGED coreVars

(* A call for d that is lost.  usbusGetConfiguration() and                   *)
(* usbusSetConfiguration() pass every call on, without an isOpen check.      *)
CallIsLost(d, kind) ==
    /\ AppRuns
    /\ mem[d] = "live"
    /\ frames' = Append(frames, LostFrame(kind))
    /\ UNCHANGED <<mem, isOpen, transfer, owed>>

(* The application disposes a device it was given, and not one that the      *)
(* library is itself about to dispose.                                       *)
usbusDispose(d) ==
    /\ AppRuns
    /\ mem[d] = "live"
    /\ \A i \in DOMAIN frames: ~WillDispose(i, d)
    /\ CarefulApp => ~isOpen[d]
    /\ mem' = [mem EXCEPT ![d] = "free"]
    /\ UNCHANGED <<isOpen, transfer, owed, frames>>

-----------------------------------------------------------------------------
(* Transfers.  The memory of a transfer belongs to the library between a     *)
(* successful usbusSubmitTransfer() and its completion: the application      *)
(* neither changes nor releases it meanwhile.                                *)

usbusAllocateTransfer(t) ==
    /\ AppRuns
    /\ transfer[t] = NULL
    /\ transfer' = [transfer EXCEPT ![t] = ClearedInfo]
    /\ UNCHANGED <<mem, isOpen, owed, frames>>

usbusReleaseTransfer(t) ==
    /\ AppRuns
    /\ transfer[t] # NULL
    /\ owed[t] = 0
    /\ transfer' = [transfer EXCEPT ![t] = NULL]
    /\ UNCHANGED <<mem, isOpen, owed, frames>>

usbusSetBulkTransferInfo(t, d, ep, cb) ==
    /\ AppRuns
    /\ transfer[t] # NULL
    /\ owed[t] = 0
    /\ mem[d] = "live"
    /\ transfer' = [transfer EXCEPT ![t] = [device |-> d, endpoint |-> ep, callback |-> cb]]
    /\ UNCHANGED <<mem, isOpen, owed, frames>>

(* A mutation: submitting and canceling without their isOpen check.          *)
TransferCallUngated(t) ==
    /\ AppRuns
    /\ transfer[t] # NULL
    /\ Info(t).device # NULL
    /\ mem[Info(t).device] = "live"

(* What submitting and canceling have in common: t is set up for a live      *)
(* device, and that device is open.                                          *)
TransferCall(t) ==
    /\ AppRuns
    /\ transfer[t] # NULL
    /\ Info(t).device # NULL
    /\ mem[Info(t).device] = "live"
    /\ isOpen[Info(t).device]

usbusSubmitTransfer(t, r) ==
    /\ TransferCall(t)
    /\ owed' = IF r = UsbusOK THEN [owed EXCEPT ![t] = @ + 1] ELSE owed
    /\ UNCHANGED <<mem, isOpen, transfer, frames>>

usbusCancelTransfer(t) ==
    /\ TransferCall(t)
    /\ UNCHANGED coreVars

(* usbusProcessEvents() in a platform that has a completion of t to report;  *)
(* w is freed when the callback returns, or at once if t has no callback.    *)
usbusProcessEvents(t, w, s) ==
    /\ AppRuns /\ MayNest
    /\ owed' = [owed EXCEPT ![t] = @ - 1]
    /\ frames' = IF Info(t).callback THEN Append(frames, TransferFrame(w, s)) ELSE frames
    /\ UNCHANGED <<mem, isOpen, transfer>>

TransferReturns ==
    /\ Waiting("transfer")
    /\ frames' = Front(frames)
    /\ UNCHANGED <<mem, isOpen, transfer, owed>>
=============================================================================
