--------------------------------- MODULE Echo ---------------------------------
(* The echo client (example/echo/main.c) in place of an arbitrary            *)
(* application of IOKit.  It keeps several IN transfers pending and one OUT  *)
(* transfer in flight, and closes the device at the first error.             *)
EXTENDS IOKit

CONSTANTS
    Rx,       \* the IN transfers, ten in the code
    Tx,       \* the OUT transfer
    InEP, OutEP

ASSUME EchoAssumption ==
    /\ Transfer = Rx \cup {Tx} /\ Tx \notin Rx
    /\ 0 \in Interface
    /\ InEP \in Endpoint /\ OutEP \in Endpoint /\ InEP # OutEP

VARIABLES
    main,           \* where main() and doEcho() are
    cb,             \* where the callback is that runs, or "none"
    gDevice,        \* the device that main() echoes to
    outstandingTx,
    filled,         \* the IN transfers that doEcho() has submitted
    refused         \* those of which a submission was refused

echoVars == <<main, cb, gDevice, outstandingTx, filled, refused>>
allVars  == <<vars, echoVars>>

EchoInit ==
    /\ Init
    /\ main = "start" /\ cb = "none"
    /\ gDevice = NULL /\ outstandingTx = 0
    /\ filled = {} /\ refused = {}

(* main() runs when no callback and no loop over devices does. *)
MainGoes(p, q) == frames = <<>> /\ main = p /\ main' = q

Handling(d) == Waiting("connected") /\ Last(frames).device = d

(* The callback that runs reports t. *)
Completing(t) == \E w \in Token: Waiting("transfer") /\ Last(frames).token = w /\ SubjectOf[w] = t

-----------------------------------------------------------------------------
(* main(), and the loops over devices.                                       *)

Listens ==
    /\ MainGoes("start", "listening")
    /\ iokitListen \/ ListenFails
    /\ UNCHANGED <<cb, gDevice, outstandingTx, filled, refused>>

(* The loops run inside usbusListen() and inside usbusProcessEvents(). *)
LoopStep ==
    /\ cb = "none"
    /\ \/ ListenStopsEarly \/ ListenGoesOn \/ ListenIsLost
       \/ DiscoveryEnds \/ TerminationEnds \/ DisconnectedCallbackReturns
       \/ \E r \in DevRef: DiscoverHub(r) \/ TerminateDevice(r)
    /\ UNCHANGED echoVars

ListenReturned ==
    /\ MainGoes("listening", IF gDevice # NULL THEN "fill" ELSE "stop")
    /\ UNCHANGED <<vars, cb, gDevice, outstandingTx, filled, refused>>

StopsListening ==
    /\ MainGoes("stop", "done")
    /\ iokitStopListen
    /\ UNCHANGED <<cb, gDevice, outstandingTx, filled, refused>>

Finished == main = "done" /\ UNCHANGED allVars

-----------------------------------------------------------------------------
(* onDeviceConnected().                                                      *)

ConnectedIsCalled ==
    /\ cb = "none" /\ cb' = "called"
    /\ \E d \in Device, r \in DevRef: DiscoverDevice(d, r)
    /\ UNCHANGED <<main, gDevice, outstandingTx, filled, refused>>

(* Another device than the one looked for, or one that cannot be opened.     *)
IgnoresDevice(d) ==
    /\ cb = "called" /\ cb' = "return"
    /\ UNCHANGED vars \/ (iokitOpen(d) /\ ~isOpen'[d])
    /\ UNCHANGED <<main, gDevice, outstandingTx, filled, refused>>

OpensDevice(d) ==
    /\ cb = "called" /\ cb' = "opened"
    /\ Seized(d, UsbusOK)
    /\ UNCHANGED <<main, gDevice, outstandingTx, filled, refused>>

(* dispose stays 1 and the device stays open.                                *)
ClaimFails(d) ==
    /\ cb = "opened" /\ cb' = "return"
    /\ InterfaceRefused(d, 0) \/ InterfaceHalfOpen(d, 0)
    /\ UNCHANGED <<main, gDevice, outstandingTx, filled, refused>>

Claims(d) ==
    /\ cb = "opened" /\ cb' = "claimed"
    /\ InterfaceReady(d, 0)
    /\ UNCHANGED <<main, gDevice, outstandingTx, filled, refused>>

(* A mutation: the client forgets to clear dispose.                          *)
KeepsDisposedDevice(d) ==
    /\ cb = "claimed" /\ cb' = "return"
    /\ gDevice' = d
    /\ UNCHANGED <<vars, main, outstandingTx, filled, refused>>

(* A device that is found later replaces the one that is in use.             *)
KeepsDevice(d) ==
    /\ cb = "claimed" /\ cb' = "return"
    /\ AppKeepsDevice
    /\ gDevice' = d
    /\ UNCHANGED <<main, outstandingTx, filled, refused>>

CallbackReturns ==
    /\ cb = "return" /\ cb' = "none"
    /\ ConnectedCallbackReturns \/ TransferCallbackReturns
    /\ UNCHANGED <<main, gDevice, outstandingTx, filled, refused>>

-----------------------------------------------------------------------------
(* doEcho().                                                                 *)

SetUp(t, ep) == usbusSetBulkTransferInfo(t, gDevice, ep, TRUE) /\ UNCHANGED iokitVars

(* usbusSubmitTransfer() is not refused: it is accepted, or lost.            *)
Submits(t) == (\E w \in Token: iokitSubmitTransfer(t, w)) \/ WildPipeCall(t)

(* The IN transfers are allocated, set up and submitted, one after the other. *)
Prepares(rx) ==
    /\ MainGoes("fill", "fill")
    /\ \A other \in Rx \ (filled \cup {rx}): transfer[other] = NULL
    /\ \/ AllocateTransfer(rx)
       \/ transfer[rx] = ClearedInfo /\ SetUp(rx, InEP)
    /\ UNCHANGED <<cb, gDevice, outstandingTx, filled, refused>>

(* What the call returns is not looked at. *)
SubmitsFirst(rx) ==
    /\ MainGoes("fill", "fill")
    /\ rx \notin filled /\ transfer[rx] \notin {NULL, ClearedInfo}
    /\ filled' = filled \cup {rx}
    /\ \/ Submits(rx) /\ UNCHANGED refused
       \/ UNCHANGED vars /\ refused' = refused \cup {rx}
    /\ UNCHANGED <<cb, gDevice, outstandingTx>>

AllocatesTx ==
    /\ MainGoes("fill", "loop")
    /\ filled = Rx
    /\ AllocateTransfer(Tx)
    /\ UNCHANGED <<cb, gDevice, outstandingTx, filled, refused>>

LeavesLoop ==
    /\ MainGoes("loop", "stop")
    /\ ~isOpen[gDevice]
    /\ UNCHANGED <<vars, cb, gDevice, outstandingTx, filled, refused>>

PreparesTx ==
    /\ MainGoes("loop", "send")
    /\ isOpen[gDevice] /\ outstandingTx < 1
    /\ SetUp(Tx, OutEP)
    /\ UNCHANGED <<cb, gDevice, outstandingTx, filled, refused>>

Sends ==
    /\ MainGoes("send", "events")
    /\ Submits(Tx)
    /\ outstandingTx' = outstandingTx + 1
    /\ UNCHANGED <<cb, gDevice, filled, refused>>

SendFails ==
    /\ MainGoes("send", "stop")
    /\ UNCHANGED <<vars, cb, gDevice, outstandingTx, filled, refused>>

WaitsForTx ==
    /\ MainGoes("loop", "events")
    /\ isOpen[gDevice] /\ outstandingTx >= 1
    /\ UNCHANGED <<vars, cb, gDevice, outstandingTx, filled, refused>>

(* usbusProcessEvents(0, 0) handles one source, if one is ready.             *)
ProcessesCompletion(w) ==
    /\ MainGoes("events", "loop")
    /\ iokitProcessEvents(w)
    /\ cb' = "called"
    /\ UNCHANGED <<gDevice, outstandingTx, filled, refused>>

ProcessesOther ==
    /\ MainGoes("events", "loop")
    /\ UNCHANGED vars \/ NotifyDiscovered \/ NotifyTerminated
    /\ UNCHANGED <<cb, gDevice, outstandingTx, filled, refused>>

-----------------------------------------------------------------------------
(* onTransferComplete().                                                     *)

(* A mutation: errors are ignored.                                           *)
FailedTransferIgnored(t) ==
    /\ cb = "called" /\ cb' = "return"
    /\ Completing(t) /\ Last(frames).status # UsbusComplete
    /\ UNCHANGED <<vars, main, gDevice, outstandingTx, filled, refused>>

(* Any error closes the device of the transfer. *)
FailedTransfer(t) ==
    LET d == Info(t).device IN
    /\ cb = "called"
    /\ Completing(t) /\ Last(frames).status # UsbusComplete
    /\ \/ ~isOpen[d] /\ UNCHANGED vars /\ cb' = "return"
       \/ iokitClose(d) /\ cb' = "return"
       \/ WildSourceCall(d) /\ UNCHANGED cb
    /\ UNCHANGED <<main, gDevice, outstandingTx, filled, refused>>

(* A mutation: a transfer is not submitted again.                            *)
ReceivedOnce(t) ==
    /\ cb = "called" /\ cb' = "return"
    /\ Completing(t) /\ t \in Rx /\ Last(frames).status = UsbusComplete
    /\ UNCHANGED <<vars, main, gDevice, outstandingTx, filled, refused>>

Received(t) ==
    /\ cb = "called" /\ cb' = "return"
    /\ Completing(t) /\ t \in Rx /\ Last(frames).status = UsbusComplete
    /\ \/ Submits(t) /\ UNCHANGED refused
       \/ UNCHANGED vars /\ refused' = refused \cup {t}
    /\ UNCHANGED <<main, gDevice, outstandingTx, filled>>

(* A mutation: the count of packets in flight never goes down.               *)
SentUncounted(t) ==
    /\ cb = "called" /\ cb' = "return"
    /\ Completing(t) /\ t = Tx /\ Last(frames).status = UsbusComplete
    /\ UNCHANGED <<vars, main, gDevice, outstandingTx, filled, refused>>

Sent(t) ==
    /\ cb = "called" /\ cb' = "return"
    /\ Completing(t) /\ t = Tx /\ Last(frames).status = UsbusComplete
    /\ outstandingTx' = outstandingTx - 1
    /\ UNCHANGED <<vars, main, gDevice, filled, refused>>

-----------------------------------------------------------------------------
MainStep ==
    \/ Listens \/ LoopStep \/ ListenReturned \/ StopsListening
    \/ ConnectedIsCalled \/ CallbackReturns
    \/ \E d \in Device: Handling(d) /\ (IgnoresDevice(d) \/ OpensDevice(d))
    \/ \E d \in Device: Handling(d) /\ (ClaimFails(d) \/ Claims(d) \/ KeepsDevice(d))
    \/ \E rx \in Rx: Prepares(rx) \/ SubmitsFirst(rx)
    \/ AllocatesTx \/ LeavesLoop \/ PreparesTx \/ Sends \/ SendFails \/ WaitsForTx
    \/ ProcessesOther
    \/ \E w \in Token: ProcessesCompletion(w)
    \/ \E t \in Transfer: FailedTransfer(t) \/ Received(t) \/ Sent(t)

SystemStep ==
    /\ \E w \in Token, result \in Result: IOCompletes(w, result)
    /\ UNCHANGED echoVars

EchoNext == MainStep \/ SystemStep \/ Finished

EchoSpec == EchoInit /\ [][EchoNext]_allVars

FairEchoSpec ==
    /\ EchoSpec
    /\ WF_allVars(MainStep)
    /\ \A w \in Token: SF_allVars(ProcessesCompletion(w))
    /\ SF_allVars(DiscoveryEnds /\ LoopStep) /\ SF_allVars(TerminationEnds /\ LoopStep)

-----------------------------------------------------------------------------
(* Properties.                                                               *)

InCallback(t) == IF cb = "called" /\ Completing(t) THEN 1 ELSE 0

UsesOpenDevice(t) ==
    /\ transfer[t] \notin {NULL, ClearedInfo}
    /\ IsOpenDevice(Info(t).device)

(* outstandingTx counts the OUT packets in flight: the transfer is set up    *)
(* again only when it is not owed a completion, and while the device of the  *)
(* last packet is open the count is what is owed.  Nothing is said once that *)
(* device was closed: closing forgets the request, nothing resets the count, *)
(* and if another device took its place the loop turns without sending for   *)
(* as long as that one is open (main.c:69, 103-118, 125-128, 142).           *)
OneTxInFlight ==
    /\ outstandingTx \in {0, 1}
    /\ outstandingTx = 0 => owed[Tx] = 0
    /\ UsesOpenDevice(Tx) => outstandingTx = owed[Tx] + InCallback(Tx)

(* Every IN transfer stays pending until its device is closed or one of its  *)
(* submissions is refused: each completion is answered by one submission     *)
(* (main.c:86-97, 130-140).                                                  *)
RxStayPending ==
    \A rx \in filled \ refused: UsesOpenDevice(rx) => owed[rx] + InCallback(rx) = 1

(* Of the devices that the client opens it leaves some to be disposed while  *)
(* they are open, but it holds on to none of those: the global device and    *)
(* the transfers only ever point at live memory, and an open device that it  *)
(* holds has a reference and its interface (main.c:66-70, 126).              *)
HoldsLiveDevices ==
    \A d \in {gDevice} \cup {Info(t).device : t \in {u \in Transfer: transfer[u] # NULL}}: d # NULL =>
        /\ mem[d] = "live"
        /\ isOpen[d] => Held(d) /\ devRef[dev[d]] = "open" /\ source[d][0] = "live" /\ intf[d] = {0}

(* An OUT packet that has been sent or has failed is followed by the next    *)
(* one, or the client stops, whether or not another device has taken the     *)
(* place of the packet's, unless the packet's was closed after that: then    *)
(* the client stalls, the new device open and the count 1 with nothing in    *)
(* flight (main.c:69, 101-118, 125-128).                                     *)
Stalls == gDevice # Info(Tx).device /\ ~isOpen[Info(Tx).device]

EchoGoesOn ==
    (\E w \in Token: Outstanding(w) /\ io[w].transfer = Tx /\ io[w].result # "pending")
        ~> outstandingTx = 0 \/ main = "done" \/ Stalls
=============================================================================
