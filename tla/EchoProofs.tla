------------------------------ MODULE EchoProofs ------------------------------
(* Theorems about Echo, for every number of devices, transfers and requests  *)
(* and whatever fails: the client is an application of IOKit that keeps      *)
(* enough of its rules, so that no call of it is lost.                       *)
EXTENDS Echo, IOKitDeviceProofs

-----------------------------------------------------------------------------
(* The inductive invariant.                                                  *)

(* Transfer t is set up. *)
SetUpFor(t) == transfer[t] \notin {NULL, ClearedInfo}

(* No function on the stack is lost, and only loops wait below its top. *)
StackInv ==
    \A i \in 1..Len(frames): frames[i].kind \notin Lost /\ (i < Len(frames) => frames[i].kind \in Loop)

(* The client is in a callback exactly if the library waits for one that has *)
(* code in the client; a device is opened and claimed before it is kept.     *)
CallbackInv ==
    /\ cb \in {"none", "called", "opened", "claimed", "return"}
    /\ cb # "none" <=> Waiting("connected") \/ Waiting("transfer")
    /\ cb \in {"opened", "claimed"} => Waiting("connected")
    /\ cb # "return" /\ Waiting("connected") => ~Last(frames).keep

(* What main() has: a device as soon as it echoes, transfers that are set up *)
(* for a device and have a callback, and no completion to come for an IN     *)
(* transfer it has not submitted.                                            *)
MainInv ==
    /\ gDevice \in Device \cup {NULL}
    /\ main \in {"fill", "loop", "send", "events"} => gDevice # NULL
    /\ main = "send" => outstandingTx = 0
    /\ filled \subseteq Rx
    /\ \A rx \in filled: SetUpFor(rx)
    /\ \A rx \in Rx \ filled: owed[rx] = 0
    /\ \A t \in Transfer: SetUpFor(t) => Info(t).callback

(* The client's one interface is claimed and is the only one that the cache  *)
(* knows endpoints of.                                                       *)
Claimed(d) ==
    /\ intf[d] = {0} /\ source[d][0] = "live" /\ usbIntf[dev[d]][0] = "attached"
    /\ \A i \in Interface \ {0}: cached[d][i] = 0

Unclaimed(d) == intf[d] = {} /\ \A i \in Interface: cached[d][i] = 0

(* The client holds on to d, or has not yet told whether it keeps it. *)
KeptByClient(d) == d = gDevice \/ \E t \in Transfer: SetUpFor(t) /\ Info(t).device = d

Undecided(d) == Handling(d) /\ ~Last(frames).keep

KeptInv ==
    \A d \in Device: KeptByClient(d) =>
        /\ mem[d] = "live" /\ ~Undecided(d)
        /\ isOpen[d] => Claimed(d)

HandledInv ==
    \A d \in Device: Handling(d) =>
        /\ mem[d] = "live"
        /\ cb = "called" => ~isOpen[d] /\ Unclaimed(d)
        /\ cb = "opened" => isOpen[d] /\ Unclaimed(d)
        /\ cb = "claimed" => isOpen[d] /\ Claimed(d)

(* A device that is open, or that may be opened next, has a reference of its *)
(* own; a device that is disposed while it is open loses its memory only.    *)
InUse(d) == mem[d] = "live" /\ (isOpen[d] \/ (Handling(d) /\ cb = "called"))

ReferenceInv ==
    /\ \A d \in Device: InUse(d) =>
        dev[d] \in DevRef /\ devRef[dev[d]] = IF isOpen[d] THEN "open" ELSE "idle"
    /\ \A d \in Device, e \in Device: d # e /\ InUse(d) /\ InUse(e) => dev[d] # dev[e]

(* The callback of a transfer is called while its device is open, and only   *)
(* if main() has submitted the transfer.                                     *)
CompletingInv ==
    \A t \in Transfer: cb = "called" /\ Completing(t) => UsesOpenDevice(t) /\ t \in filled \cup {Tx}

LibraryInv == RequestInv /\ ListeningHasPort /\ CacheInv /\ RequestsOnOwnInterface /\ RequestsHaveDevices

DevicesInv == KeptInv /\ HandledInv /\ ReferenceInv

CountInv == CompletingInv /\ OneTxInFlight /\ RxStayPending

ClientInv == StackInv /\ CallbackInv /\ MainInv /\ DevicesInv /\ CountInv

EchoInv == LibraryInv /\ ClientInv

-----------------------------------------------------------------------------
(* The stack.                                                                *)

(* A callback that is called becomes the top of the stack. *)
LEMMA PushedTop ==
    ASSUME CoreTypeOK, StackInv, NEW f \in Frame, f.kind \notin Lost, frames' = Append(frames, f),
           frames = <<>> \/ \E kind \in Loop: Waiting(kind)
    PROVE  StackInv' /\ Len(frames') > 0 /\ Last(frames') = f
<1>1. frames \in Seq(Frame) /\ frames' \in Seq(Frame)
  BY AppendProperties DEF CoreTypeOK
<1>2. /\ Len(frames) \in Nat /\ Len(frames') = Len(frames) + 1
      /\ \A i \in 1..Len(frames): frames'[i] = frames[i]
      /\ frames'[Len(frames) + 1] = f
  BY <1>1, AppendProperties, LenProperties
<1>3. Last(frames') = f
  BY <1>2 DEF Last
<1>4. Len(frames) > 0 => frames[Len(frames)].kind \in Loop
  <2>1. ASSUME NEW kind \in Loop, Waiting(kind) PROVE frames[Len(frames)].kind \in Loop
    BY <2>1, TopFrame
  <2>2. frames = <<>> => Len(frames) = 0
    OBVIOUS
  <2>. QED
    BY <2>1, <2>2
<1>5. ASSUME NEW i \in 1..Len(frames) + 1
      PROVE  frames'[i].kind \notin Lost /\ (i < Len(frames) + 1 => frames'[i].kind \in Loop)
  <2>1. CASE i = Len(frames) + 1
    BY <1>2, <2>1
  <2>2. CASE i # Len(frames) + 1
    <3>1. i \in 1..Len(frames) /\ frames'[i] = frames[i]
      BY <1>2, <2>2
    <3>. QED
      BY <1>2, <1>4, <3>1 DEF StackInv
  <2>. QED
    BY <2>1, <2>2
<1>. QED
  BY <1>2, <1>3, <1>5 DEF StackInv

(* When a function returns, a loop goes on below it, or main() does. *)
LEMMA PoppedTop ==
    ASSUME CoreTypeOK, StackInv, Len(frames) > 0, frames' = Front(frames)
    PROVE  StackInv' /\ (Len(frames') > 0 => Last(frames').kind \in Loop)
<1>1. /\ frames' \in Seq(Frame) /\ Len(frames) \in Nat /\ Len(frames') \in Nat
      /\ Len(frames') = Len(frames) - 1
      /\ \A i \in 1..Len(frames) - 1: frames'[i] = frames[i]
  BY FrontOfSeq, LenProperties DEF CoreTypeOK
<1>2. \A i \in 1..Len(frames'): frames'[i].kind \in Loop /\ frames'[i].kind \notin Lost
  BY <1>1 DEF StackInv
<1>3. Len(frames') > 0 => Last(frames') = frames'[Len(frames')]
  BY <1>1, LastOfSeq
<1>. QED
  BY <1>1, <1>2, <1>3 DEF StackInv

(* What is on the top of the stack waits for one kind of callback. *)
LEMMA NothingWaits ==
    ASSUME CoreTypeOK, StackInv, NEW kind \in Lost
    PROVE  ~Waiting(kind)
BY TopFrame DEF StackInv

(* Nothing waits for a callback that has code in the client. *)
NoneWaits == ~Waiting("connected") /\ ~Waiting("transfer")

(* Nothing does while main() runs, and the loops below it wait for nothing.  *)
LEMMA NoneWaitsInMain ==
    ASSUME CoreTypeOK, frames = <<>> \/ \E kind \in Loop \cup {"disconnected"}: Waiting(kind)
    PROVE  NoneWaits
<1>1. frames = <<>> => Len(frames) = 0
  OBVIOUS
<1>. QED
  BY <1>1 DEF NoneWaits, Waiting, Loop

(* Listening goes on with the devices that have gone. *)
LEMMA ReplacedTop ==
    ASSUME CoreTypeOK, StackInv, ListenContinues
    PROVE  StackInv' /\ Last(frames').kind = "terminated"
<1>. DEFINE s == Front(frames)
            f == LoopFrame("terminated")
<1>1. Len(frames) \in Nat /\ Len(frames) > 0
  BY TopFrame DEF ListenContinues
<1>2. /\ s \in Seq(Frame) /\ Len(s) = Len(frames) - 1
      /\ \A i \in 1..Len(frames) - 1: s[i] = frames[i]
  BY <1>1, FrontOfSeq DEF CoreTypeOK
<1>3. f \in Frame /\ f.kind = "terminated"
  BY PushedFrames DEF LoopFrame, NewFrame, Loop
<1>4. frames' = Append(s, f)
  BY DEF ListenContinues
<1>. HIDE DEF s, f
<1>5. /\ frames' \in Seq(Frame) /\ Len(frames') = Len(s) + 1
      /\ \A i \in 1..Len(s): frames'[i] = s[i]
      /\ frames'[Len(s) + 1] = f
  BY <1>2, <1>3, <1>4, AppendProperties
<1>6. Last(frames') = f
  BY <1>5 DEF Last
<1>7. Len(frames') = Len(frames)
  BY <1>1, <1>2, <1>5
<1>8. ASSUME NEW i \in 1..Len(frames), i # Len(frames) PROVE frames'[i] = frames[i]
  BY <1>1, <1>2, <1>5, <1>8
<1>9. frames'[Len(frames)] = f
  BY <1>1, <1>2, <1>5
<1>. QED
  BY <1>1, <1>3, <1>6, <1>7, <1>8, <1>9 DEF StackInv, Loop, Lost

-----------------------------------------------------------------------------
(* Steps that call no code of the client and come from no callback of it.    *)

QuietStep ==
    \/ Listens \/ LoopStep \/ ListenReturned \/ StopsListening
    \/ LeavesLoop \/ SendFails \/ WaitsForTx \/ ProcessesOther

(* usbusListen() finds its port when it goes on. *)
LEMMA PortStays ==
    ASSUME CoreTypeOK, ListeningHasPort, Waiting("listen")
    PROVE  portRef
BY WaitingIsFrame DEF ListeningHasPort

(* Loops run between callbacks. *)
LEMMA QuietFrames ==
    ASSUME CoreTypeOK, ListeningHasPort, StackInv, CallbackInv, QuietStep
    PROVE  cb = "none" /\ NoneWaits /\ StackInv' /\ NoneWaits'
<1>1. ASSUME NEW f \in Frame, f.kind \in Loop \cup {"disconnected"}, frames' = Append(frames, f),
             frames = <<>> \/ \E kind \in Loop: Waiting(kind)
      PROVE  StackInv' /\ NoneWaits'
  BY <1>1, PushedTop DEF Loop, Lost, NoneWaits, Waiting
<1>2. ASSUME NEW kind \in Loop \cup {"disconnected"}, Waiting(kind), frames' = Front(frames)
      PROVE  StackInv' /\ NoneWaits'
  BY <1>2, PoppedTop DEF Loop, NoneWaits, Waiting
<1>3. ASSUME UNCHANGED frames, frames = <<>> PROVE StackInv' /\ NoneWaits'
  BY <1>3, NoneWaitsInMain DEF StackInv, NoneWaits, Waiting
<1>4. \/ frames = <<>>
      \/ LoopStep /\ cb = "none"
  BY DEF QuietStep, Listens, LoopStep, ListenReturned, StopsListening, LeavesLoop, SendFails, WaitsForTx,
         ProcessesOther, MainGoes
<1>5. cb = "none" /\ NoneWaits
  BY <1>4, NoneWaitsInMain DEF CallbackInv, NoneWaits
<1>. SUFFICES StackInv' /\ NoneWaits'
  BY <1>5
<1>6. CASE LoopStep
  <2>1. CASE ListenStopsEarly \/ DiscoveryEnds \/ TerminationEnds \/ DisconnectedCallbackReturns
    BY <1>2, <2>1 DEF ListenStopsEarly, ListenReturns, DiscoveryEnds, TerminationEnds, LoopEnds,
       DisconnectedCallbackReturns, DisconnectedReturns, Loop
  <2>2. CASE ListenGoesOn
    BY <2>2, ReplacedTop DEF ListenGoesOn, NoneWaits, Waiting
  <2>3. ASSUME NEW r \in DevRef, DiscoverHub(r) PROVE StackInv' /\ NoneWaits'
    BY <1>5, <2>3 DEF DiscoverHub, coreVars, StackInv, NoneWaits, Waiting
  <2>4. ASSUME NEW r \in DevRef, TerminateDevice(r) PROVE StackInv' /\ NoneWaits'
    <3>1. DisconnectedFrame.kind = "disconnected"
      BY DEF DisconnectedFrame, NewFrame
    <3>. QED
      BY <1>1, <2>4, <3>1, PushedFrames DEF TerminateDevice, DisconnectedCall, Loop
  <2>5. ~ListenIsLost
    BY PortStays DEF ListenIsLost
  <2>. QED
    BY <1>6, <2>1, <2>2, <2>3, <2>4, <2>5 DEF LoopStep
<1>7. ASSUME NEW kind \in Loop, LoopStarts(kind), frames = <<>> PROVE StackInv' /\ NoneWaits'
  <2>1. LoopFrame(kind).kind = kind
    BY DEF LoopFrame, NewFrame
  <2>. QED
    BY <1>1, <1>7, <2>1, PushedFrames DEF LoopStarts, LoopFrame
<1>8. CASE Listens
  <2>1. CASE iokitListen
    <3>1. ListenFrame.kind = "listen"
      BY DEF ListenFrame, NewFrame
    <3>. QED
      BY <1>1, <1>8, <2>1, <3>1, PushedFrames DEF iokitListen, usbusListen, Listens, MainGoes, ListenFrame, Loop
  <2>. QED
    BY <1>3, <1>8, <2>1 DEF Listens, MainGoes, ListenFails, coreVars
<1>9. CASE ProcessesOther
  BY <1>3, <1>7, <1>9 DEF ProcessesOther, MainGoes, NotifyDiscovered, NotifyTerminated, Loop, vars, coreVars
<1>10. CASE ListenReturned \/ StopsListening \/ LeavesLoop \/ SendFails \/ WaitsForTx
  BY <1>3, <1>10 DEF ListenReturned, StopsListening, LeavesLoop, SendFails, WaitsForTx, MainGoes,
     iokitStopListen, vars, coreVars
<1>. QED
  BY <1>6, <1>8, <1>9, <1>10 DEF QuietStep

-----------------------------------------------------------------------------
(* What a step keeps by what it changes.                                     *)

(* The fields of a transfer that is set up. *)
LEMMA SetUpTypes ==
    ASSUME TypeOK, NEW t \in Transfer, SetUpFor(t)
    PROVE  Info(t).device \in Device /\ Info(t).endpoint \in Endpoint /\ Info(t).callback \in BOOLEAN
BY DEF TypeOK, CoreTypeOK, TransferInfo, SetUpFor, Info

(* A fresh reference is none that is in use. *)
LEMMA FreshIsUnused ==
    ASSUME ReferenceInv, NEW d \in Device, InUse(d), NEW r \in DevRef, Fresh(r)
    PROVE  dev[d] # r
BY DEF ReferenceInv, Fresh

(* A step that leaves devices alone, takes at most a fresh reference, keeps  *)
(* no further device and comes to a device's callback nowhere but at its end. *)
LEMMA DevicesStay ==
    ASSUME TypeOK, DevicesInv, UNCHANGED <<mem, isOpen, dev, intfVars>>,
           UNCHANGED devRef \/ \E r \in DevRef: Fresh(r) /\ devRef' = [devRef EXCEPT ![r] = "idle"],
           \A d \in Device: Handling(d)' =>
               Handling(d) /\ (cb' = cb \/ cb' = "return") /\ (Undecided(d)' => Undecided(d)),
           \A d \in Device: KeptByClient(d)' => KeptByClient(d)
    PROVE  DevicesInv'
<1>. USE DEF DevicesInv
<1>1. \A d \in Device: /\ Claimed(d)' <=> Claimed(d)
                       /\ Unclaimed(d)' <=> Unclaimed(d)
                       /\ InUse(d)' => InUse(d)
  BY DEF intfVars, Claimed, Unclaimed, InUse
<1>2. \A d \in Device: InUse(d) /\ dev[d] \in DevRef => devRef'[dev[d]] = devRef[dev[d]]
  BY FreshIsUnused DEF TypeOK
<1>3. KeptInv'
  BY <1>1 DEF KeptInv, Undecided
<1>4. HandledInv'
  BY <1>1 DEF HandledInv
<1>5. ReferenceInv'
  BY <1>1, <1>2 DEF ReferenceInv
<1>. QED
  BY <1>3, <1>4, <1>5

(* A step that opens no device of a transfer and moves no completion.        *)
LEMMA CountsStay ==
    ASSUME MainInv, CountInv, UNCHANGED <<owed, outstandingTx, filled, refused>>,
           \A t \in Transfer: UsesOpenDevice(t)' => UsesOpenDevice(t),
           \A t \in Transfer: (cb = "called" /\ Completing(t))' <=> (cb = "called" /\ Completing(t)),
           \A t \in Transfer: cb = "called" /\ Completing(t) => UsesOpenDevice(t)'
    PROVE  CountInv'
<1>1. \A t \in Transfer: InCallback(t)' = InCallback(t)
  BY DEF InCallback
<1>2. Tx \in Transfer /\ Rx \subseteq Transfer
  BY EchoAssumption
<1>3. CompletingInv'
  BY DEF CountInv, CompletingInv
<1>4. OneTxInFlight'
  BY <1>1, <1>2 DEF CountInv, OneTxInFlight
<1>5. RxStayPending'
  BY <1>1, <1>2 DEF MainInv, CountInv, RxStayPending
<1>. QED
  BY <1>3, <1>4, <1>5 DEF CountInv

(* What an open device keeps until it is closed. *)
StaysOpen(d) ==
    /\ IsOpenDevice(d)' /\ dev'[d] = dev[d]
    /\ intf'[d] = intf[d] /\ usbIntf'[dev[d]] = usbIntf[dev[d]]

(* Loops, notifications and waiting keep the invariant. *)
LEMMA QuietKeeps ==
    ASSUME TypeOK, ListeningHasPort, ClientInv, QuietStep
    PROVE  ClientInv' /\ \A d \in Device: IsOpenDevice(d) => StaysOpen(d)
<1>. USE DEF ClientInv
<1>0. CoreTypeOK
  BY DEF TypeOK
<1>1. cb = "none" /\ NoneWaits /\ StackInv' /\ NoneWaits'
  BY <1>0, QuietFrames
<1>2. /\ UNCHANGED <<mem, isOpen, transfer, owed, dev, intfVars, io>>
      /\ UNCHANGED devRef \/ \E r \in DevRef: Fresh(r) /\ devRef' = [devRef EXCEPT ![r] = "idle"]
  BY DEF QuietStep, Listens, LoopStep, ListenReturned, StopsListening, LeavesLoop, SendFails, WaitsForTx,
     ProcessesOther, iokitListen, usbusListen, ListenFails, ListenStopsEarly, ListenReturns, ListenGoesOn, ListenIsLost,
     ListenContinues, DiscoveryEnds, TerminationEnds, LoopEnds, DisconnectedCallbackReturns, DisconnectedReturns,
     DiscoverHub, TerminateDevice, DisconnectedCall, TakeRef, NotifyDiscovered, NotifyTerminated, LoopStarts,
     iokitStopListen, vars, coreVars, iokitVars, deviceVars, intfVars
<1>3. /\ UNCHANGED <<cb, gDevice, outstandingTx, filled, refused>>
      /\ main' # "send" \/ main' = main
      /\ main' \in {"fill", "loop", "send", "events"} =>
            gDevice # NULL \/ main \in {"fill", "loop", "send", "events"}
  BY DEF QuietStep, Listens, LoopStep, ListenReturned, StopsListening, LeavesLoop, SendFails, WaitsForTx,
     ProcessesOther, MainGoes, echoVars
<1>4. CallbackInv'
  BY <1>1, <1>3 DEF CallbackInv, NoneWaits
<1>5. MainInv'
  BY <1>2, <1>3 DEF MainInv, SetUpFor, Info
<1>6. DevicesInv'
  BY <1>1, <1>2, <1>3, DevicesStay DEF NoneWaits, Handling, KeptByClient, SetUpFor, Info
<1>7. CountInv'
  BY <1>1, <1>2, <1>3, CountsStay DEF NoneWaits, UsesOpenDevice, IsOpenDevice, Info
<1>8. \A d \in Device: IsOpenDevice(d) => StaysOpen(d)
  BY <1>2 DEF IsOpenDevice, StaysOpen, intfVars
<1>. QED
  BY <1>1, <1>4, <1>5, <1>6, <1>7, <1>8

-----------------------------------------------------------------------------
(* onDeviceConnected().                                                      *)

(* What a callback does with the device it handles leaves what the others    *)
(* have alone, if they are in use.                                           *)
Untouched(e) ==
    /\ mem'[e] = mem[e] /\ isOpen'[e] = isOpen[e] /\ dev'[e] = dev[e]
    /\ intf'[e] = intf[e] /\ cached'[e] = cached[e] /\ source'[e] = source[e]
    /\ InUse(e) => devRef'[dev[e]] = devRef[dev[e]] /\ usbIntf'[dev[e]] = usbIntf[dev[e]]

(* A device that is announced is a new one, with a new reference. *)
LEMMA DiscoveryLeavesOthers ==
    ASSUME TypeOK, DevicesInv, NEW d \in Device, NEW r \in DevRef, DiscoverDevice(d, r), NEW e \in Device \ {d}
    PROVE  Untouched(e)
<1>1. InUse(e) => dev[e] \in DevRef /\ dev[e] # r
  BY FreshIsUnused DEF DevicesInv, ReferenceInv, DiscoverDevice, TakeRef
<1>. QED
  BY <1>1 DEF DiscoverDevice, dispatchConnectedDevice, TakeRef, Untouched, TypeOK, CoreTypeOK

(* A device that is opened or closed has a reference of its own. *)
LEMMA OwnReferenceOnly ==
    ASSUME TypeOK, DevicesInv, NEW d \in Device, InUse(d), NEW e \in Device \ {d},
           iokitOpen(d) \/ iokitClose(d) \/ \E index \in Interface: iokitOpenInterface(d, index)
    PROVE  Untouched(e)
<1>1. InUse(e) => dev[e] \in DevRef /\ dev[e] # dev[d]
  BY DEF DevicesInv, ReferenceInv
<1>2. dev[d] \in DevRef
  BY DEF DevicesInv, ReferenceInv
<1>3. CASE iokitOpen(d)
  BY <1>1, <1>2, <1>3 DEF iokitOpen, DescriptorFails, SeizeFails, Seized, OpenCall, usbusOpen, intfVars, Untouched,
     TypeOK, CoreTypeOK
<1>4. CASE iokitClose(d)
  BY <1>1, <1>2, <1>4 DEF iokitClose, usbusClose, CloseInterfaces, Untouched, TypeOK, CoreTypeOK
<1>5. CASE \E index \in Interface: iokitOpenInterface(d, index)
  BY <1>1, <1>2, <1>5 DEF iokitOpenInterface, InterfaceRefused, InterfaceHalfOpen, InterfaceReady, InterfaceOpened,
     InterfaceCall, coreVars, deviceVars, Untouched, TypeOK, CoreTypeOK
<1>. QED
  BY <1>3, <1>4, <1>5

(* A step that only changes the device that is handled keeps the others'     *)
(* part of the invariant.                                                    *)
LEMMA OthersKept ==
    ASSUME TypeOK, DevicesInv, NEW d \in Device, \A e \in Device \ {d}: Untouched(e),
           \A e \in Device \ {d}: ~Handling(e)',
           \A e \in Device \ {d}: KeptByClient(e)' => KeptByClient(e),
           KeptByClient(d)' => mem'[d] = "live" /\ ~Undecided(d)' /\ (isOpen'[d] => Claimed(d)'),
           Handling(d)' =>
               /\ mem'[d] = "live"
               /\ cb' = "called" => ~isOpen'[d] /\ Unclaimed(d)'
               /\ cb' = "opened" => isOpen'[d] /\ Unclaimed(d)'
               /\ cb' = "claimed" => isOpen'[d] /\ Claimed(d)',
           InUse(d)' =>
               /\ dev'[d] \in DevRef /\ devRef'[dev'[d]] = IF isOpen'[d] THEN "open" ELSE "idle"
               /\ \A e \in Device \ {d}: InUse(e) => dev[e] # dev'[d]
    PROVE  DevicesInv'
<1>. USE DEF DevicesInv
<1>1. \A e \in Device \ {d}: InUse(e)' => InUse(e)
  BY DEF InUse, Untouched
<1>2. ASSUME NEW e \in Device \ {d}, KeptByClient(e)'
      PROVE  mem'[e] = "live" /\ ~Undecided(e)' /\ (isOpen'[e] => Claimed(e)')
  <2>1. KeptByClient(e) /\ mem[e] = "live" /\ (isOpen[e] => Claimed(e))
    BY <1>2 DEF KeptInv
  <2>2. isOpen[e] => InUse(e)
    BY <2>1 DEF InUse
  <2>3. isOpen'[e] => Claimed(e)'
    BY <2>1, <2>2 DEF Untouched, Claimed
  <2>. QED
    BY <2>1, <2>3 DEF Untouched, Undecided
<1>3. KeptInv'
  BY <1>2 DEF KeptInv
<1>4. HandledInv'
  BY DEF HandledInv
<1>5. ReferenceInv'
  BY <1>1 DEF ReferenceInv, Untouched
<1>. QED
  BY <1>3, <1>4, <1>5

(* Devices and transfers that the client holds on to are not the one that is *)
(* handled.                                                                  *)
LEMMA KeptIsNotHandled ==
    ASSUME ClientInv, NEW d \in Device, Handling(d), cb # "return"
    PROVE  ~KeptByClient(d) /\ ~Waiting("transfer") /\ \A e \in Device \ {d}: ~Handling(e)
<1>1. Undecided(d)
  BY DEF ClientInv, CallbackInv, Handling, Undecided
<1>. QED
  BY <1>1 DEF ClientInv, DevicesInv, KeptInv, Handling, Waiting

(* The device that a transfer is set up for is kept. *)
LEMMA TransferKeepsDevice ==
    ASSUME TypeOK, NEW t \in Transfer, SetUpFor(t)
    PROVE  Info(t).device \in Device /\ KeptByClient(Info(t).device)
BY SetUpTypes DEF KeptByClient

(* A device is announced: the callback is called with it. *)
LEMMA ConnectedIsCalledKeeps ==
    ASSUME TypeOK, ClientInv, ConnectedIsCalled
    PROVE  ClientInv' /\ \A d \in Device: IsOpenDevice(d) => StaysOpen(d)
<1>. USE DEF ClientInv
<1>0. CoreTypeOK
  BY DEF TypeOK
<1>1. PICK d \in Device, r \in DevRef: DiscoverDevice(d, r)
  BY DEF ConnectedIsCalled
<1>2. /\ Enumerating /\ mem[d] = "free" /\ mem'[d] = "live" /\ isOpen'[d] = FALSE
      /\ frames' = Append(frames, ConnectedFrame(d)) /\ UNCHANGED <<transfer, owed>>
  BY <1>0, <1>1 DEF DiscoverDevice, dispatchConnectedDevice, CoreTypeOK
<1>3. /\ cb = "none" /\ cb' = "called" /\ UNCHANGED <<main, gDevice, outstandingTx, filled, refused>>
  BY DEF ConnectedIsCalled
<1>4. /\ dev'[d] = r /\ devRef'[r] = "idle" /\ Fresh(r)
      /\ intf'[d] = {} /\ \A i \in Interface: cached'[d][i] = 0
  BY <1>1 DEF DiscoverDevice, TakeRef, AllInterfaces, TypeOK
<1>5. /\ ConnectedFrame(d) \in Frame
      /\ ConnectedFrame(d).kind = "connected" /\ ConnectedFrame(d).device = d /\ ConnectedFrame(d).keep = FALSE
  BY PushedFrames DEF ConnectedFrame, NewFrame
<1>6. StackInv' /\ Len(frames') > 0 /\ Last(frames') = ConnectedFrame(d)
  BY <1>0, <1>2, <1>5, PushedTop DEF Enumerating, Loop, Lost
<1>7. \A e \in Device \ {d}: Untouched(e)
  BY <1>1, DiscoveryLeavesOthers
<1>8. CallbackInv'
  BY <1>3, <1>5, <1>6 DEF CallbackInv, Waiting
<1>9. MainInv'
  BY <1>2, <1>3 DEF MainInv, SetUpFor, Info
<1>10. ~KeptByClient(d) /\ \A e \in Device: KeptByClient(e)' <=> KeptByClient(e)
  BY <1>2, <1>3 DEF DevicesInv, KeptInv, KeptByClient, SetUpFor, Info
<1>11. /\ Handling(d)' /\ \A e \in Device \ {d}: ~Handling(e)'
  BY <1>5, <1>6 DEF Handling, Waiting
<1>12. \A e \in Device: InUse(e) => dev[e] # r
  BY <1>4, FreshIsUnused DEF DevicesInv
<1>13. DevicesInv'
  BY <1>2, <1>3, <1>4, <1>7, <1>10, <1>11, <1>12, OthersKept DEF Unclaimed
<1>14. ASSUME NEW t \in Transfer, SetUpFor(t)
       PROVE  Info(t).device \in Device \ {d}
  BY <1>10, <1>14, TransferKeepsDevice
<1>15. \A t \in Transfer: UsesOpenDevice(t)' => UsesOpenDevice(t)
  BY <1>2, <1>7, <1>14 DEF UsesOpenDevice, SetUpFor, IsOpenDevice, Info, Untouched
<1>16. CountInv'
  BY <1>2, <1>3, <1>5, <1>6, <1>15, CountsStay DEF Waiting, Completing
<1>17. \A e \in Device: IsOpenDevice(e) => StaysOpen(e)
  BY <1>2, <1>7 DEF IsOpenDevice, InUse, Untouched, StaysOpen
<1>. QED
  BY <1>6, <1>8, <1>9, <1>13, <1>16, <1>17

(* A step of the callback for a device leaves everything else alone. *)
LEMMA HandledStepKeeps ==
    ASSUME TypeOK, ClientInv, NEW d \in Device, Handling(d), cb # "return",
           UNCHANGED <<mem, transfer, owed, frames, main, gDevice, outstandingTx, filled, refused>>,
           \A e \in Device \ {d}: Untouched(e),
           cb' \in {"opened", "claimed", "return"},
           cb' = "opened" => isOpen'[d] /\ Unclaimed(d)',
           cb' = "claimed" => isOpen'[d] /\ Claimed(d)',
           isOpen'[d] => InUse(d) /\ dev'[d] = dev[d] /\ devRef'[dev[d]] = "open"
    PROVE  ClientInv' /\ \A e \in Device: KeptByClient(e) /\ IsOpenDevice(e) => StaysOpen(e)
<1>. USE DEF ClientInv
<1>1. ~KeptByClient(d) /\ ~Waiting("transfer") /\ \A e \in Device \ {d}: ~Handling(e)
  BY KeptIsNotHandled
<1>2. StackInv' /\ CallbackInv'
  BY DEF StackInv, CallbackInv, Handling, Waiting
<1>3. MainInv'
  BY DEF MainInv, SetUpFor, Info
<1>4. \A e \in Device: (KeptByClient(e)' <=> KeptByClient(e)) /\ (Handling(e)' <=> Handling(e))
  BY DEF KeptByClient, SetUpFor, Info, Handling, Waiting
<1>5. mem'[d] = "live"
  BY DEF DevicesInv, HandledInv
<1>6. InUse(d)' =>
        /\ dev'[d] \in DevRef /\ devRef'[dev'[d]] = IF isOpen'[d] THEN "open" ELSE "idle"
        /\ \A e \in Device \ {d}: InUse(e) => dev[e] # dev'[d]
  BY DEF DevicesInv, ReferenceInv, InUse
<1>7. DevicesInv'
  BY <1>1, <1>4, <1>5, <1>6, OthersKept
<1>8. ASSUME NEW t \in Transfer, SetUpFor(t) PROVE Info(t).device \in Device \ {d}
  BY <1>1, <1>8, TransferKeepsDevice
<1>9. \A t \in Transfer: UsesOpenDevice(t)' => UsesOpenDevice(t)
  BY <1>8 DEF UsesOpenDevice, SetUpFor, IsOpenDevice, Info, Untouched
<1>10. CountInv'
  BY <1>1, <1>9, CountsStay DEF Waiting, Completing
<1>11. \A e \in Device \ {d}: IsOpenDevice(e) => StaysOpen(e)
  BY DEF IsOpenDevice, InUse, Untouched, StaysOpen
<1>. QED
  BY <1>1, <1>2, <1>3, <1>7, <1>10, <1>11

(* Ignoring, opening and claiming. *)
LEMMA HandlingKeeps ==
    ASSUME TypeOK, ClientInv, NEW d \in Device, Handling(d),
           IgnoresDevice(d) \/ OpensDevice(d) \/ ClaimFails(d) \/ Claims(d)
    PROVE  ClientInv' /\ \A e \in Device: KeptByClient(e) /\ IsOpenDevice(e) => StaysOpen(e)
<1>. USE DEF ClientInv
<1>1. /\ cb \in {"called", "opened"}
      /\ UNCHANGED <<mem, transfer, owed, frames, main, gDevice, outstandingTx, filled, refused>>
  BY DEF IgnoresDevice, OpensDevice, ClaimFails, Claims, iokitOpen, DescriptorFails, SeizeFails, Seized, OpenCall,
     usbusOpen, InterfaceRefused, InterfaceHalfOpen, InterfaceReady, InterfaceOpened, InterfaceCall, vars, coreVars
<1>2. /\ mem[d] = "live"
      /\ cb = "called" => ~isOpen[d] /\ Unclaimed(d)
      /\ cb = "opened" => isOpen[d] /\ Unclaimed(d)
  BY DEF DevicesInv, HandledInv
<1>3. InUse(d)
  BY <1>1, <1>2 DEF InUse
<1>4. dev[d] \in DevRef /\ devRef[dev[d]] = IF isOpen[d] THEN "open" ELSE "idle"
  BY <1>3 DEF DevicesInv, ReferenceInv
<1>5. 0 \in Interface
  BY EchoAssumption
<1>6. CASE IgnoresDevice(d)
  <2>1. cb = "called" /\ cb' = "return" /\ ~isOpen'[d]
    BY <1>2, <1>6 DEF IgnoresDevice, vars, coreVars
  <2>2. \A e \in Device \ {d}: Untouched(e)
    <3>1. CASE UNCHANGED vars
      BY <3>1 DEF vars, coreVars, iokitVars, deviceVars, intfVars, Untouched
    <3>2. CASE iokitOpen(d)
      BY <1>3, <3>2, OwnReferenceOnly
    <3>. QED
      BY <1>6, <3>1, <3>2 DEF IgnoresDevice
  <2>. QED
    BY <1>1, <2>1, <2>2, HandledStepKeeps
<1>7. CASE OpensDevice(d)
  <2>1. cb = "called" /\ cb' = "opened" /\ Seized(d, UsbusOK)
    BY <1>7 DEF OpensDevice
  <2>2. \A e \in Device \ {d}: Untouched(e)
    BY <1>3, <2>1, OwnReferenceOnly DEF iokitOpen
  <2>3. isOpen'[d] /\ dev'[d] = dev[d] /\ devRef'[dev[d]] = "open" /\ UNCHANGED intfVars
    BY <1>4, <2>1 DEF Seized, OpenCall, usbusOpen, TypeOK, CoreTypeOK
  <2>4. Unclaimed(d)'
    BY <1>2, <2>1, <2>3 DEF Unclaimed, intfVars
  <2>. QED
    BY <1>1, <1>3, <2>1, <2>2, <2>3, <2>4, HandledStepKeeps
<1>8. CASE ClaimFails(d) \/ Claims(d)
  <2>1. cb = "opened" /\ cb' \in {"claimed", "return"} /\ iokitOpenInterface(d, 0)
    BY <1>8 DEF ClaimFails, Claims, iokitOpenInterface
  <2>2. \A e \in Device \ {d}: Untouched(e)
    BY <1>3, <1>5, <2>1, OwnReferenceOnly
  <2>3. isOpen'[d] /\ dev'[d] = dev[d] /\ devRef'[dev[d]] = "open"
    BY <1>2, <1>4, <2>1 DEF iokitOpenInterface, InterfaceRefused, InterfaceHalfOpen, InterfaceReady, InterfaceOpened,
       InterfaceCall, coreVars, deviceVars
  <2>4. cb' = "claimed" => Claimed(d)'
    <3>. SUFFICES ASSUME cb' = "claimed" PROVE Claimed(d)'
      OBVIOUS
    <3>1. InterfaceReady(d, 0) /\ Unclaimed(d)
      BY <1>2, <1>8, <2>1 DEF ClaimFails, Claims
    <3>. QED
      BY <1>4, <1>5, <2>3, <3>1 DEF InterfaceReady, InterfaceOpened, Unclaimed, Claimed, TypeOK
  <2>. QED
    BY <1>1, <1>3, <2>1, <2>2, <2>3, <2>4, HandledStepKeeps
<1>. QED
  BY <1>6, <1>7, <1>8

(* The device is kept: it takes the place of the one that was. *)
LEMMA KeepingKeeps ==
    ASSUME TypeOK, ClientInv, NEW d \in Device, Handling(d), KeepsDevice(d)
    PROVE  ClientInv' /\ \A e \in Device: IsOpenDevice(e) => StaysOpen(e)
<1>. USE DEF ClientInv
<1>0. CoreTypeOK
  BY DEF TypeOK
<1>1. /\ cb = "claimed" /\ cb' = "return" /\ gDevice' = d
      /\ UNCHANGED <<main, outstandingTx, filled, refused, mem, isOpen, transfer, owed, iokitVars>>
      /\ Waiting("connected") /\ frames' = [frames EXCEPT ![Len(frames)].keep = TRUE]
  BY DEF KeepsDevice, AppKeepsDevice, KeepDevice
<1>2. /\ Len(frames) \in 1..Len(frames) /\ Last(frames) = frames[Len(frames)] /\ Last(frames) \in Frame
      /\ frames \in Seq(Frame)
  BY <1>0, <1>1, TopFrame DEF CoreTypeOK
<1>3. [Last(frames) EXCEPT !.keep = TRUE] \in Frame
  BY <1>2 DEF Frame
<1>4. /\ Len(frames') = Len(frames)
      /\ frames'[Len(frames)] = [Last(frames) EXCEPT !.keep = TRUE]
      /\ \A i \in 1..Len(frames): i # Len(frames) => frames'[i] = frames[i]
  <2>. DEFINE f == [Last(frames) EXCEPT !.keep = TRUE]
              n == Len(frames)
  <2>1. frames' = [frames EXCEPT ![n] = f]
    BY <1>1, <1>2
  <2>2. f \in Frame /\ n \in 1..Len(frames)
    BY <1>2, <1>3
  <2>. HIDE DEF f, n
  <2>3. /\ Len([frames EXCEPT ![n] = f]) = Len(frames)
        /\ \A j \in 1..Len(frames): [frames EXCEPT ![n] = f][j] = IF j = n THEN f ELSE frames[j]
    BY <1>2, <2>2, ExceptSeq
  <2>4. Len(frames') = Len(frames) /\ \A j \in 1..Len(frames): frames'[j] = IF j = n THEN f ELSE frames[j]
    BY <2>1, <2>3
  <2>. QED
    BY <2>2, <2>4 DEF f, n
<1>5. Last(frames') = [Last(frames) EXCEPT !.keep = TRUE]
  BY <1>4 DEF Last
<1>6. Last(frames').kind = Last(frames).kind /\ Last(frames').device = Last(frames).device /\ Last(frames').keep
  BY <1>2, <1>5 DEF Frame
<1>7. StackInv'
  BY <1>1, <1>2, <1>4, <1>5, <1>6 DEF StackInv, Waiting
<1>8. CallbackInv'
  BY <1>1, <1>4, <1>6 DEF CallbackInv, Waiting
<1>9. MainInv'
  BY <1>1, IOKitAssumption, CoreAssumption DEF MainInv, SetUpFor, Info
<1>10. \A e \in Device: Handling(e)' <=> Handling(e)
  BY <1>1, <1>4, <1>6 DEF Handling, Waiting
<1>11. mem[d] = "live" /\ isOpen[d] /\ Claimed(d) /\ \A e \in Device \ {d}: ~Handling(e)
  BY <1>1 DEF DevicesInv, HandledInv, Handling
<1>12. InUse(d) /\ InUse(d)'
  BY <1>1, <1>11 DEF InUse
<1>13. \A e \in Device \ {d}: Untouched(e)
  BY <1>1 DEF Untouched, iokitVars, deviceVars, intfVars
<1>14. /\ ~Undecided(d)' /\ Claimed(d)'
       /\ \A e \in Device \ {d}: KeptByClient(e)' => KeptByClient(e)
  BY <1>1, <1>6, <1>11 DEF Undecided, Claimed, KeptByClient, SetUpFor, Info, iokitVars, deviceVars, intfVars
<1>15. /\ dev'[d] \in DevRef /\ devRef'[dev'[d]] = "open"
       /\ \A e \in Device \ {d}: InUse(e) => dev[e] # dev'[d]
  BY <1>1, <1>11, <1>12 DEF DevicesInv, ReferenceInv, iokitVars, deviceVars
<1>16. DevicesInv'
  BY <1>1, <1>10, <1>11, <1>13, <1>14, <1>15, OthersKept
<1>17. CountInv'
  BY <1>1, <1>4, <1>6, CountsStay DEF Waiting, Completing, UsesOpenDevice, IsOpenDevice, Info
<1>18. \A e \in Device: IsOpenDevice(e) => StaysOpen(e)
  BY <1>1 DEF IsOpenDevice, StaysOpen, iokitVars, deviceVars, intfVars
<1>. QED
  BY <1>7, <1>8, <1>9, <1>16, <1>17, <1>18

-----------------------------------------------------------------------------
(* Callbacks that return.                                                    *)

(* A device that is disposed is none that the client holds on to. *)
LEMMA ConnectedReturnKeeps ==
    ASSUME TypeOK, ClientInv, CallbackReturns, ConnectedCallbackReturns
    PROVE  ClientInv' /\ \A e \in Device: KeptByClient(e) /\ IsOpenDevice(e) => StaysOpen(e)
<1>. USE DEF ClientInv
<1>0. CoreTypeOK
  BY DEF TypeOK
<1>. DEFINE top == Last(frames)
<1>1. /\ Waiting("connected") /\ frames' = Front(frames)
      /\ mem' = IF top.keep THEN mem ELSE [mem EXCEPT ![top.device] = "free"]
      /\ UNCHANGED <<isOpen, transfer, owed, iokitVars>>
      /\ cb = "return" /\ cb' = "none" /\ UNCHANGED <<main, gDevice, outstandingTx, filled, refused>>
  BY DEF CallbackReturns, ConnectedCallbackReturns, ConnectedReturns
<1>2. \A e \in Device: top.device = e => Handling(e)
  BY <1>1 DEF Handling
<1>. HIDE DEF top
<1>3. Len(frames) > 0
  BY <1>1 DEF Waiting
<1>4. StackInv' /\ NoneWaits'
  BY <1>0, <1>1, <1>3, PoppedTop DEF NoneWaits, Waiting, Loop
<1>5. CallbackInv' /\ MainInv'
  BY <1>1, <1>4 DEF CallbackInv, MainInv, NoneWaits, SetUpFor, Info
<1>6. \A e \in Device: ~Handling(e)' /\ (KeptByClient(e)' <=> KeptByClient(e))
  BY <1>1, <1>4 DEF NoneWaits, Handling, KeptByClient, SetUpFor, Info
<1>7. DevicesInv'
  <2>1. CASE UNCHANGED mem
    BY <1>1, <1>6, <2>1, DevicesStay DEF iokitVars, deviceVars
  <2>2. ASSUME NEW d \in Device, ~top.keep, top.device = d PROVE DevicesInv'
    <3>1. ~KeptByClient(d) /\ mem'[d] = "free" /\ mem' = [mem EXCEPT ![d] = "free"]
      BY <1>0, <1>1, <1>2, <2>2 DEF DevicesInv, KeptInv, Undecided, top, CoreTypeOK
    <3>2. \A e \in Device \ {d}: Untouched(e)
      BY <1>0, <1>1, <3>1 DEF Untouched, iokitVars, deviceVars, intfVars, CoreTypeOK
    <3>3. ~InUse(d)'
      BY <3>1 DEF InUse
    <3>. QED
      BY <1>6, <3>1, <3>2, <3>3, OthersKept
  <2>3. top.keep \/ top.device \notin Device => UNCHANGED mem
    BY <1>0, <1>1 DEF CoreTypeOK
  <2>. QED
    BY <2>1, <2>2, <2>3
<1>8. \A e \in Device: mem'[e] = "live" => mem[e] = "live"
  BY <1>0, <1>1 DEF CoreTypeOK
<1>9. \A t \in Transfer: UsesOpenDevice(t)' => UsesOpenDevice(t)
  BY <1>1, <1>8, SetUpTypes DEF UsesOpenDevice, SetUpFor, IsOpenDevice, Info
<1>10. CountInv'
  BY <1>1, <1>9, CountsStay
<1>11. ASSUME NEW e \in Device, KeptByClient(e), IsOpenDevice(e) PROVE StaysOpen(e)
  <2>1. top.keep \/ top.device # e
    BY <1>2, <1>11 DEF DevicesInv, KeptInv, Undecided, top
  <2>2. mem'[e] = mem[e]
    BY <1>0, <1>1, <2>1 DEF CoreTypeOK
  <2>. QED
    BY <1>1, <1>11, <2>2 DEF IsOpenDevice, StaysOpen, iokitVars, deviceVars, intfVars
<1>. QED
  BY <1>4, <1>5, <1>7, <1>10, <1>11

(* The callback of a transfer frees its request only. *)
LEMMA TransferReturnKeeps ==
    ASSUME TypeOK, ClientInv, CallbackReturns, TransferCallbackReturns
    PROVE  ClientInv' /\ \A e \in Device: IsOpenDevice(e) => StaysOpen(e)
<1>. USE DEF ClientInv
<1>0. CoreTypeOK
  BY DEF TypeOK
<1>1. /\ Waiting("transfer") /\ frames' = Front(frames)
      /\ UNCHANGED <<mem, isOpen, transfer, owed, listenVars, deviceVars, intfVars>>
      /\ cb = "return" /\ cb' = "none" /\ UNCHANGED <<main, gDevice, outstandingTx, filled, refused>>
  BY DEF CallbackReturns, TransferCallbackReturns, TransferReturns
<1>2. Len(frames) > 0
  BY <1>1 DEF Waiting
<1>3. StackInv' /\ NoneWaits'
  BY <1>0, <1>1, <1>2, PoppedTop DEF NoneWaits, Waiting, Loop
<1>4. CallbackInv' /\ MainInv'
  BY <1>1, <1>3 DEF CallbackInv, MainInv, NoneWaits, SetUpFor, Info
<1>5. \A e \in Device: ~Handling(e)' /\ (KeptByClient(e)' <=> KeptByClient(e))
  BY <1>1, <1>3 DEF NoneWaits, Handling, KeptByClient, SetUpFor, Info
<1>6. DevicesInv'
  BY <1>1, <1>5, DevicesStay DEF deviceVars
<1>7. CountInv'
  BY <1>1, CountsStay DEF UsesOpenDevice, IsOpenDevice, Info
<1>8. \A e \in Device: IsOpenDevice(e) => StaysOpen(e)
  BY <1>1 DEF IsOpenDevice, StaysOpen, deviceVars, intfVars
<1>. QED
  BY <1>3, <1>4, <1>6, <1>7, <1>8

-----------------------------------------------------------------------------
(* doEcho().                                                                 *)

(* Nothing waits for a callback while main() runs. *)
LEMMA MainHasNoCallback ==
    ASSUME TypeOK, ClientInv, frames = <<>>
    PROVE  cb = "none" /\ NoneWaits /\ \A t: ~Completing(t)
BY NoneWaitsInMain DEF TypeOK, ClientInv, CallbackInv, NoneWaits, Completing

(* A transfer that is set up is set up for the device that is kept. *)
LEMMA PreparingKeeps ==
    ASSUME TypeOK, ClientInv, frames = <<>>, NEW t \in Transfer \ filled, NEW ep \in Endpoint,
           UNCHANGED <<mem, isOpen, owed, frames, iokitVars, cb, gDevice, outstandingTx, filled, refused>>,
           gDevice # NULL,
           main' = "send" => outstandingTx = 0,
           transfer' = [transfer EXCEPT ![t] = ClearedInfo] \/
               /\ transfer' = [transfer EXCEPT ![t] = [device |-> gDevice, endpoint |-> ep, callback |-> TRUE]]
               /\ t = Tx => outstandingTx = 0
    PROVE  ClientInv' /\ \A e \in Device: IsOpenDevice(e) => StaysOpen(e)
<1>. USE DEF ClientInv
<1>0. CoreTypeOK
  BY DEF TypeOK
<1>1. cb = "none" /\ NoneWaits /\ NoneWaits' /\ \A u: ~Completing(u)
  BY MainHasNoCallback DEF NoneWaits, Waiting
<1>2. /\ \A u \in Transfer \ {t}: transfer'[u] = transfer[u]
      /\ SetUpFor(t)' => Info(t)'.device = gDevice /\ Info(t)'.callback
  BY <1>0 DEF SetUpFor, Info, CoreTypeOK
<1>3. StackInv' /\ CallbackInv'
  BY DEF StackInv, CallbackInv, Waiting
<1>4. Rx \subseteq Transfer /\ Tx \in Transfer /\ Tx \notin Rx
  BY EchoAssumption
<1>5. MainInv'
  BY <1>2, <1>4 DEF MainInv, SetUpFor, Info
<1>6. \A e \in Device: KeptByClient(e)' => KeptByClient(e)
  BY <1>2 DEF KeptByClient, SetUpFor, Info
<1>7. DevicesInv'
  BY <1>1, <1>6, DevicesStay DEF NoneWaits, Handling, iokitVars, deviceVars
<1>8. \A u \in Transfer \ {t}: UsesOpenDevice(u)' <=> UsesOpenDevice(u)
  BY <1>2 DEF UsesOpenDevice, IsOpenDevice, Info
<1>9. \A u \in Transfer: InCallback(u) = 0 /\ InCallback(u)' = 0
  BY <1>1 DEF InCallback
<1>10. CompletingInv'
  BY <1>1 DEF CompletingInv
<1>11. OneTxInFlight'
  <2>1. CASE t = Tx
    <3>1. UsesOpenDevice(Tx)' => outstandingTx = 0
      BY <1>0, <2>1 DEF UsesOpenDevice, CoreTypeOK
    <3>2. owed[Tx] \in Nat
      BY <1>0, <1>4 DEF CoreTypeOK
    <3>. QED
      BY <1>4, <1>9, <3>1, <3>2 DEF CountInv, OneTxInFlight
  <2>2. CASE t # Tx
    BY <1>4, <1>8, <1>9, <2>2 DEF CountInv, OneTxInFlight
  <2>. QED
    BY <2>1, <2>2
<1>12. RxStayPending'
  BY <1>4, <1>8, <1>9 DEF MainInv, CountInv, RxStayPending
<1>13. \A e \in Device: IsOpenDevice(e) => StaysOpen(e)
  BY DEF IsOpenDevice, StaysOpen, iokitVars, deviceVars, intfVars
<1>. QED
  BY <1>3, <1>5, <1>7, <1>10, <1>11, <1>12, <1>13 DEF CountInv

(* The IN transfers and the OUT transfer are allocated and set up. *)
LEMMA PreparationsKeep ==
    ASSUME TypeOK, ClientInv, AllocatesTx \/ PreparesTx \/ \E rx \in Rx: Prepares(rx)
    PROVE  ClientInv' /\ \A e \in Device: IsOpenDevice(e) => StaysOpen(e)
<1>. USE DEF ClientInv
<1>1. Rx \subseteq Transfer /\ Tx \in Transfer /\ Tx \notin Rx /\ InEP \in Endpoint /\ OutEP \in Endpoint
  BY EchoAssumption
<1>2. ASSUME NEW rx \in Rx, Prepares(rx)
      PROVE  ClientInv' /\ \A e \in Device: IsOpenDevice(e) => StaysOpen(e)
  <2>1. /\ frames = <<>> /\ main = "fill" /\ main' = "fill" /\ gDevice # NULL
        /\ UNCHANGED <<mem, isOpen, owed, frames, iokitVars, cb, gDevice, outstandingTx, filled, refused>>
        /\ transfer[rx] \in {NULL, ClearedInfo}
        /\ \/ transfer' = [transfer EXCEPT ![rx] = ClearedInfo]
           \/ transfer' = [transfer EXCEPT ![rx] = [device |-> gDevice, endpoint |-> InEP, callback |-> TRUE]]
    BY <1>2 DEF Prepares, MainGoes, AllocateTransfer, usbusAllocateTransfer, SetUp, usbusSetBulkTransferInfo, MainInv
  <2>2. rx \in Transfer \ filled
    BY <1>1, <2>1 DEF MainInv, SetUpFor
  <2>. QED
    BY <1>1, <2>1, <2>2, PreparingKeeps
<1>3. CASE AllocatesTx
  <2>1. /\ frames = <<>> /\ main' = "loop" /\ gDevice # NULL
        /\ UNCHANGED <<mem, isOpen, owed, frames, iokitVars, cb, gDevice, outstandingTx, filled, refused>>
        /\ transfer' = [transfer EXCEPT ![Tx] = ClearedInfo]
    BY <1>3 DEF AllocatesTx, MainGoes, AllocateTransfer, usbusAllocateTransfer, MainInv
  <2>2. Tx \in Transfer \ filled
    BY <1>1 DEF MainInv
  <2>. QED
    BY <1>1, <2>1, <2>2, PreparingKeeps
<1>4. CASE PreparesTx
  <2>1. /\ frames = <<>> /\ main' = "send" /\ gDevice # NULL /\ outstandingTx < 1
        /\ UNCHANGED <<mem, isOpen, owed, frames, iokitVars, cb, gDevice, outstandingTx, filled, refused>>
        /\ transfer' = [transfer EXCEPT ![Tx] = [device |-> gDevice, endpoint |-> OutEP, callback |-> TRUE]]
    BY <1>4 DEF PreparesTx, MainGoes, SetUp, usbusSetBulkTransferInfo, MainInv
  <2>2. Tx \in Transfer \ filled /\ outstandingTx = 0
    BY <1>1, <2>1 DEF MainInv, CountInv, OneTxInFlight
  <2>. QED
    BY <1>1, <2>1, <2>2, PreparingKeeps
<1>. QED
  BY <1>2, <1>3, <1>4

(* The endpoint of a transfer is found on the interface that is claimed. *)
LEMMA NoWildSubmit ==
    ASSUME TypeOK, ClientInv, NEW t \in Transfer
    PROVE  ~WildPipeCall(t)
<1>. SUFFICES ASSUME WildPipeCall(t) PROVE FALSE
  OBVIOUS
<1>. DEFINE d  == Info(t).device
            ep == Info(t).endpoint
<1>1. /\ TransferCall(t) /\ Slots(d, ep) # {} /\ pipeRefForEP(d, ep)[1] \notin intf[d]
  BY DEF WildPipeCall, WildPipeUse
<1>2. SetUpFor(t) /\ isOpen[d]
  BY <1>1 DEF TransferCall, SetUpFor, Info, ClearedInfo
<1>3. d \in Device /\ ep \in Endpoint /\ KeptByClient(d)
  BY <1>2, SetUpTypes, TransferKeepsDevice
<1>4. Claimed(d)
  BY <1>2, <1>3 DEF ClientInv, DevicesInv, KeptInv
<1>. DEFINE p == pipeRefForEP(d, ep)
<1>5. p \in Slots(d, ep)
  BY <1>1, <1>3, PipeIsFound
<1>. HIDE DEF p
<1>6. p[1] \in Interface /\ p[2] \in 1..Cardinality(Endpoint) /\ p[2] <= cached[d][p[1]]
  BY <1>5 DEF Slots
<1>7. p[1] = 0
  BY <1>4, <1>6 DEF Claimed
<1>. QED
  BY <1>1, <1>4, <1>7 DEF Claimed, p

(* What accepting a transfer changes. *)
LEMMA SubmitEffects ==
    ASSUME TypeOK, ClientInv, NEW t \in Transfer, Submits(t)
    PROVE  /\ \E w \in Token: iokitSubmitTransfer(t, w)
           /\ UsesOpenDevice(t)
           /\ owed' = [owed EXCEPT ![t] = @ + 1]
           /\ UNCHANGED <<mem, isOpen, transfer, frames, listenVars, deviceVars, intfVars>>
<1>1. PICK w \in Token: iokitSubmitTransfer(t, w)
  BY NoWildSubmit DEF Submits
<1>2. usbusSubmitTransfer(t, UsbusOK) /\ UNCHANGED <<listenVars, deviceVars, intfVars>>
  BY <1>1 DEF iokitSubmitTransfer
<1>3. UsesOpenDevice(t)
  BY <1>2 DEF usbusSubmitTransfer, TransferCall, UsesOpenDevice, IsOpenDevice, Info, ClearedInfo
<1>. QED
  BY <1>1, <1>2, <1>3 DEF usbusSubmitTransfer

(* Requests and counts move, and nothing else does. *)
LEMMA OnlyRequestsMove ==
    ASSUME TypeOK, ClientInv,
           UNCHANGED <<mem, isOpen, transfer, frames, deviceVars, intfVars, gDevice>>, cb' = cb \/ cb' = "return"
    PROVE  /\ StackInv' /\ DevicesInv'
           /\ \A t \in Transfer: UsesOpenDevice(t)' <=> UsesOpenDevice(t)
           /\ \A e \in Device: IsOpenDevice(e) => StaysOpen(e)
<1>1. StackInv'
  BY DEF ClientInv, StackInv
<1>2. DevicesInv'
  BY DevicesStay DEF ClientInv, Handling, Waiting, Undecided, KeptByClient, SetUpFor, Info, deviceVars
<1>3. \A t \in Transfer: UsesOpenDevice(t)' <=> UsesOpenDevice(t)
  BY DEF UsesOpenDevice, IsOpenDevice, Info
<1>4. \A e \in Device: IsOpenDevice(e) => StaysOpen(e)
  BY DEF IsOpenDevice, StaysOpen, deviceVars, intfVars
<1>. QED
  BY <1>1, <1>2, <1>3, <1>4

(* Each IN transfer is submitted once before the loop. *)
LEMMA SubmitsFirstKeeps ==
    ASSUME TypeOK, ClientInv, NEW rx \in Rx, SubmitsFirst(rx)
    PROVE  ClientInv' /\ \A e \in Device: IsOpenDevice(e) => StaysOpen(e)
<1>. USE DEF ClientInv
<1>0. CoreTypeOK /\ Rx \subseteq Transfer /\ Tx \in Transfer /\ Tx \notin Rx
  BY EchoAssumption DEF TypeOK
<1>1. /\ frames = <<>> /\ main = "fill" /\ main' = "fill"
      /\ rx \notin filled /\ SetUpFor(rx) /\ filled' = filled \cup {rx}
      /\ UNCHANGED <<cb, gDevice, outstandingTx>>
  BY DEF SubmitsFirst, MainGoes, SetUpFor
<1>2. /\ UNCHANGED <<mem, isOpen, transfer, frames, deviceVars, intfVars>>
      /\ \/ owed' = [owed EXCEPT ![rx] = @ + 1] /\ refused' = refused
         \/ owed' = owed /\ refused' = refused \cup {rx}
  <2>1. CASE Submits(rx) /\ UNCHANGED refused
    BY <1>0, <2>1, SubmitEffects
  <2>2. CASE UNCHANGED vars /\ refused' = refused \cup {rx}
    BY <2>2 DEF vars, coreVars, iokitVars
  <2>. QED
    BY <2>1, <2>2 DEF SubmitsFirst
<1>3. /\ StackInv' /\ DevicesInv'
      /\ \A t \in Transfer: UsesOpenDevice(t)' <=> UsesOpenDevice(t)
      /\ \A e \in Device: IsOpenDevice(e) => StaysOpen(e)
  BY <1>1, <1>2, OnlyRequestsMove
<1>4. cb = "none" /\ \A t: ~Completing(t)
  BY <1>1, MainHasNoCallback
<1>5. CallbackInv'
  BY <1>1, <1>2 DEF CallbackInv, Waiting
<1>6. /\ owed[rx] = 0
      /\ owed'[rx] = 1 \/ rx \in refused'
      /\ \A t \in Transfer \ {rx}: owed'[t] = owed[t]
  BY <1>0, <1>1, <1>2 DEF MainInv, CoreTypeOK
<1>7. MainInv'
  <2>1. \A r \in Rx \ filled': owed'[r] = 0
    BY <1>0, <1>1, <1>6 DEF MainInv
  <2>2. \A t \in Transfer: SetUpFor(t)' <=> SetUpFor(t)
    BY <1>2 DEF SetUpFor
  <2>3. \A r \in filled': SetUpFor(r)'
    BY <1>1, <1>2 DEF MainInv, SetUpFor
  <2>. QED
    BY <1>1, <1>2, <2>1, <2>2, <2>3 DEF MainInv, Info
<1>8. \A t \in Transfer: InCallback(t) = 0 /\ InCallback(t)' = 0
  BY <1>1, <1>4 DEF InCallback
<1>9. CompletingInv'
  BY <1>1, <1>4 DEF CompletingInv
<1>10. OneTxInFlight'
  BY <1>0, <1>1, <1>3, <1>6, <1>8 DEF CountInv, OneTxInFlight
<1>11. RxStayPending'
  BY <1>0, <1>1, <1>2, <1>3, <1>6, <1>8 DEF MainInv, CountInv, RxStayPending
<1>. QED
  BY <1>3, <1>5, <1>7, <1>9, <1>10, <1>11 DEF CountInv

(* A packet is sent when none is in flight. *)
LEMMA SendsKeeps ==
    ASSUME TypeOK, ClientInv, Sends
    PROVE  ClientInv' /\ \A e \in Device: IsOpenDevice(e) => StaysOpen(e)
<1>. USE DEF ClientInv
<1>0. CoreTypeOK /\ Rx \subseteq Transfer /\ Tx \in Transfer /\ Tx \notin Rx
  BY EchoAssumption DEF TypeOK
<1>1. /\ frames = <<>> /\ main = "send" /\ main' = "events" /\ outstandingTx = 0 /\ outstandingTx' = 1
      /\ UNCHANGED <<cb, gDevice, filled, refused>>
  BY DEF Sends, MainGoes, MainInv
<1>2. /\ UNCHANGED <<mem, isOpen, transfer, frames, deviceVars, intfVars>>
      /\ owed' = [owed EXCEPT ![Tx] = @ + 1]
  BY <1>0, SubmitEffects DEF Sends
<1>3. /\ StackInv' /\ DevicesInv'
      /\ \A t \in Transfer: UsesOpenDevice(t)' <=> UsesOpenDevice(t)
      /\ \A e \in Device: IsOpenDevice(e) => StaysOpen(e)
  BY <1>1, <1>2, OnlyRequestsMove
<1>4. cb = "none" /\ \A t: ~Completing(t)
  BY <1>1, MainHasNoCallback
<1>5. CallbackInv'
  BY <1>1, <1>2 DEF CallbackInv, Waiting
<1>6. owed[Tx] = 0 /\ owed'[Tx] = 1 /\ \A t \in Transfer \ {Tx}: owed'[t] = owed[t]
  BY <1>0, <1>1, <1>2 DEF CountInv, OneTxInFlight, CoreTypeOK
<1>7. MainInv'
  BY <1>0, <1>1, <1>2, <1>6 DEF MainInv, SetUpFor, Info
<1>8. \A t \in Transfer: InCallback(t) = 0 /\ InCallback(t)' = 0
  BY <1>1, <1>4 DEF InCallback
<1>9. CompletingInv'
  BY <1>1, <1>4 DEF CompletingInv
<1>10. OneTxInFlight'
  BY <1>0, <1>1, <1>6, <1>8 DEF OneTxInFlight
<1>11. RxStayPending'
  BY <1>0, <1>1, <1>3, <1>6, <1>8 DEF MainInv, CountInv, RxStayPending
<1>. QED
  BY <1>3, <1>5, <1>7, <1>9, <1>10, <1>11 DEF CountInv

-----------------------------------------------------------------------------
(* onTransferComplete().                                                     *)

(* The callback that is called is the one of a transfer whose device is open. *)
LEMMA CompletionIsCalledKeeps ==
    ASSUME EchoInv, NEW w \in Token, ProcessesCompletion(w)
    PROVE  ClientInv' /\ \A e \in Device: IsOpenDevice(e) => StaysOpen(e)
<1>. USE DEF EchoInv, LibraryInv, RequestInv, ClientInv
<1>. DEFINE t == io[w].transfer
            s == StatusOf(io[w].result)
            f == TransferFrame(w, s)
<1>0. CoreTypeOK /\ Rx \subseteq Transfer /\ Tx \in Transfer
  BY EchoAssumption DEF TypeOK
<1>1. /\ frames = <<>> /\ main' = "loop" /\ gDevice # NULL /\ cb' = "called" /\ iokitProcessEvents(w)
      /\ UNCHANGED <<gDevice, outstandingTx, filled, refused>>
  BY DEF ProcessesCompletion, MainGoes, MainInv
<1>2. /\ Outstanding(w) /\ io[w] \in Request /\ t \in Transfer /\ owed[t] > 0 /\ s \in Status
      /\ UNCHANGED <<mem, isOpen, transfer>> /\ \A v \in Token \ {w}: io'[v] = io[v]
  BY <1>1, ReportTypes, ReportFrames
<1>3. SetUpFor(t) /\ UsesOpenDevice(t)
  BY <1>2, CoreAssumption DEF NoReleasedInFlight, RequestsHaveDevices, RequestsOnOwnInterface, UsesOpenDevice,
     SetUpFor, Info, ClearedInfo
<1>4. Info(t).callback
  BY <1>2, <1>3 DEF MainInv
<1>5. /\ frames' = Append(frames, f) /\ owed' = [owed EXCEPT ![t] = @ - 1]
      /\ io' = [io EXCEPT ![w].result = "delivered"] /\ UNCHANGED <<deviceVars, intfVars>>
  BY <1>1, <1>4 DEF iokitProcessEvents, usbusProcessEvents
<1>6. f \in Frame /\ f.kind = "transfer" /\ f.token = w
  BY <1>2, PushedFrames DEF TransferFrame, NewFrame
<1>7. io'[w] # NULL /\ io'[w].transfer = t
  <2>1. io'[w] = [io[w] EXCEPT !.result = "delivered"]
    BY <1>5 DEF TypeOK
  <2>2. io'[w] \in Request
    BY <1>2, <2>1 DEF Request
  <2>. QED
    BY <1>2, <2>1, <2>2, IOKitAssumption DEF Request
<1>. HIDE DEF t, s, f
<1>8. StackInv' /\ Len(frames') > 0 /\ Last(frames') = f
  BY <1>0, <1>1, <1>5, <1>6, PushedTop DEF Lost
<1>9. CallbackInv'
  BY <1>1, <1>6, <1>8 DEF CallbackInv, Waiting
<1>10. owed'[t] = owed[t] - 1 /\ \A u \in Transfer \ {t}: owed'[u] = owed[u]
  BY <1>0, <1>2, <1>5 DEF CoreTypeOK
<1>11. \A rx \in Rx \ filled: rx # t
  BY <1>2 DEF MainInv
<1>12. MainInv'
  BY <1>0, <1>1, <1>2, <1>10, <1>11 DEF MainInv, SetUpFor, Info
<1>13. DevicesInv'
  BY <1>1, <1>2, <1>5, <1>6, <1>8, DevicesStay DEF Handling, Waiting, KeptByClient, SetUpFor, Info, deviceVars
<1>14. \A u \in Transfer: UsesOpenDevice(u)' <=> UsesOpenDevice(u)
  BY <1>2 DEF UsesOpenDevice, IsOpenDevice, Info
<1>15. \A u \in Transfer: Completing(u)' <=> u = t
  BY <1>2, <1>6, <1>7, <1>8 DEF Completing, Waiting, SubjectOf
<1>16. \A u \in Transfer: InCallback(u) = 0 /\ InCallback(u)' = IF u = t THEN 1 ELSE 0
  BY <1>1, <1>15, MainHasNoCallback DEF InCallback
<1>17. CompletingInv'
  BY <1>1, <1>2, <1>3, <1>11, <1>14, <1>15, EchoAssumption DEF CompletingInv
<1>18. owed[t] \in Nat /\ owed[Tx] \in Nat
  BY <1>0, <1>2 DEF CoreTypeOK
<1>19. OneTxInFlight'
  BY <1>0, <1>1, <1>2, <1>10, <1>14, <1>16, <1>18 DEF CountInv, OneTxInFlight
<1>20. RxStayPending'
  BY <1>0, <1>1, <1>2, <1>10, <1>14, <1>16, <1>18 DEF MainInv, CountInv, RxStayPending
<1>21. \A e \in Device: IsOpenDevice(e) => StaysOpen(e)
  BY <1>2, <1>5 DEF IsOpenDevice, StaysOpen, deviceVars, intfVars
<1>. QED
  BY <1>8, <1>9, <1>12, <1>13, <1>17, <1>19, <1>20, <1>21 DEF CountInv

(* Only one transfer completes in one callback. *)
LEMMA OneCompletes ==
    ASSUME NEW t \in Transfer, Completing(t)
    PROVE  Waiting("transfer") /\ ~Waiting("connected") /\ \A u: Completing(u) => u = t
BY DEF Completing, Waiting

(* A packet that was received is answered by a submission, one that was sent *)
(* is counted.                                                               *)
LEMMA CompletedKeeps ==
    ASSUME TypeOK, ClientInv, NEW t \in Transfer, Received(t) \/ Sent(t)
    PROVE  ClientInv' /\ \A e \in Device: IsOpenDevice(e) => StaysOpen(e)
<1>. USE DEF ClientInv
<1>0. CoreTypeOK /\ Rx \subseteq Transfer /\ Tx \in Transfer /\ Tx \notin Rx
  BY EchoAssumption DEF TypeOK
<1>1. /\ cb = "called" /\ cb' = "return" /\ Completing(t)
      /\ UNCHANGED <<main, gDevice, filled>>
      /\ Waiting("transfer") /\ ~Waiting("connected")
  BY OneCompletes DEF Received, Sent
<1>2. UsesOpenDevice(t) /\ t \in filled \cup {Tx}
  BY <1>1 DEF CountInv, CompletingInv
<1>3. /\ UNCHANGED <<mem, isOpen, transfer, frames, deviceVars, intfVars>>
      /\ \/ /\ t \in Rx /\ owed' = [owed EXCEPT ![t] = @ + 1] /\ UNCHANGED <<outstandingTx, refused>>
         \/ /\ t \in Rx /\ UNCHANGED <<owed, outstandingTx>> /\ refused' = refused \cup {t}
         \/ /\ t = Tx /\ UNCHANGED <<owed, refused>> /\ outstandingTx' = outstandingTx - 1
  <2>1. CASE Received(t) /\ Submits(t) /\ UNCHANGED refused
    BY <2>1, SubmitEffects DEF Received
  <2>2. CASE Received(t) /\ UNCHANGED vars /\ refused' = refused \cup {t}
    BY <2>2 DEF Received, vars, coreVars, iokitVars
  <2>3. CASE Sent(t)
    BY <2>3 DEF Sent, vars, coreVars, iokitVars
  <2>. QED
    BY <2>1, <2>2, <2>3 DEF Received
<1>4. /\ StackInv' /\ DevicesInv'
      /\ \A u \in Transfer: UsesOpenDevice(u)' <=> UsesOpenDevice(u)
      /\ \A e \in Device: IsOpenDevice(e) => StaysOpen(e)
  BY <1>1, <1>3, OnlyRequestsMove
<1>5. CallbackInv'
  BY <1>1, <1>3 DEF CallbackInv, Waiting
<1>6. \A u \in Transfer: InCallback(u)' = 0 /\ InCallback(u) = IF u = t THEN 1 ELSE 0
  BY <1>1, OneCompletes DEF InCallback
<1>7. CompletingInv'
  BY <1>1 DEF CompletingInv
<1>8. \A u \in Transfer \ {t}: owed'[u] = owed[u]
  BY <1>0, <1>3 DEF CoreTypeOK
<1>9. owed[t] \in Nat /\ owed[Tx] \in Nat /\ (t \in Rx => owed'[t] \in {owed[t], owed[t] + 1})
  BY <1>0, <1>3 DEF CoreTypeOK
<1>10. MainInv'
  <2>1. \A rx \in Rx \ filled: owed'[rx] = 0
    BY <1>0, <1>2, <1>8 DEF MainInv
  <2>2. main' = "send" => outstandingTx' = 0
    BY <1>0, <1>1, <1>2, <1>3, <1>6, <1>9 DEF MainInv, CountInv, OneTxInFlight
  <2>. QED
    BY <1>1, <1>3, <2>1, <2>2 DEF MainInv, SetUpFor, Info
<1>11. OneTxInFlight'
  BY <1>0, <1>2, <1>3, <1>4, <1>6, <1>8, <1>9 DEF CountInv, OneTxInFlight
<1>12. ASSUME NEW rx \in filled \ refused', UsesOpenDevice(rx)' PROVE owed'[rx] + InCallback(rx)' = 1
  <2>1. rx \in Rx /\ rx \in Transfer /\ UsesOpenDevice(rx) /\ rx \in filled \ refused
    BY <1>0, <1>3, <1>4, <1>12 DEF MainInv
  <2>2. owed[rx] + InCallback(rx) = 1
    BY <2>1 DEF CountInv, RxStayPending
  <2>3. CASE rx = t
    <3>1. owed' = [owed EXCEPT ![t] = @ + 1]
      BY <1>0, <1>3, <1>12, <2>1, <2>3
    <3>. QED
      BY <1>0, <1>6, <1>9, <2>1, <2>2, <2>3, <3>1 DEF CoreTypeOK
  <2>4. CASE rx # t
    BY <1>6, <1>8, <2>1, <2>2, <2>4
  <2>. QED
    BY <2>3, <2>4
<1>13. RxStayPending'
  BY <1>1, <1>12 DEF RxStayPending
<1>. QED
  BY <1>4, <1>5, <1>7, <1>10, <1>11, <1>13 DEF CountInv

(* The first failure closes the device, whatever else runs on it. *)
LEMMA FailedKeeps ==
    ASSUME TypeOK, ClientInv, NEW t \in Transfer, FailedTransfer(t)
    PROVE  ClientInv' /\ iokitClose(Info(t).device)
           /\ \A e \in Device: IsOpenDevice(e) /\ e # Info(t).device => StaysOpen(e)
<1>. USE DEF ClientInv
<1>0. CoreTypeOK /\ Rx \subseteq Transfer /\ Tx \in Transfer
  BY EchoAssumption DEF TypeOK
<1>1. cb = "called" /\ Completing(t) /\ UNCHANGED <<main, gDevice, outstandingTx, filled, refused>>
  BY DEF FailedTransfer
<1>2. UsesOpenDevice(t) /\ Waiting("transfer") /\ ~Waiting("connected") /\ \A u: Completing(u) => u = t
  BY <1>1, OneCompletes DEF CountInv, CompletingInv
<1>3. PICK d \in Device: d = Info(t).device /\ KeptByClient(d) /\ IsOpenDevice(d)
  BY <1>2, TransferKeepsDevice DEF UsesOpenDevice, SetUpFor
<1>4. InUse(d) /\ Claimed(d) /\ dev[d] \in DevRef
  BY <1>3 DEF IsOpenDevice, InUse, DevicesInv, KeptInv, ReferenceInv
<1>5. ~WildSourceCall(d)
  BY <1>4 DEF WildSourceCall, Claimed
<1>6. iokitClose(d) /\ cb' = "return"
  BY <1>3, <1>5 DEF FailedTransfer, IsOpenDevice
<1>7. /\ UNCHANGED <<mem, transfer, owed, frames>> /\ isOpen'[d] = FALSE
      /\ \A e \in Device \ {d}: isOpen'[e] = isOpen[e]
  BY <1>0, <1>3, <1>6 DEF iokitClose, usbusClose, CoreTypeOK
<1>8. \A e \in Device \ {d}: Untouched(e)
  BY <1>3, <1>4, <1>6, OwnReferenceOnly
<1>9. StackInv' /\ CallbackInv'
  BY <1>1, <1>2, <1>6, <1>7 DEF StackInv, CallbackInv, Waiting
<1>10. MainInv'
  BY <1>1, <1>7 DEF MainInv, SetUpFor, Info
<1>11. \A e \in Device: ~Handling(e)' /\ (KeptByClient(e)' <=> KeptByClient(e))
  BY <1>1, <1>2, <1>7 DEF Handling, Waiting, KeptByClient, SetUpFor, Info
<1>12. mem'[d] = "live" /\ ~InUse(d)' /\ ~Undecided(d)'
  BY <1>3, <1>7, <1>11 DEF InUse, IsOpenDevice, Undecided
<1>13. DevicesInv'
  BY <1>3, <1>7, <1>8, <1>11, <1>12, OthersKept
<1>14. \A u \in Transfer: UsesOpenDevice(u)' => UsesOpenDevice(u) /\ Info(u).device # d
  <2>. SUFFICES ASSUME NEW u \in Transfer, UsesOpenDevice(u)' PROVE UsesOpenDevice(u) /\ Info(u).device # d
    OBVIOUS
  <2>1. SetUpFor(u) /\ mem[Info(u).device] = "live" /\ isOpen'[Info(u).device]
    BY <1>7 DEF UsesOpenDevice, IsOpenDevice, SetUpFor, Info
  <2>2. Info(u).device \in Device
    BY <2>1, SetUpTypes
  <2>. QED
    BY <1>7, <2>1, <2>2 DEF UsesOpenDevice, IsOpenDevice, SetUpFor
<1>15. \A u \in Transfer: UsesOpenDevice(u)' => InCallback(u)' = InCallback(u)
  BY <1>1, <1>2, <1>3, <1>6, <1>14 DEF InCallback
<1>16. CompletingInv'
  BY <1>6 DEF CompletingInv
<1>17. OneTxInFlight'
  BY <1>0, <1>1, <1>7, <1>14, <1>15 DEF CountInv, OneTxInFlight
<1>18. RxStayPending'
  BY <1>0, <1>1, <1>7, <1>14, <1>15 DEF MainInv, CountInv, RxStayPending
<1>19. \A e \in Device: IsOpenDevice(e) /\ e # d => StaysOpen(e)
  BY <1>8 DEF IsOpenDevice, InUse, Untouched, StaysOpen
<1>. QED
  BY <1>3, <1>6, <1>9, <1>10, <1>13, <1>16, <1>17, <1>18, <1>19 DEF CountInv

(* The kernel finishes a request behind the client's back. *)
LEMMA SystemKeeps ==
    ASSUME TypeOK, ClientInv, SystemStep
    PROVE  ClientInv' /\ \A e \in Device: IsOpenDevice(e) => StaysOpen(e)
<1>. USE DEF ClientInv
<1>1. PICK w \in Token, result \in Result: IOCompletes(w, result)
  BY DEF SystemStep
<1>2. UNCHANGED <<coreVars, listenVars, deviceVars, intfVars, echoVars>> /\ io[w] # NULL
  BY <1>1 DEF SystemStep, IOCompletes
<1>3. \A v \in Token: SubjectOf'[v] = SubjectOf[v]
  <2>1. io[w] \in Request /\ io'[w] = [io[w] EXCEPT !.result = result] /\ \A v \in Token \ {w}: io'[v] = io[v]
    BY <1>1, <1>2 DEF IOCompletes, TypeOK
  <2>2. io'[w] \in Request /\ io'[w].transfer = io[w].transfer
    BY <2>1 DEF Request
  <2>. QED
    BY <1>2, <2>1, <2>2, IOKitAssumption DEF SubjectOf
<1>4. /\ StackInv' /\ DevicesInv'
      /\ \A u \in Transfer: UsesOpenDevice(u)' <=> UsesOpenDevice(u)
      /\ \A e \in Device: IsOpenDevice(e) => StaysOpen(e)
  BY <1>2, OnlyRequestsMove DEF coreVars, echoVars
<1>5. CallbackInv' /\ MainInv'
  BY <1>2 DEF CallbackInv, MainInv, Waiting, SetUpFor, Info, coreVars, echoVars
<1>6. \A t \in Transfer: Completing(t)' <=> Completing(t)
  BY <1>2, <1>3 DEF Completing, Waiting, coreVars
<1>7. CountInv'
  BY <1>2, <1>4, <1>6, CountsStay DEF CountInv, CompletingInv, coreVars, echoVars
<1>. QED
  BY <1>4, <1>5, <1>7

-----------------------------------------------------------------------------
(* The client as an application of IOKit.                                    *)

(* Every step of the client keeps the client's part of the invariant, and    *)
(* what it holds open stays open until it is closed.                         *)
LEMMA ClientStep ==
    ASSUME EchoInv, [EchoNext]_allVars
    PROVE  /\ ClientInv'
           /\ \A e \in Device: KeptByClient(e) /\ IsOpenDevice(e) => StaysOpen(e) \/ iokitClose(e)
<1>0. TypeOK /\ ListeningHasPort /\ ClientInv
  BY DEF EchoInv, LibraryInv, RequestInv
<1>. DEFINE Goal == /\ ClientInv'
                    /\ \A e \in Device: KeptByClient(e) /\ IsOpenDevice(e) => StaysOpen(e) \/ iokitClose(e)
<1>1. CASE QuietStep
  BY <1>0, <1>1, QuietKeeps
<1>2. CASE ConnectedIsCalled
  BY <1>0, <1>2, ConnectedIsCalledKeeps
<1>3. CASE CallbackReturns
  BY <1>0, <1>3, ConnectedReturnKeeps, TransferReturnKeeps DEF CallbackReturns
<1>4. ASSUME NEW d \in Device, Handling(d), IgnoresDevice(d) \/ OpensDevice(d) \/ ClaimFails(d) \/ Claims(d)
      PROVE  Goal
  BY <1>0, <1>4, HandlingKeeps
<1>5. ASSUME NEW d \in Device, Handling(d), KeepsDevice(d) PROVE Goal
  BY <1>0, <1>5, KeepingKeeps
<1>6. CASE AllocatesTx \/ PreparesTx \/ \E rx \in Rx: Prepares(rx)
  BY <1>0, <1>6, PreparationsKeep
<1>7. ASSUME NEW rx \in Rx, SubmitsFirst(rx) PROVE Goal
  BY <1>0, <1>7, SubmitsFirstKeeps
<1>8. CASE Sends
  BY <1>0, <1>8, SendsKeeps
<1>9. ASSUME NEW w \in Token, ProcessesCompletion(w) PROVE Goal
  BY <1>0, <1>9, CompletionIsCalledKeeps
<1>10. ASSUME NEW t \in Transfer, Received(t) \/ Sent(t) PROVE Goal
  BY <1>0, <1>10, CompletedKeeps
<1>11. ASSUME NEW t \in Transfer, FailedTransfer(t) PROVE Goal
  BY <1>0, <1>11, FailedKeeps
<1>12. CASE SystemStep
  BY <1>0, <1>12, SystemKeeps
<1>13. CASE UNCHANGED allVars
  <2>1. UNCHANGED <<mem, isOpen, transfer, owed, frames, deviceVars, intfVars, io, echoVars>>
    BY <1>13 DEF allVars, vars, coreVars, iokitVars
  <2>2. /\ StackInv' /\ DevicesInv'
        /\ \A u \in Transfer: UsesOpenDevice(u)' <=> UsesOpenDevice(u)
        /\ \A e \in Device: IsOpenDevice(e) => StaysOpen(e)
    BY <1>0, <2>1, OnlyRequestsMove DEF echoVars
  <2>3. CallbackInv' /\ MainInv'
    BY <1>0, <2>1 DEF ClientInv, CallbackInv, MainInv, Waiting, SetUpFor, Info, echoVars
  <2>4. \A t: Completing(t)' <=> Completing(t)
    BY <2>1 DEF Completing, Waiting, SubjectOf
  <2>5. CountInv'
    BY <1>0, <2>1, <2>2, <2>4, CountsStay DEF ClientInv, CountInv, CompletingInv, echoVars
  <2>. QED
    BY <2>2, <2>3, <2>5 DEF ClientInv
<1>. HIDE DEF Goal
<1>14. CASE MainStep
  <2>1. \/ QuietStep \/ ConnectedIsCalled \/ CallbackReturns
        \/ \E d \in Device: Handling(d) /\ (IgnoresDevice(d) \/ OpensDevice(d) \/ ClaimFails(d) \/ Claims(d))
        \/ \E d \in Device: Handling(d) /\ KeepsDevice(d)
        \/ AllocatesTx \/ PreparesTx \/ (\E rx \in Rx: Prepares(rx)) \/ (\E rx \in Rx: SubmitsFirst(rx))
        \/ Sends \/ (\E w \in Token: ProcessesCompletion(w))
        \/ \E t \in Transfer: FailedTransfer(t) \/ Received(t) \/ Sent(t)
    BY <1>14 DEF MainStep, QuietStep
  <2>. QED
    BY <2>1, <1>1, <1>2, <1>3, <1>4, <1>5, <1>6, <1>7, <1>8, <1>9, <1>10, <1>11 DEF Goal
<1>. QED
  BY <1>12, <1>13, <1>14 DEF EchoNext, Finished, Goal

(* The client asks the library for nothing that an arbitrary application     *)
(* could not ask it for.                                                     *)
LEMMA EchoIsAnApplication ==
    ASSUME EchoInv, [EchoNext]_allVars
    PROVE  [Next]_vars
<1>0. TypeOK /\ ClientInv
  BY DEF EchoInv, LibraryInv, RequestInv
<1>1. Rx \subseteq Transfer /\ Tx \in Transfer /\ InEP \in Endpoint /\ OutEP \in Endpoint /\ 0 \in Interface
  BY EchoAssumption
<1>2. CASE QuietStep
  BY <1>2 DEF QuietStep, Listens, LoopStep, ListenReturned, StopsListening, LeavesLoop, SendFails, WaitsForTx,
     ProcessesOther, Next, ListenStep
<1>3. CASE ConnectedIsCalled
  BY <1>3 DEF ConnectedIsCalled, Next, DeviceStep
<1>4. CASE CallbackReturns
  BY <1>4 DEF CallbackReturns, Next, ListenStep
<1>5. ASSUME NEW d \in Device, IgnoresDevice(d) \/ OpensDevice(d) \/ ClaimFails(d) \/ Claims(d) \/ KeepsDevice(d)
      PROVE  [Next]_vars
  <2>1. UNCHANGED vars \/ iokitOpen(d) \/ iokitOpenInterface(d, 0) \/ AppKeepsDevice
    BY <1>5 DEF IgnoresDevice, OpensDevice, ClaimFails, Claims, KeepsDevice, iokitOpen, iokitOpenInterface
  <2>. QED
    BY <1>1, <2>1 DEF Next, ListenStep, DeviceStep
<1>6. ASSUME NEW t \in Transfer, NEW ep \in Endpoint, SetUp(t, ep), gDevice # NULL PROVE SetTransferInfo(t)
  <2>1. gDevice \in Device
    BY <1>0, <1>6 DEF ClientInv, MainInv
  <2>. QED
    BY <1>6, <2>1 DEF SetUp, SetTransferInfo
<1>7. CASE AllocatesTx \/ PreparesTx \/ \E rx \in Rx: Prepares(rx)
  <2>1. gDevice # NULL
    BY <1>0, <1>7 DEF AllocatesTx, PreparesTx, Prepares, MainGoes, ClientInv, MainInv
  <2>2. \E t \in Transfer: AllocateTransfer(t) \/ SetTransferInfo(t)
    BY <1>1, <1>6, <1>7, <2>1 DEF AllocatesTx, PreparesTx, Prepares
  <2>. QED
    BY <2>2 DEF Next, TransferStep
<1>8. ASSUME NEW t \in Transfer, Submits(t) PROVE [Next]_vars
  BY <1>8 DEF Submits, Next, TransferStep
<1>9. ASSUME NEW rx \in Rx, SubmitsFirst(rx) PROVE [Next]_vars
  BY <1>1, <1>8, <1>9 DEF SubmitsFirst
<1>10. CASE Sends
  BY <1>1, <1>8, <1>10 DEF Sends
<1>11. ASSUME NEW w \in Token, ProcessesCompletion(w) PROVE [Next]_vars
  BY <1>11 DEF ProcessesCompletion, Next
<1>12. ASSUME NEW t \in Transfer, Received(t) \/ Sent(t) PROVE [Next]_vars
  BY <1>8, <1>12 DEF Received, Sent
<1>13. ASSUME NEW t \in Transfer, FailedTransfer(t) PROVE [Next]_vars
  <2>1. PICK d \in Device: d = Info(t).device
    <3>1. UsesOpenDevice(t)
      BY <1>0, <1>13 DEF FailedTransfer, ClientInv, CountInv, CompletingInv
    <3>. QED
      BY <1>0, <3>1, SetUpTypes DEF UsesOpenDevice, SetUpFor
  <2>. QED
    BY <1>13, <2>1 DEF FailedTransfer, Next, DeviceStep
<1>14. CASE SystemStep
  BY <1>14 DEF SystemStep, Next
<1>15. CASE UNCHANGED allVars
  BY <1>15 DEF allVars
<1>16. CASE MainStep
  <2>1. \/ QuietStep \/ ConnectedIsCalled \/ CallbackReturns
        \/ \E d \in Device: IgnoresDevice(d) \/ OpensDevice(d) \/ ClaimFails(d) \/ Claims(d) \/ KeepsDevice(d)
        \/ AllocatesTx \/ PreparesTx \/ (\E rx \in Rx: Prepares(rx)) \/ (\E rx \in Rx: SubmitsFirst(rx))
        \/ Sends \/ (\E w \in Token: ProcessesCompletion(w))
        \/ \E t \in Transfer: FailedTransfer(t) \/ Received(t) \/ Sent(t)
    BY <1>16 DEF MainStep, QuietStep
  <2>. QED
    BY <2>1, <1>2, <1>3, <1>4, <1>5, <1>7, <1>9, <1>10, <1>11, <1>12, <1>13
<1>. QED
  BY <1>14, <1>15, <1>16 DEF EchoNext, Finished

-----------------------------------------------------------------------------
(* Requests.                                                                 *)

(* What a transfer is submitted for is kept by the client, claimed and open. *)
LEMMA SubmittedIsClaimed ==
    ASSUME EchoInv, NEW t \in Transfer, NEW w \in Token, iokitSubmitTransfer(t, w)
    PROVE  LET d == Info(t).device IN
           d \in Device /\ IsOpenDevice(d) /\ intf[d] = {0} /\ usbIntf[dev[d]][0] = "attached"
<1>. USE DEF EchoInv, LibraryInv
<1>1. Info(t).device \in Device /\ IsOpenDevice(Info(t).device) /\ transfer[t] # NULL
  BY StartedRequest DEF iokitSubmitTransfer, usbusSubmitTransfer, RequestInv
<1>2. SetUpFor(t)
  BY <1>1, CoreAssumption DEF SetUpFor, Info, ClearedInfo
<1>. QED
  BY <1>1, <1>2 DEF KeptByClient, ClientInv, DevicesInv, KeptInv, IsOpenDevice, Claimed

(* The client's requests stay on the interface it has claimed, until it      *)
(* closes their device.                                                      *)
LEMMA RequestsStayClaimed ==
    ASSUME EchoInv, [EchoNext]_allVars
    PROVE  RequestsOnOwnInterface' /\ RequestsHaveDevices'
<1>. USE DEF EchoInv, LibraryInv
<1>0. [Next]_vars
  BY EchoIsAnApplication
<1>. SUFFICES ASSUME NEW w \in Token, Outstanding(w)'
              PROVE  /\ usbIntf'[io'[w].ref][io'[w].index] = "attached"
                     /\ io'[w].pipe \in DOMAIN Endpoints[io'[w].index]
                     /\ Endpoints[io'[w].index][io'[w].pipe] = transfer'[io'[w].transfer].endpoint
                     /\ LET d == transfer'[io'[w].transfer].device IN
                        /\ d \in Device /\ mem'[d] = "live" /\ isOpen'[d]
                        /\ dev'[d] = io'[w].ref /\ io'[w].index \in intf'[d]
  BY DEF RequestsOnOwnInterface, RequestsHaveDevices, IsOpenDevice, Info
<1>1. ASSUME NEW t \in Transfer, iokitSubmitTransfer(t, w)
      PROVE  /\ usbIntf'[io'[w].ref][io'[w].index] = "attached"
             /\ io'[w].pipe \in DOMAIN Endpoints[io'[w].index]
             /\ Endpoints[io'[w].index][io'[w].pipe] = transfer'[io'[w].transfer].endpoint
             /\ LET d == transfer'[io'[w].transfer].device IN
                /\ d \in Device /\ mem'[d] = "live" /\ isOpen'[d]
                /\ dev'[d] = io'[w].ref /\ io'[w].index \in intf'[d]
  <2>1. UNCHANGED <<mem, isOpen, transfer, dev, intf, usbIntf>>
    BY <1>1 DEF iokitSubmitTransfer, usbusSubmitTransfer, deviceVars, intfVars
  <2>2. LET e == Info(t).device IN
        \A i \in intf[e]: source[e][i] = "live" => usbIntf[dev[e]][i] = "attached"
    BY <1>1, SubmittedIsClaimed
  <2>. QED
    BY <1>1, <2>1, <2>2, StartsOnOwnInterface DEF IsOpenDevice, Info
<1>2. CASE Kept(w)
  <2>. DEFINE t == io[w].transfer
              d == transfer[t].device
              i == io[w].index
  <2>1. /\ Outstanding(w) /\ io'[w].ref = io[w].ref /\ io'[w].index = i
        /\ io'[w].pipe = io[w].pipe /\ io'[w].transfer = t
    BY <1>2 DEF Kept
  <2>2. /\ io[w].pipe \in DOMAIN Endpoints[i] /\ Endpoints[i][io[w].pipe] = transfer[t].endpoint
        /\ d \in Device /\ IsOpenDevice(d) /\ dev[d] = io[w].ref /\ i \in intf[d]
        /\ usbIntf[dev[d]][i] = "attached"
    BY <2>1 DEF RequestsOnOwnInterface, RequestsHaveDevices, Info
  <2>3. t \in Transfer /\ transfer[t] # NULL /\ transfer'[t] = transfer[t]
    BY <1>0, <2>1, OutstandingIsOwed, OwedTransfersStay DEF RequestInv, NoReleasedInFlight
  <2>4. KeptByClient(d)
    BY <2>2, <2>3, CoreAssumption DEF KeptByClient, SetUpFor, Info, ClearedInfo
  <2>5. ~iokitClose(d)
    BY <2>1, <2>2 DEF iokitClose, CloseInterfaces, Outstanding
  <2>6. StaysOpen(d)
    BY <2>2, <2>4, <2>5, ClientStep
  <2>. QED
    BY <2>1, <2>2, <2>3, <2>6 DEF StaysOpen, IsOpenDevice
<1>. QED
  BY <1>0, <1>1, <1>2, RequestsKept DEF RequestInv

-----------------------------------------------------------------------------
(* The theorems.                                                             *)

(* The client starts with nothing. *)
LEMMA EchoInvInit == EchoInit => EchoInv
<1>. SUFFICES ASSUME EchoInit PROVE EchoInv
  OBVIOUS
<1>. USE DEF EchoInit, Init, CoreInit
<1>1. RequestInv
  BY RequestInvInit
<1>2. CacheInv /\ ListeningHasPort
  BY IOKitAssumption, LenProperties DEF AllInterfaces, CacheInv, ListeningHasPort, NoFrameOf
<1>3. RequestsOnOwnInterface /\ RequestsHaveDevices
  BY DEF RequestsOnOwnInterface, RequestsHaveDevices, Outstanding
<1>4. /\ Len(frames) = 0 /\ \A t \in Transfer: ~SetUpFor(t) /\ ~UsesOpenDevice(t)
      /\ Tx \in Transfer /\ Rx \subseteq Transfer /\ NULL \notin Device
  BY EchoAssumption, CoreAssumption DEF SetUpFor, UsesOpenDevice
<1>5. StackInv /\ CallbackInv /\ MainInv
  BY <1>4 DEF StackInv, CallbackInv, MainInv, Waiting
<1>6. DevicesInv
  BY <1>4 DEF DevicesInv, KeptInv, HandledInv, ReferenceInv, KeptByClient, Handling, Waiting, InUse
<1>7. CountInv
  BY <1>4 DEF CountInv, CompletingInv, OneTxInFlight, RxStayPending
<1>. QED
  BY <1>1, <1>2, <1>3, <1>5, <1>6, <1>7 DEF EchoInv, LibraryInv, ClientInv

(* Main() stops listening when no function of the library runs.              *)
LEMMA StopsInMain ==
    ASSUME [EchoNext]_allVars, portRef, ~portRef'
    PROVE  frames = <<>>
<1>1. portRef' # portRef
  OBVIOUS
<1>2. CASE Listens \/ LoopStep \/ ConnectedIsCalled \/ CallbackReturns
  BY <1>1, <1>2 DEF Listens, iokitListen, ListenFails, LoopStep, ListenStopsEarly, ListenGoesOn, ListenIsLost,
     DiscoveryEnds, TerminationEnds, DisconnectedCallbackReturns, DiscoverHub, TerminateDevice, ConnectedIsCalled,
     DiscoverDevice, CallbackReturns, ConnectedCallbackReturns, TransferCallbackReturns, iokitVars, listenVars
<1>3. ASSUME NEW d \in Device, IgnoresDevice(d) \/ OpensDevice(d) \/ ClaimFails(d) \/ Claims(d) \/ KeepsDevice(d)
      PROVE  UNCHANGED portRef
  BY <1>3 DEF IgnoresDevice, OpensDevice, ClaimFails, Claims, KeepsDevice, AppKeepsDevice, iokitOpen, DescriptorFails,
     SeizeFails, Seized, OpenCall, InterfaceRefused, InterfaceHalfOpen, InterfaceReady, InterfaceOpened,
     vars, iokitVars, listenVars
<1>4. CASE \/ ListenReturned \/ AllocatesTx \/ PreparesTx \/ Sends
           \/ LeavesLoop \/ SendFails \/ WaitsForTx \/ StopsListening
  BY <1>4 DEF ListenReturned, AllocatesTx, PreparesTx, Sends, LeavesLoop, SendFails, WaitsForTx, StopsListening,
     MainGoes
<1>5. CASE \/ ProcessesOther \/ \E w \in Token: ProcessesCompletion(w)
           \/ \E rx \in Rx: Prepares(rx) \/ SubmitsFirst(rx)
  BY <1>5 DEF ProcessesOther, Prepares, SubmitsFirst, ProcessesCompletion, MainGoes
<1>6. ASSUME NEW t \in Transfer, FailedTransfer(t) \/ Received(t) \/ Sent(t) PROVE UNCHANGED portRef
  BY <1>6 DEF FailedTransfer, Received, Sent, Submits, iokitSubmitTransfer, WildPipeCall, WildPipeUse, iokitClose,
     WildSourceCall, vars, iokitVars, listenVars
<1>7. CASE SystemStep \/ Finished \/ UNCHANGED allVars
  BY <1>1, <1>7 DEF SystemStep, IOCompletes, Finished, allVars, vars, iokitVars, listenVars
<1>. QED
  BY <1>1, <1>2, <1>3, <1>4, <1>5, <1>6, <1>7 DEF EchoNext, MainStep

(* Every step keeps the whole invariant. *)
LEMMA EchoInvStep == EchoInv /\ [EchoNext]_allVars => EchoInv'
<1>. SUFFICES ASSUME EchoInv, [EchoNext]_allVars PROVE EchoInv'
  OBVIOUS
<1>1. [Next]_vars /\ RequestInv /\ CacheInv
  BY EchoIsAnApplication DEF EchoInv, LibraryInv
<1>2. RequestInv'
  BY <1>1, TypeStep, OpenHasReferenceStep, RequestsAreOwedStep, NoReleasedStep DEF RequestInv
<1>3. CacheInv'
  BY <1>1, CacheInvStep DEF RequestInv
<1>4. ListeningHasPort'
  <2>1. portRef /\ ~portRef' => NoFrameOf({"listen"})
    BY StopsInMain DEF NoFrameOf
  <2>. QED
    BY <1>1, <2>1, ListeningStep DEF RequestInv, EchoInv, LibraryInv
<1>. QED
  BY <1>2, <1>3, <1>4, RequestsStayClaimed, ClientStep DEF EchoInv, LibraryInv

(* Main() and its callbacks keep the whole invariant, whatever fails.        *)
THEOREM EchoInvariant == EchoSpec => []EchoInv
BY EchoInvInit, EchoInvStep, PTL DEF EchoSpec

(* The client is an application of the library on OS X: what holds of every  *)
(* application holds of it.                                                  *)
THEOREM EchoIsIOKit == EchoSpec => Spec
<1>1. EchoInit => Init
  BY DEF EchoInit
<1>2. EchoInv /\ [EchoNext]_allVars => [Next]_vars
  BY EchoIsAnApplication
<1>. QED
  BY <1>1, <1>2, EchoInvariant, PTL DEF EchoSpec, Spec

(* The client counts the packets in flight right as long as the device of    *)
(* the last one is open, which need not be the one that it echoes with, and  *)
(* it never sets up a transfer that is in flight (main.c:101-118, 120-128).  *)
THEOREM TxIsCounted == EchoSpec => []OneTxInFlight
<1>1. EchoInv => OneTxInFlight
  BY DEF EchoInv, ClientInv, CountInv
<1>. QED
  BY <1>1, EchoInvariant, PTL

(* As long as the device is open and nothing is refused, every IN transfer   *)
(* is pending or in its callback, exactly once (main.c:86-97, 130-140).      *)
THEOREM RxIsPending == EchoSpec => []RxStayPending
<1>1. EchoInv => RxStayPending
  BY DEF EchoInv, ClientInv, CountInv
<1>. QED
  BY <1>1, EchoInvariant, PTL

(* The client never holds on to a device that was disposed, and what it      *)
(* holds open has its reference and its interface (main.c:66-70, 126).       *)
THEOREM HeldIsLive == EchoSpec => []HoldsLiveDevices
<1>1. EchoInv => HoldsLiveDevices
  <2>. SUFFICES ASSUME EchoInv,
                       NEW d \in {gDevice} \cup {Info(t).device : t \in {u \in Transfer: transfer[u] # NULL}},
                       d # NULL
                PROVE  /\ mem[d] = "live"
                       /\ isOpen[d] => Held(d) /\ devRef[dev[d]] = "open" /\ source[d][0] = "live" /\ intf[d] = {0}
    BY DEF HoldsLiveDevices
  <2>. USE DEF EchoInv, ClientInv
  <2>1. d \in Device /\ KeptByClient(d)
    <3>1. CASE d = gDevice
      BY <3>1 DEF MainInv, KeptByClient
    <3>2. ASSUME NEW t \in Transfer, transfer[t] # NULL, d = Info(t).device PROVE d \in Device /\ KeptByClient(d)
      <4>1. SetUpFor(t)
        BY <3>2 DEF SetUpFor, Info, ClearedInfo
      <4>. QED
        BY <3>2, <4>1, TransferKeepsDevice DEF LibraryInv, RequestInv
    <3>. QED
      BY <3>1, <3>2
  <2>2. mem[d] = "live" /\ (isOpen[d] => Claimed(d))
    BY <2>1 DEF DevicesInv, KeptInv
  <2>3. isOpen[d] => dev[d] \in DevRef /\ devRef[dev[d]] = "open"
    BY <2>1, <2>2 DEF DevicesInv, ReferenceInv, InUse
  <2>. QED
    BY <2>2, <2>3, IOKitAssumption DEF Claimed, Held
<1>. QED
  BY <1>1, EchoInvariant, PTL

(* No call of the client is lost, although its interface may fail half way   *)
(* and it disposes devices while they are open.                              *)
THEOREM NoCallOfEchoIsLost == EchoSpec => []NoWildCall
<1>1. EchoInv => NoWildCall
  BY NothingWaits DEF EchoInv, ClientInv, LibraryInv, RequestInv, TypeOK, NoWildCall
<1>. QED
  BY <1>1, EchoInvariant, PTL

(* The client's requests keep the contract of asynchronous transfers, though *)
(* it does not keep the rules under which every application does.            *)
THEOREM EchoKeepsContract == EchoSpec => ImplementsContract
<1>1. EchoInit => Contract!Init /\ CallbacksReport
  BY InitAllowed DEF EchoInit
<1>2. EchoInv /\ CallbacksReport /\ [EchoNext]_allVars => CallbacksReport'
  BY EchoIsAnApplication, CallbacksReportStep DEF EchoInv, LibraryInv, RequestInv
<1>3. EchoInv => HomeInv
  BY ApartAtHome DEF EchoInv, LibraryInv, ClientInv, DevicesInv, ReferenceInv, InUse, IsOpenDevice, HomeInv,
     OpenDevicesApart
<1>4. EchoInv /\ CallbacksReport /\ [EchoNext]_allVars => [Contract!Next]_(Contract!vars)
  BY <1>3, EchoIsAnApplication, NextAllowed
<1>. QED
  BY <1>1, <1>2, <1>4, EchoInvariant, PTL DEF EchoSpec, ImplementsContract, Contract!Spec

(* Each of its requests runs on the pipe of its endpoint, on an interface    *)
(* that is open: the close that onTransferComplete() makes in the middle of  *)
(* a report, with the other transfers in flight, leaves none of them behind  *)
(* (main.c:124-127).                                                         *)
THEOREM EchoRequestsAtHome == EchoSpec => []RequestsOnOwnInterface
<1>1. EchoInv => RequestsOnOwnInterface
  BY DEF EchoInv, LibraryInv
<1>. QED
  BY <1>1, EchoInvariant, PTL

=============================================================================
