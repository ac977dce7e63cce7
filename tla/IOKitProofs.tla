----------------------------- MODULE IOKitProofs -----------------------------
(* Theorems about IOKit, for every number of devices, references, transfers  *)
(* and requests: types and released transfers for any application, and what  *)
(* the rules of a disciplined application are for.                           *)
EXTENDS IOKit, CoreProofs

-----------------------------------------------------------------------------
(* The steps by what they change.                                            *)

(* Listening and callbacks change no device, no interface and no request;    *)
(* they may take a fresh reference.                                          *)
LEMMA ListenSteps ==
    ASSUME TypeOK, ListenStep \/ TransferCallbackReturns
    PROVE  /\ LoopOp \/ ConnectedReturns \/ UNCHANGED coreVars
           /\ UNCHANGED <<dev, tried, intfVars>>
           /\ portRef' \in BOOLEAN /\ notes' \subseteq {"matched", "terminated"}
           /\ \/ UNCHANGED devRef
              \/ \E r \in DevRef: Fresh(r) /\ devRef' = [devRef EXCEPT ![r] = "idle"]
           /\ UNCHANGED io \/ io' = [io EXCEPT ![Last(frames).token] = NULL]
<1>1. CASE ListenFails \/ iokitListen \/ ListenStopsEarly \/ ListenGoesOn \/ ListenIsLost \/ iokitStopListen
  BY <1>1 DEF ListenFails, iokitListen, ListenStopsEarly, ListenGoesOn, ListenIsLost, iokitStopListen, LoopOp, ListenOp,
              LosesPort, QuietListenOp, iokitVars, deviceVars, listenVars, intfVars, TypeOK
<1>2. CASE NotifyDiscovered \/ NotifyTerminated \/ DiscoveryEnds \/ TerminationEnds
  BY <1>2 DEF NotifyDiscovered, NotifyTerminated, DiscoveryEnds, TerminationEnds, LoopOp, ListenOp, QuietListenOp,
              iokitVars, deviceVars, listenVars, intfVars, TypeOK
<1>3. CASE \E r \in DevRef: DiscoverHub(r) \/ TerminateDevice(r)
  BY <1>3 DEF DiscoverHub, TerminateDevice, TakeRef, LoopOp, ListenOp, QuietListenOp, listenVars, intfVars, TypeOK
<1>4. CASE DisconnectedCallbackReturns \/ AppKeepsDevice \/ ConnectedCallbackReturns
  BY <1>4 DEF DisconnectedCallbackReturns, AppKeepsDevice, ConnectedCallbackReturns, LoopOp, ListenOp, QuietListenOp,
              iokitVars, deviceVars, listenVars, intfVars, TypeOK
<1>5. CASE TransferCallbackReturns
  BY <1>5 DEF TransferCallbackReturns, LoopOp, deviceVars, listenVars, intfVars, TypeOK
<1>. QED
  BY <1>1, <1>2, <1>3, <1>4, <1>5 DEF ListenStep

(* What a step of a device does to core.c's half. *)
LEMMA DeviceSteps ==
    ASSUME NEW d \in Device, DeviceStep(d)
    PROVE  DeviceOp(d)
<1>1. CASE iokitOpen(d)
  <2>1. Failed \in Int /\ UsbusOK \in Int
    BY DEF Failed, UsbusOK
  <2>2. \E r \in {Failed, UsbusOK}: usbusOpen(d, r)
    BY <1>1 DEF iokitOpen, DescriptorFails, SeizeFails, Seized, OpenCall
  <2>. QED
    BY <2>1, <2>2 DEF DeviceOp
<1>2. CASE \/ \E r \in DevRef: DiscoverDevice(d, r)
           \/ Dispose(d) \/ iokitClose(d)
  BY <1>2 DEF DeviceOp, DiscoverDevice, Dispose, iokitClose
<1>3. CASE \E index \in Interface: iokitOpenInterface(d, index) \/ iokitCloseInterface(d, index)
  BY <1>3 DEF DeviceOp, iokitOpenInterface, InterfaceRefused, InterfaceHalfOpen, InterfaceReady, InterfaceOpened,
              iokitCloseInterface
<1>4. CASE WildDeviceCall(d) \/ WildSourceCall(d) \/ WildSyncCall(d)
  BY <1>4 DEF DeviceOp, WildDeviceCall, WildSourceCall, WildSyncCall, WildPipeUse, Lost
<1>. QED
  BY <1>1, <1>2, <1>3, <1>4 DEF DeviceStep

(* What a step of a transfer does to core.c's half, and that it changes      *)
(* nothing but requests in this one.                                         *)
LEMMA TransferSteps ==
    ASSUME TypeOK, NEW t \in Transfer, TransferStep(t)
    PROVE  /\ UNCHANGED <<listenVars, deviceVars, intfVars>>
           /\ \/ WildPipeCall(t) /\ Info(t).device \in Device /\ DeviceOp(Info(t).device) /\ UNCHANGED io
              \/ TransferOp(t)
<1>1. CASE WildPipeCall(t)
  <2>1. Info(t).device \in Device
    BY <1>1 DEF WildPipeCall, TransferCall, Info, TransferInfo, ClearedInfo, TypeOK, CoreTypeOK
  <2>. QED
    BY <1>1, <2>1 DEF WildPipeCall, WildPipeUse, DeviceOp, Lost, iokitVars
<1>2. CASE AllocateTransfer(t) \/ ReleaseTransfer(t) \/ SetTransferInfo(t)
  BY <1>2 DEF AllocateTransfer, ReleaseTransfer, SetTransferInfo, TransferOp, iokitVars
<1>3. ASSUME NEW w \in Token, iokitSubmitTransfer(t, w)
      PROVE  TransferOp(t) /\ UNCHANGED <<listenVars, deviceVars, intfVars>>
  BY <1>3 DEF iokitSubmitTransfer, TransferOp, UsbusOK
<1>4. CASE iokitCancelTransfer(t)
  BY <1>4 DEF iokitCancelTransfer, TransferOp
<1>. QED
  BY <1>1, <1>2, <1>3, <1>4 DEF TransferStep

-----------------------------------------------------------------------------
(* Types.                                                                    *)

(* Types alone are not inductive: a request runs on the reference of an open *)
(* device, and a report must have been owed.                                 *)
OpenHasReference == \A d \in Device: IsOpenDevice(d) => dev[d] \in DevRef

RequestsOf(t) == {w \in Token: Outstanding(w) /\ io[w].transfer = t}

RequestsAreOwed == \A t \in Transfer: Cardinality(RequestsOf(t)) <= owed[t]

(* Requests are finite in number, and one that is outstanding is counted. *)
LEMMA RequestsCount ==
    ASSUME TypeOK, NEW t \in Transfer
    PROVE  /\ IsFiniteSet(RequestsOf(t)) /\ Cardinality(RequestsOf(t)) \in Nat
           /\ \A w \in RequestsOf(t): Cardinality(RequestsOf(t)) > 0
<1>1. IsFiniteSet(RequestsOf(t))
  BY CoreAssumption, FS_Subset DEF RequestsOf
<1>2. Cardinality(RequestsOf(t)) \in Nat
  BY <1>1, FS_CardinalityType
<1>3. RequestsOf(t) # {} => Cardinality(RequestsOf(t)) # 0
  BY <1>1, FS_EmptySet
<1>. QED
  BY <1>1, <1>2, <1>3

(* The transfer of an outstanding request is owed a completion. *)
LEMMA OutstandingIsOwed ==
    ASSUME TypeOK, RequestsAreOwed, NEW w \in Token, Outstanding(w)
    PROVE  io[w] \in Request /\ io[w].transfer \in Transfer /\ owed[io[w].transfer] > 0
<1>. DEFINE t == io[w].transfer
<1>1. io[w] \in Request /\ t \in Transfer
  BY DEF Outstanding, TypeOK, Request
<1>2. owed[t] \in Nat /\ Cardinality(RequestsOf(t)) <= owed[t]
  BY <1>1 DEF RequestsAreOwed, TypeOK, CoreTypeOK
<1>3. w \in RequestsOf(t)
  BY DEF RequestsOf
<1>4. Cardinality(RequestsOf(t)) \in Nat /\ Cardinality(RequestsOf(t)) > 0
  BY <1>1, <1>3, RequestsCount
<1>. HIDE DEF t
<1>5. owed[t] > 0
  BY <1>2, <1>4
<1>. QED
  BY <1>1, <1>5 DEF t

(* A report is one of a transfer that is owed it, with a status. *)
LEMMA ReportTypes ==
    ASSUME TypeOK, RequestsAreOwed, NEW w \in Token, iokitProcessEvents(w)
    PROVE  /\ io[w] \in Request /\ io[w].transfer \in Transfer /\ owed[io[w].transfer] > 0
           /\ StatusOf(io[w].result) \in Status
           /\ Outstanding(w)
<1>1. Outstanding(w) /\ io[w].result # "pending"
  BY DEF iokitProcessEvents
<1>2. io[w] \in Request /\ io[w].transfer \in Transfer /\ owed[io[w].transfer] > 0
  BY <1>1, OutstandingIsOwed
<1>3. io[w].result \in {"success", "aborted", "failed"}
  BY <1>1, <1>2 DEF Outstanding, Request, Result
<1>4. StatusOf(io[w].result) \in Status
  BY <1>3 DEF StatusOf, Status, UsbusComplete, UsbusCanceled, UsbusStatusGenericError
<1>. QED
  BY <1>1, <1>2, <1>4

(* A step of a device keeps the types: one step per operation. *)
LEMMA DeviceStepTypes ==
    ASSUME TypeOK, NEW d \in Device, DeviceStep(d)
    PROVE  TypeOK'
<1>. USE IOKitAssumption
<1>1. CoreTypeOK'
  BY DeviceSteps, DeviceOpTypes DEF TypeOK
<1>2. ASSUME NEW r \in DevRef, DiscoverDevice(d, r) PROVE TypeOK'
  BY <1>1, <1>2 DEF DiscoverDevice, TakeRef, AllInterfaces, listenVars, TypeOK
<1>3. CASE Dispose(d) \/ WildDeviceCall(d) \/ WildSourceCall(d) \/ WildSyncCall(d)
  BY <1>1, <1>3 DEF Dispose, WildDeviceCall, WildSourceCall, WildSyncCall, WildPipeUse,
                    iokitVars, listenVars, deviceVars, intfVars, TypeOK
<1>4. CASE iokitOpen(d)
  BY <1>1, <1>4 DEF iokitOpen, DescriptorFails, SeizeFails, Seized, OpenCall, listenVars, intfVars, TypeOK
<1>5. ASSUME NEW is \in SUBSET Interface, CloseInterfaces(d, is)
      PROVE  /\ intf' \in [Device -> SUBSET Interface]
             /\ source' \in [Device -> [Interface -> {"none", "live", "released"}]]
             /\ usbIntf' \in [DevRef -> [Interface -> {"closed", "open", "attached"}]]
             /\ io' \in [Token -> {NULL} \cup Request]
             /\ cached' = cached
  BY <1>5 DEF CloseInterfaces, TypeOK
<1>6. CASE iokitClose(d)
  BY <1>1, <1>5, <1>6 DEF iokitClose, listenVars, TypeOK
<1>7. ASSUME NEW index \in Interface, iokitCloseInterface(d, index) PROVE TypeOK'
  BY <1>1, <1>5, <1>7 DEF iokitCloseInterface, listenVars, deviceVars, TypeOK
<1>8. ASSUME NEW index \in Interface, iokitOpenInterface(d, index) PROVE TypeOK'
  <2>1. CASE InterfaceRefused(d, index)
    BY <1>1, <2>1 DEF InterfaceRefused, listenVars, deviceVars, TypeOK
  <2>2. ASSUME NEW n \in Nat, NEW state \in {"open", "attached"}, InterfaceOpened(d, index, n, state)
        PROVE  /\ intf' \in [Device -> SUBSET Interface]
               /\ usbIntf' \in [DevRef -> [Interface -> {"closed", "open", "attached"}]]
               /\ cached' \in [Device -> [Interface -> Nat]]
               /\ UNCHANGED <<listenVars, deviceVars, io>>
    BY <2>2 DEF InterfaceOpened, TypeOK
  <2>3. Len(Endpoints[index]) \in Nat
    BY LenProperties
  <2>4. CASE InterfaceHalfOpen(d, index)
    <3>1. PICK n \in Nat: InterfaceOpened(d, index, n, "open")
      BY <2>3, <2>4 DEF InterfaceHalfOpen
    <3>. QED
      BY <1>1, <2>2, <2>4, <3>1 DEF InterfaceHalfOpen, listenVars, deviceVars, TypeOK
  <2>5. CASE InterfaceReady(d, index)
    BY <1>1, <2>2, <2>3, <2>5 DEF InterfaceReady, listenVars, deviceVars, TypeOK
  <2>. QED
    BY <1>8, <2>1, <2>4, <2>5 DEF iokitOpenInterface
<1>. QED
  BY <1>2, <1>3, <1>4, <1>6, <1>7, <1>8 DEF DeviceStep

(* What submitting and canceling go through, and that a request that is      *)
(* started has the types of one.                                             *)
LEMMA StartedRequest ==
    ASSUME TypeOK, OpenHasReference, NEW t \in Transfer, NEW w \in Token,
           NEW p \in Interface \X (1..Cardinality(Endpoint)),
           TransferCall(t), StartIO(w, t, p)
    PROVE  /\ IsOpenDevice(Info(t).device)
           /\ Info(t).device \in Device /\ Info(t).endpoint \in Endpoint
           /\ transfer[t] # NULL
           /\ io[w] = NULL /\ io' \in [Token -> {NULL} \cup Request]
           /\ io'[w].transfer = t /\ io'[w].result = "pending" /\ io'[w] # NULL
           /\ \A v \in Token \ {w}: io'[v] = io[v]
<1>1. transfer[t] \in TransferInfo /\ Info(t).device # NULL /\ IsOpenDevice(Info(t).device)
  BY DEF TransferCall, Info, IsOpenDevice, TypeOK, CoreTypeOK
<1>2. Info(t).device \in Device /\ Info(t).endpoint \in Endpoint
  BY <1>1 DEF TransferInfo, ClearedInfo, Info
<1>3. dev[Info(t).device] \in DevRef
  BY <1>1, <1>2 DEF OpenHasReference
<1>4. p[1] \in Interface /\ p[2] \in Nat
  OBVIOUS
<1>. DEFINE new == [ref |-> dev[Info(t).device], index |-> p[1], pipe |-> p[2],
                    transfer |-> t, aborting |-> FALSE, result |-> "pending"]
<1>5. new \in Request
  BY <1>3, <1>4 DEF Request
<1>6. io[w] = NULL /\ io' = [io EXCEPT ![w] = new]
  BY DEF StartIO
<1>7. new.transfer = t /\ new.result = "pending" /\ new # NULL
  BY <1>5, IOKitAssumption
<1>. HIDE DEF new
<1>8. io' \in [Token -> {NULL} \cup Request] /\ io'[w] = new /\ \A v \in Token \ {w}: io'[v] = io[v]
  BY <1>5, <1>6 DEF TypeOK
<1>. QED
  BY <1>1, <1>2, <1>6, <1>7, <1>8 DEF TransferCall

(* A step of a transfer keeps the types. *)
LEMMA TransferStepTypes ==
    ASSUME TypeOK, OpenHasReference, NEW t \in Transfer, TransferStep(t)
    PROVE  TypeOK'
<1>1. CoreTypeOK' /\ UNCHANGED <<listenVars, deviceVars, intfVars>>
  BY TransferSteps, DeviceOpTypes, TransferOpTypes DEF TypeOK
<1>2. io' \in [Token -> {NULL} \cup Request]
  <2>1. CASE AllocateTransfer(t) \/ ReleaseTransfer(t) \/ SetTransferInfo(t) \/ WildPipeCall(t)
    BY <2>1 DEF AllocateTransfer, ReleaseTransfer, SetTransferInfo, WildPipeCall, WildPipeUse, iokitVars, TypeOK
  <2>2. ASSUME NEW w \in Token, iokitSubmitTransfer(t, w) PROVE io' \in [Token -> {NULL} \cup Request]
    BY <2>2, StartedRequest DEF iokitSubmitTransfer, usbusSubmitTransfer
  <2>3. CASE iokitCancelTransfer(t)
    <3>1. \A w \in Token: io[w] \in Request => [io[w] EXCEPT !.aborting = TRUE] \in Request
      BY DEF Request
    <3>. QED
      BY <2>3, <3>1 DEF iokitCancelTransfer, TypeOK
  <2>. QED
    BY <2>1, <2>2, <2>3 DEF TransferStep
<1>. QED
  BY <1>1, <1>2 DEF listenVars, deviceVars, intfVars, TypeOK

(* A request that is finished or reported is still one. *)
LEMMA CompletionTypes ==
    ASSUME TypeOK, RequestsAreOwed, NEW w \in Token,
           iokitProcessEvents(w) \/ \E result \in Result: IOCompletes(w, result)
    PROVE  TypeOK'
<1>1. \A v \in Token, result \in Result \cup {"delivered"}:
        io[v] \in Request => [io[v] EXCEPT !.result = result] \in Request
  BY DEF Request
<1>2. ASSUME NEW result \in Result, IOCompletes(w, result) PROVE TypeOK'
  <2>1. io' = [io EXCEPT ![w] = [io[w] EXCEPT !.result = result]] /\ io[w] \in Request
    BY <1>2 DEF IOCompletes, TypeOK
  <2>2. io' \in [Token -> {NULL} \cup Request]
    BY <1>1, <2>1 DEF TypeOK
  <2>. QED
    BY <1>2, <2>2 DEF IOCompletes, coreVars, listenVars, deviceVars, intfVars, TypeOK, CoreTypeOK
<1>3. CASE iokitProcessEvents(w)
  <2>1. CoreTypeOK'
    BY <1>3, ReportTypes, ProcessEventsTypes DEF iokitProcessEvents, TypeOK
  <2>2. io[w] \in Request
    BY <1>3, ReportTypes
  <2>3. \/ io' = [io EXCEPT ![w].result = "delivered"]
        \/ io' = [io EXCEPT ![w] = NULL]
    BY <1>3, Zenon DEF iokitProcessEvents
  <2>4. io' \in [Token -> {NULL} \cup Request]
    <3>1. [io[w] EXCEPT !.result = "delivered"] \in Request
      BY <1>1, <2>2
    <3>. QED
      BY <2>3, <3>1 DEF TypeOK
  <2>. QED
    BY <1>3, <2>1, <2>4 DEF iokitProcessEvents, listenVars, deviceVars, intfVars, TypeOK
<1>. QED
  BY <1>2, <1>3

(* Every step keeps the variables typed. *)
LEMMA TypeStep == TypeOK /\ OpenHasReference /\ RequestsAreOwed /\ [Next]_vars => TypeOK'
<1>. SUFFICES ASSUME TypeOK, OpenHasReference, RequestsAreOwed, [Next]_vars PROVE TypeOK'
  OBVIOUS
<1>1. CASE ListenStep \/ TransferCallbackReturns
  <2>1. CoreTypeOK'
    <3>1. CASE LoopOp
      BY <3>1, LoopOpTypes DEF TypeOK
    <3>2. CASE ConnectedReturns
      BY <3>2, ConnectedReturnsTypes DEF TypeOK
    <3>3. CASE UNCHANGED coreVars
      BY <3>3 DEF coreVars, CoreTypeOK, TypeOK
    <3>. QED
      BY <1>1, <3>1, <3>2, <3>3, ListenSteps
  <2>2. io' \in [Token -> {NULL} \cup Request]
    BY <1>1, ListenSteps DEF TypeOK
  <2>3. devRef' \in [DevRef -> {"free", "idle", "open"}]
    BY <1>1, ListenSteps DEF TypeOK
  <2>. QED
    BY <1>1, <2>1, <2>2, <2>3, ListenSteps DEF intfVars, TypeOK
<1>2. ASSUME NEW d \in Device, DeviceStep(d) PROVE TypeOK'
  BY <1>2, DeviceStepTypes
<1>3. ASSUME NEW t \in Transfer, TransferStep(t) PROVE TypeOK'
  BY <1>3, TransferStepTypes
<1>4. ASSUME NEW w \in Token, NEW result \in Result, IOCompletes(w, result) PROVE TypeOK'
  BY <1>4, CompletionTypes
<1>5. ASSUME NEW w \in Token, iokitProcessEvents(w) PROVE TypeOK'
  BY <1>5, CompletionTypes
<1>6. CASE UNCHANGED vars
  BY <1>6 DEF vars, coreVars, iokitVars, listenVars, deviceVars, intfVars, TypeOK, CoreTypeOK
<1>. QED
  BY <1>1, <1>2, <1>3, <1>4, <1>5, <1>6 DEF Next, StaysLost

-----------------------------------------------------------------------------
(* References and debts.                                                     *)

(* An open device keeps the pointer it was opened through until it is closed. *)
LEMMA OpenHasReferenceStep == TypeOK /\ OpenHasReference /\ [Next]_vars => OpenHasReference'
<1>. SUFFICES ASSUME TypeOK, OpenHasReference, [Next]_vars PROVE OpenHasReference'
  OBVIOUS
<1>1. ASSUME UNCHANGED dev, \A d \in Device: IsOpenDevice(d)' => IsOpenDevice(d)
      PROVE  OpenHasReference'
  BY <1>1 DEF OpenHasReference
<1>2. CASE ListenStep \/ TransferCallbackReturns
  <2>1. \A d \in Device: IsOpenDevice(d)' => IsOpenDevice(d)
    BY <1>2, ListenSteps, LoopOpTypes, ConnectedReturnsTypes DEF IsOpenDevice, coreVars, TypeOK
  <2>. QED
    BY <1>1, <1>2, <2>1, ListenSteps
<1>3. ASSUME NEW d \in Device, DeviceStep(d) PROVE OpenHasReference'
  <2>1. \A e \in Device \ {d}: IsOpenDevice(e)' => IsOpenDevice(e)
    BY <1>3, DeviceSteps, DeviceOpTypes DEF IsOpenDevice, TypeOK
  <2>2. \A e \in Device \ {d}: dev'[e] = dev[e]
    BY <1>3 DEF DeviceStep, DiscoverDevice, Dispose, iokitOpen, DescriptorFails, SeizeFails, Seized, OpenCall,
         iokitClose, iokitOpenInterface, InterfaceRefused, InterfaceHalfOpen, InterfaceReady, InterfaceOpened,
         iokitCloseInterface, WildDeviceCall, WildSourceCall, WildSyncCall, WildPipeUse,
         iokitVars, deviceVars, TypeOK
  <2>3. IsOpenDevice(d)' => dev'[d] \in DevRef
    <3>1. CASE iokitOpen(d)
      BY <3>1 DEF iokitOpen, DescriptorFails, SeizeFails, Seized, OpenCall, Held, TypeOK
    <3>2. CASE iokitClose(d) \/ \E r \in DevRef: DiscoverDevice(d, r)
      BY <3>2 DEF iokitClose, usbusClose, DiscoverDevice, dispatchConnectedDevice, IsOpenDevice, TypeOK, CoreTypeOK
    <3>3. CASE UNCHANGED dev /\ (IsOpenDevice(d)' => IsOpenDevice(d))
      BY <3>3 DEF OpenHasReference
    <3>4. CASE Dispose(d)
      BY <3>3, <3>4 DEF Dispose, usbusDispose, iokitVars, deviceVars, IsOpenDevice, TypeOK, CoreTypeOK
    <3>5. CASE \E index \in Interface: iokitOpenInterface(d, index) \/ iokitCloseInterface(d, index)
      BY <3>3, <3>5 DEF iokitOpenInterface, InterfaceRefused, InterfaceHalfOpen, InterfaceReady, InterfaceOpened,
           iokitCloseInterface, InterfaceCall, coreVars, deviceVars, IsOpenDevice
    <3>6. CASE WildDeviceCall(d) \/ WildSourceCall(d) \/ WildSyncCall(d)
      BY <3>3, <3>6 DEF WildDeviceCall, WildSourceCall, WildSyncCall, WildPipeUse, CallIsLost,
           iokitVars, deviceVars, IsOpenDevice
    <3>. QED
      BY <1>3, <3>1, <3>2, <3>4, <3>5, <3>6 DEF DeviceStep
  <2>. QED
    BY <2>1, <2>2, <2>3 DEF OpenHasReference
<1>4. ASSUME NEW t \in Transfer, TransferStep(t) PROVE OpenHasReference'
  <2>1. UNCHANGED <<mem, isOpen, dev>>
    BY <1>4, TransferSteps, TransferOpTypes DEF WildPipeCall, WildPipeUse, CallIsLost, deviceVars, TypeOK
  <2>. QED
    BY <1>1, <2>1 DEF IsOpenDevice
<1>5. CASE (\E w \in Token, result \in Result: IOCompletes(w, result)) \/ (\E w \in Token: iokitProcessEvents(w))
  BY <1>1, <1>5 DEF IOCompletes, iokitProcessEvents, usbusProcessEvents, coreVars, deviceVars, IsOpenDevice
<1>6. CASE UNCHANGED vars
  BY <1>1, <1>6 DEF vars, coreVars, iokitVars, deviceVars, IsOpenDevice
<1>. QED
  BY <1>2, <1>3, <1>4, <1>5, <1>6 DEF Next, StaysLost

(* A step leaves a request that is still outstanding what it was. *)
Kept(w) ==
    Outstanding(w)' =>
        /\ Outstanding(w)
        /\ io'[w].ref = io[w].ref /\ io'[w].index = io[w].index
        /\ io'[w].pipe = io[w].pipe /\ io'[w].transfer = io[w].transfer

(* Only a submission starts a request, and only its own. *)
LEMMA RequestsKept ==
    ASSUME TypeOK, [Next]_vars
    PROVE  /\ \A w \in Token: Kept(w) \/ \E t \in Transfer: iokitSubmitTransfer(t, w)
           /\ (~\E t \in Transfer, w \in Token: iokitSubmitTransfer(t, w)) => \A w \in Token: Kept(w)
<1>1. CASE UNCHANGED io
  BY <1>1 DEF Kept, Outstanding
<1>2. CASE ListenStep \/ TransferCallbackReturns
  BY <1>2, ListenSteps DEF Kept, Outstanding, TypeOK
<1>3. ASSUME NEW d \in Device, DeviceStep(d) PROVE \A w \in Token: Kept(w)
  <2>1. ASSUME NEW is \in SUBSET Interface, CloseInterfaces(d, is) PROVE \A w \in Token: Kept(w)
    BY <2>1 DEF CloseInterfaces, Kept, Outstanding
  <2>2. CASE iokitClose(d)
    BY <2>1, <2>2 DEF iokitClose, TypeOK
  <2>3. CASE \E index \in Interface: iokitCloseInterface(d, index)
    BY <2>1, <2>3 DEF iokitCloseInterface
  <2>4. UNCHANGED io \/ iokitClose(d) \/ \E index \in Interface: iokitCloseInterface(d, index)
    BY <1>3 DEF DeviceStep, DiscoverDevice, Dispose, iokitOpen, DescriptorFails, SeizeFails, Seized, OpenCall,
         iokitOpenInterface, InterfaceRefused, InterfaceHalfOpen, InterfaceReady, InterfaceOpened,
         WildDeviceCall, WildSourceCall, WildSyncCall, WildPipeUse, iokitVars
  <2>. QED
    BY <2>2, <2>3, <2>4 DEF Kept, Outstanding
<1>4. ASSUME NEW t \in Transfer, NEW w \in Token, iokitSubmitTransfer(t, w)
      PROVE  \A v \in Token \ {w}: Kept(v)
  BY <1>4 DEF iokitSubmitTransfer, StartIO, Kept, Outstanding, TypeOK
<1>5. ASSUME NEW t \in Transfer, iokitCancelTransfer(t) PROVE \A w \in Token: Kept(w)
  <2>1. \A w \in Token: io'[w] = io[w] \/ (io[w] # NULL /\ io'[w] = [io[w] EXCEPT !.aborting = TRUE])
    BY <1>5 DEF iokitCancelTransfer
  <2>2. \A w \in Token: io[w] # NULL => io[w] \in Request
    BY DEF TypeOK
  <2>. QED
    BY <2>1, <2>2 DEF Kept, Outstanding, Request
<1>6. ASSUME NEW w \in Token, (\E result \in Result: IOCompletes(w, result)) \/ iokitProcessEvents(w)
      PROVE  \A v \in Token: Kept(v)
  <2>1. \A v \in Token \ {w}: io'[v] = io[v]
    BY <1>6 DEF IOCompletes, iokitProcessEvents, TypeOK
  <2>2. io[w] \in Request
    BY <1>6 DEF IOCompletes, iokitProcessEvents, Outstanding, TypeOK
  <2>3. \/ \E result \in Result: io'[w] = [io[w] EXCEPT !.result = result] /\ io[w].result = "pending"
        \/ io'[w] = [io[w] EXCEPT !.result = "delivered"]
        \/ io'[w] = NULL
    BY <1>6 DEF IOCompletes, iokitProcessEvents, TypeOK
  <2>4. Kept(w)
    <3>1. ASSUME NEW result \in Result, io'[w] = [io[w] EXCEPT !.result = result], io[w].result = "pending"
          PROVE  Kept(w)
      <4>1. io[w] # NULL
        BY <2>2, IOKitAssumption
      <4>2. /\ io'[w].ref = io[w].ref /\ io'[w].index = io[w].index
            /\ io'[w].pipe = io[w].pipe /\ io'[w].transfer = io[w].transfer
        BY <2>2, <3>1 DEF Request
      <4>. QED
        BY <3>1, <4>1, <4>2 DEF Kept, Outstanding
    <3>2. CASE io'[w] = [io[w] EXCEPT !.result = "delivered"]
      BY <2>2, <3>2 DEF Kept, Outstanding, Request
    <3>3. CASE io'[w] = NULL
      BY <3>3 DEF Kept, Outstanding
    <3>. QED
      BY <2>3, <3>1, <3>2, <3>3
  <2>. QED
    BY <2>1, <2>4 DEF Kept, Outstanding
<1>7. ASSUME NEW t \in Transfer, TransferStep(t), ~(\E w \in Token: iokitSubmitTransfer(t, w)), ~iokitCancelTransfer(t)
      PROVE  UNCHANGED io
  BY <1>7 DEF TransferStep, AllocateTransfer, ReleaseTransfer, SetTransferInfo, WildPipeCall, WildPipeUse, iokitVars
<1>8. UNCHANGED vars => UNCHANGED io
  BY DEF vars, iokitVars
<1>. QED
  BY <1>1, <1>2, <1>3, <1>4, <1>5, <1>6, <1>7, <1>8 DEF Next, StaysLost

(* Fewer requests are not more. *)
LEMMA FewerRequests ==
    ASSUME TypeOK, NEW t \in Transfer, RequestsOf(t)' \subseteq RequestsOf(t)
    PROVE  Cardinality(RequestsOf(t)') <= Cardinality(RequestsOf(t))
BY RequestsCount, FS_Subset

(* A step that starts and reports nothing takes nothing off what is owed. *)
LEMMA OwedSteps ==
    ASSUME TypeOK, [Next]_vars, ~\E w \in Token: iokitProcessEvents(w)
    PROVE  \A t \in Transfer: owed'[t] >= owed[t]
<1>1. \A t \in Transfer: owed[t] \in Nat
  BY DEF TypeOK, CoreTypeOK
<1>2. CASE ListenStep \/ TransferCallbackReturns
  BY <1>1, <1>2, ListenSteps, LoopOpTypes, ConnectedReturnsTypes DEF coreVars, TypeOK
<1>3. ASSUME NEW d \in Device, DeviceStep(d) PROVE UNCHANGED owed
  BY <1>3, DeviceSteps, DeviceOpTypes DEF TypeOK
<1>4. ASSUME NEW t \in Transfer, TransferStep(t) PROVE \A u \in Transfer: owed'[u] >= owed[u]
  <2>1. CASE TransferOp(t)
    <3>1. owed'[t] >= owed[t] /\ \A v \in Transfer \ {t}: owed'[v] = owed[v]
      BY <2>1, TransferOpTypes DEF TypeOK
    <3>. QED
      BY <1>1, <3>1
  <2>2. CASE WildPipeCall(t)
    <3>1. UNCHANGED owed
      BY <2>2 DEF WildPipeCall, WildPipeUse, CallIsLost
    <3>. QED
      BY <1>1, <3>1
  <2>. QED
    BY <1>4, <2>1, <2>2, TransferSteps
<1>5. CASE (\E w \in Token, result \in Result: IOCompletes(w, result)) \/ UNCHANGED vars
  BY <1>1, <1>5 DEF IOCompletes, vars, coreVars
<1>. QED
  BY <1>1, <1>2, <1>3, <1>4, <1>5 DEF Next, StaysLost

(* A submission adds a request and a completion that is owed, a report takes *)
(* one of both away, and a close only takes requests away.                   *)
LEMMA RequestsAreOwedStep ==
    TypeOK /\ OpenHasReference /\ RequestsAreOwed /\ [Next]_vars => RequestsAreOwed'
<1>. SUFFICES ASSUME TypeOK, OpenHasReference, RequestsAreOwed, [Next]_vars, NEW u \in Transfer
              PROVE  Cardinality(RequestsOf(u)') <= owed'[u]
  BY DEF RequestsAreOwed
<1>1. /\ owed[u] \in Nat /\ Cardinality(RequestsOf(u)) \in Nat /\ Cardinality(RequestsOf(u)) <= owed[u]
      /\ IsFiniteSet(RequestsOf(u))
  BY RequestsCount DEF RequestsAreOwed, TypeOK, CoreTypeOK
<1>2. TypeOK'
  BY TypeStep
<1>3. owed'[u] \in Nat /\ Cardinality(RequestsOf(u)') \in Nat
  <2>1. IsFiniteSet(RequestsOf(u)')
    BY CoreAssumption, FS_Subset DEF RequestsOf
  <2>. QED
    BY <1>2, <2>1, FS_CardinalityType DEF TypeOK, CoreTypeOK
<1>4. ASSUME RequestsOf(u)' \subseteq RequestsOf(u), owed'[u] >= owed[u]
      PROVE  Cardinality(RequestsOf(u)') <= owed'[u]
  BY <1>1, <1>3, <1>4, FewerRequests
<1>5. ASSUME NEW w \in Token, iokitProcessEvents(w) PROVE Cardinality(RequestsOf(u)') <= owed'[u]
  <2>1. \A v \in Token: Kept(v)
    <3>1. ~\E t \in Transfer, v \in Token: iokitSubmitTransfer(t, v)
      <4>. SUFFICES ASSUME NEW t \in Transfer, NEW v \in Token, iokitSubmitTransfer(t, v) PROVE FALSE
        OBVIOUS
      <4>1. io[v] = NULL /\ io'[v] # NULL /\ io'[v].result = "pending"
        BY StartedRequest DEF iokitSubmitTransfer, usbusSubmitTransfer
      <4>2. io[w] # NULL /\ \A x \in Token \ {w}: io'[x] = io[x]
        BY <1>5 DEF iokitProcessEvents, Outstanding, TypeOK
      <4>. QED
        BY <4>1, <4>2
    <3>. QED
      BY <3>1, RequestsKept
  <2>2. RequestsOf(u)' \subseteq RequestsOf(u)
    BY <2>1 DEF RequestsOf, Kept
  <2>3. /\ io[w] \in Request /\ io[w].transfer \in Transfer /\ owed[io[w].transfer] > 0
        /\ StatusOf(io[w].result) \in Status /\ Outstanding(w)
    BY <1>5, ReportTypes
  <2>4. /\ owed'[io[w].transfer] = owed[io[w].transfer] - 1
        /\ \A t \in Transfer \ {io[w].transfer}: owed'[t] = owed[t]
    BY <1>5, <2>3, ProcessEventsTypes DEF iokitProcessEvents, TypeOK
  <2>5. CASE u = io[w].transfer
    <3>1. w \in RequestsOf(u) /\ w \notin RequestsOf(u)'
      <4>1. ~Outstanding(w)'
        BY <1>5, <2>3 DEF iokitProcessEvents, Outstanding, TypeOK, Request
      <4>. QED
        BY <2>3, <2>5, <4>1 DEF RequestsOf
    <3>2. Cardinality(RequestsOf(u) \ {w}) = Cardinality(RequestsOf(u)) - 1
      BY <1>1, <3>1, FS_RemoveElement
    <3>3. RequestsOf(u)' \subseteq RequestsOf(u) \ {w} /\ IsFiniteSet(RequestsOf(u) \ {w})
      BY <1>1, <2>2, <3>1, FS_RemoveElement
    <3>4. Cardinality(RequestsOf(u)') <= Cardinality(RequestsOf(u) \ {w})
      BY <3>3, FS_Subset
    <3>. QED
      BY <1>1, <1>3, <2>4, <2>5, <3>2, <3>4
  <2>6. CASE u # io[w].transfer
    BY <1>1, <1>4, <2>2, <2>4, <2>6
  <2>. QED
    BY <2>5, <2>6
<1>6. ASSUME NEW t \in Transfer, NEW w \in Token, iokitSubmitTransfer(t, w), ~\E v \in Token: iokitProcessEvents(v)
      PROVE  Cardinality(RequestsOf(u)') <= owed'[u]
  <2>1. /\ io[w] = NULL /\ io'[w].transfer = t
        /\ \A v \in Token \ {w}: io'[v] = io[v]
    BY <1>6, StartedRequest DEF iokitSubmitTransfer, usbusSubmitTransfer
  <2>2. RequestsOf(u)' \subseteq (IF u = t THEN RequestsOf(u) \cup {w} ELSE RequestsOf(u))
    BY <2>1 DEF RequestsOf, Outstanding
  <2>3. CASE u = t
    <3>1. owed'[u] = owed[u] + 1
      BY <1>6, <2>3 DEF iokitSubmitTransfer, usbusSubmitTransfer, UsbusOK, TypeOK, CoreTypeOK
    <3>2. w \notin RequestsOf(u)
      BY <2>1 DEF RequestsOf, Outstanding
    <3>3. IsFiniteSet(RequestsOf(u) \cup {w}) /\ Cardinality(RequestsOf(u) \cup {w}) = Cardinality(RequestsOf(u)) + 1
      BY <1>1, <3>2, FS_AddElement
    <3>4. Cardinality(RequestsOf(u)') <= Cardinality(RequestsOf(u) \cup {w})
      BY <2>2, <2>3, <3>3, FS_Subset
    <3>. QED
      BY <1>1, <1>3, <3>1, <3>3, <3>4
  <2>4. CASE u # t
    BY <1>4, <1>6, <2>2, <2>4, OwedSteps
  <2>. QED
    BY <2>3, <2>4
<1>7. CASE ~(\E w \in Token: iokitProcessEvents(w)) /\ ~(\E t \in Transfer, w \in Token: iokitSubmitTransfer(t, w))
  <2>1. \A w \in Token: Kept(w)
    BY <1>7, RequestsKept
  <2>2. RequestsOf(u)' \subseteq RequestsOf(u)
    BY <2>1 DEF RequestsOf, Kept
  <2>. QED
    BY <1>4, <1>7, <2>2, OwedSteps
<1>. QED
  BY <1>5, <1>6, <1>7

-----------------------------------------------------------------------------
(* Released transfers.                                                       *)

(* A transfer that is owed a completion keeps its memory and its fields. *)
LEMMA OwedTransfersStay ==
    ASSUME TypeOK, [Next]_vars, NEW u \in Transfer, owed[u] > 0, transfer[u] # NULL
    PROVE  transfer'[u] = transfer[u]
<1>1. CASE ListenStep \/ TransferCallbackReturns
  BY <1>1, ListenSteps, LoopOpTypes, ConnectedReturnsTypes DEF coreVars, TypeOK
<1>2. ASSUME NEW d \in Device, DeviceStep(d) PROVE UNCHANGED transfer
  BY <1>2, DeviceSteps, DeviceOpTypes DEF TypeOK
<1>3. ASSUME NEW t \in Transfer, TransferStep(t) PROVE transfer'[u] = transfer[u]
  <2>1. CASE TransferOp(t)
    BY <2>1, TransferOpTypes DEF TypeOK
  <2>2. CASE WildPipeCall(t)
    BY <2>2 DEF WildPipeCall, WildPipeUse, CallIsLost
  <2>. QED
    BY <1>3, <2>1, <2>2, TransferSteps
<1>4. CASE \/ \E w \in Token, result \in Result: IOCompletes(w, result)
           \/ \E w \in Token: iokitProcessEvents(w)
           \/ UNCHANGED vars
  BY <1>4 DEF IOCompletes, iokitProcessEvents, usbusProcessEvents, vars, coreVars
<1>. QED
  BY <1>1, <1>2, <1>3, <1>4 DEF Next, StaysLost

(* A request keeps its transfer from being released: a transfer is released  *)
(* only when it is owed nothing, and a request is always owed.               *)
LEMMA NoReleasedStep ==
    TypeOK /\ OpenHasReference /\ RequestsAreOwed /\ NoReleasedInFlight /\ [Next]_vars => NoReleasedInFlight'
<1>. SUFFICES ASSUME TypeOK, OpenHasReference, RequestsAreOwed, NoReleasedInFlight, [Next]_vars,
                     NEW w \in Token, Outstanding(w)'
              PROVE  transfer'[io'[w].transfer] # NULL
  BY DEF NoReleasedInFlight
<1>1. ASSUME NEW t \in Transfer, iokitSubmitTransfer(t, w) PROVE transfer'[io'[w].transfer] # NULL
  BY <1>1, StartedRequest DEF iokitSubmitTransfer, usbusSubmitTransfer
<1>2. CASE Kept(w)
  <2>1. Outstanding(w) /\ io'[w].transfer = io[w].transfer
    BY <1>2 DEF Kept
  <2>2. io[w].transfer \in Transfer /\ owed[io[w].transfer] > 0
    BY <2>1, OutstandingIsOwed
  <2>3. transfer[io[w].transfer] # NULL
    BY <2>1 DEF NoReleasedInFlight
  <2>. QED
    BY <2>1, <2>2, <2>3, OwedTransfersStay
<1>. QED
  BY <1>1, <1>2, RequestsKept

-----------------------------------------------------------------------------
(* The port.                                                                 *)

(* usbusListen() has the port that it reads again after its callbacks. *)
ListeningHasPort == portRef \/ NoFrameOf({"listen"})

(* Listening by what it does to the stack: it makes the port before it goes  *)
(* on the stack, and is lost there only without one.                         *)
LEMMA ListenFrames ==
    ASSUME ListenStep \/ TransferCallbackReturns
    PROVE  \/ usbusListen /\ portRef'
           \/ LosesPort /\ Waiting("listen") /\ ~portRef
           \/ QuietListenOp \/ TransferReturns \/ ConnectedReturns
           \/ UNCHANGED frames
<1>1. CASE ListenFails \/ iokitListen \/ iokitStopListen
  BY <1>1 DEF ListenFails, iokitListen, iokitStopListen, coreVars
<1>2. CASE ListenStopsEarly \/ ListenGoesOn \/ ListenIsLost
  BY <1>2 DEF ListenStopsEarly, ListenGoesOn, ListenIsLost, LosesPort, QuietListenOp
<1>3. CASE NotifyDiscovered \/ NotifyTerminated \/ DiscoveryEnds \/ TerminationEnds
  BY <1>3 DEF NotifyDiscovered, NotifyTerminated, DiscoveryEnds, TerminationEnds, QuietListenOp
<1>4. CASE \/ \E r \in DevRef: DiscoverHub(r) \/ TerminateDevice(r)
           \/ DisconnectedCallbackReturns \/ AppKeepsDevice \/ ConnectedCallbackReturns
           \/ TransferCallbackReturns
  BY <1>4 DEF DiscoverHub, TerminateDevice, DisconnectedCallbackReturns, AppKeepsDevice, ConnectedCallbackReturns,
              TransferCallbackReturns, QuietListenOp, coreVars
<1>. QED
  BY <1>1, <1>2, <1>3, <1>4 DEF ListenStep

(* Unless it is taken away in one of its callbacks, it keeps the port. *)
LEMMA ListeningStep ==
    ASSUME TypeOK, RequestsAreOwed, ListeningHasPort, [Next]_vars,
           portRef /\ ~portRef' => NoFrameOf({"listen"})
    PROVE  ListeningHasPort'
<1>. SUFFICES ASSUME ~portRef' PROVE NoFrameOf({"listen"})'
  BY DEF ListeningHasPort
<1>0. CoreTypeOK /\ NoFrameOf({"listen"}) /\ {"listen"} \in SUBSET ({"listen"} \cup Lost)
  BY DEF TypeOK, ListeningHasPort
<1>1. CASE ListenStep \/ TransferCallbackReturns
  <2>1. CASE LosesPort
    BY <1>0, <2>1, AnnouncedKeepsOut DEF LosesPort, Lost
  <2>2. CASE QuietListenOp \/ TransferReturns \/ ConnectedReturns
    BY <1>0, <2>2, QuietKeepsOut
  <2>3. CASE UNCHANGED frames
    BY <1>0, <2>3, AnnouncedKeepsOut
  <2>. QED
    BY <1>1, <2>1, <2>2, <2>3, ListenFrames
<1>2. ASSUME NEW d \in Device, DeviceOp(d) PROVE NoFrameOf({"listen"})'
  <2>1. CASE \E kind \in Lost: CallIsLost(d, kind)
    BY <1>0, <2>1, AnnouncedKeepsOut DEF CallIsLost
  <2>2. CASE UNCHANGED frames \/ dispatchConnectedDevice(d)
    BY <1>0, <2>2, AnnouncedKeepsOut
  <2>. QED
    BY <1>2, <2>1, <2>2 DEF DeviceOp, usbusDispose, usbusOpen, usbusClose, InterfaceCall, coreVars
<1>3. ASSUME NEW d \in Device, DeviceStep(d) PROVE NoFrameOf({"listen"})'
  BY <1>2, <1>3, DeviceSteps
<1>4. ASSUME NEW t \in Transfer, TransferStep(t) PROVE NoFrameOf({"listen"})'
  <2>1. CASE TransferOp(t)
    BY <1>0, <2>1, TransferOpTypes, AnnouncedKeepsOut
  <2>. QED
    BY <1>2, <1>4, <2>1, TransferSteps
<1>5. ASSUME NEW w \in Token, iokitProcessEvents(w) PROVE NoFrameOf({"listen"})'
  BY <1>0, <1>5, ReportTypes, ProcessEventsKeepsOut DEF iokitProcessEvents
<1>6. CASE (\E w \in Token, result \in Result: IOCompletes(w, result)) \/ UNCHANGED vars
  BY <1>0, <1>6, AnnouncedKeepsOut DEF IOCompletes, vars, coreVars
<1>. QED
  BY <1>1, <1>3, <1>4, <1>5, <1>6 DEF Next, StaysLost

(* Only usbusStopListen() takes the port away. *)
LEMMA OnlyStopTakesPort ==
    ASSUME [Next]_vars, portRef, ~portRef'
    PROVE  iokitStopListen
<1>1. CASE ListenStep
  BY <1>1 DEF ListenStep, ListenFails, iokitListen, ListenStopsEarly, ListenGoesOn, ListenIsLost,
     NotifyDiscovered, NotifyTerminated, DiscoveryEnds, TerminationEnds, DiscoverHub, TerminateDevice,
     DisconnectedCallbackReturns, AppKeepsDevice, ConnectedCallbackReturns, iokitVars, listenVars
<1>2. ASSUME NEW d \in Device, DeviceStep(d) PROVE UNCHANGED portRef
  BY <1>2 DEF DeviceStep, DiscoverDevice, Dispose, iokitOpen, DescriptorFails, SeizeFails, Seized, OpenCall,
     iokitClose, iokitOpenInterface, InterfaceRefused, InterfaceHalfOpen, InterfaceReady, InterfaceOpened,
     iokitCloseInterface, WildDeviceCall, WildSourceCall, WildSyncCall, WildPipeUse, iokitVars, listenVars
<1>3. ASSUME NEW t \in Transfer, TransferStep(t) PROVE UNCHANGED portRef
  BY <1>3 DEF TransferStep, AllocateTransfer, ReleaseTransfer, SetTransferInfo, iokitSubmitTransfer,
     iokitCancelTransfer, WildPipeCall, WildPipeUse, iokitVars, listenVars
<1>4. CASE \/ \E w \in Token, result \in Result: IOCompletes(w, result)
           \/ \E w \in Token: iokitProcessEvents(w)
           \/ TransferCallbackReturns \/ UNCHANGED vars
  BY <1>4 DEF IOCompletes, iokitProcessEvents, TransferCallbackReturns, vars, iokitVars, listenVars
<1>. QED
  BY <1>1, <1>2, <1>3, <1>4 DEF Next, StaysLost

-----------------------------------------------------------------------------
(* What holds for any application.                                           *)

(* The inductive invariant of the requests. *)
RequestInv == TypeOK /\ OpenHasReference /\ RequestsAreOwed /\ NoReleasedInFlight

(* It holds initially. *)
LEMMA RequestInvInit == Init => RequestInv
<1>. SUFFICES ASSUME Init PROVE RequestInv
  OBVIOUS
<1>0. frames \in Seq(Frame)
  BY EmptySeq DEF Init, CoreInit
<1>1. TypeOK /\ OpenHasReference
  <2>1. CoreTypeOK
    BY <1>0 DEF Init, CoreInit, CoreTypeOK
  <2>2. TypeOK
    BY <2>1 DEF Init, AllInterfaces, TypeOK
  <2>. QED
    BY <2>2 DEF Init, CoreInit, OpenHasReference, IsOpenDevice
<1>2. \A w \in Token: ~Outstanding(w)
  BY DEF Init, Outstanding
<1>3. \A t \in Transfer: RequestsOf(t) = {} /\ owed[t] = 0
  BY <1>2 DEF RequestsOf, Init, CoreInit
<1>4. RequestsAreOwed
  BY <1>3, FS_EmptySet DEF RequestsAreOwed
<1>. QED
  BY <1>1, <1>2, <1>4 DEF RequestInv, NoReleasedInFlight

(* Whatever the application does, wherever interfaces fail, every request    *)
(* that the kernel may still report is owed to a transfer that is allocated. *)
THEOREM RequestsInvariant == Spec => []RequestInv
<1>1. RequestInv /\ [Next]_vars => RequestInv'
  BY TypeStep, OpenHasReferenceStep, RequestsAreOwedStep, NoReleasedStep DEF RequestInv
<1>. QED
  BY <1>1, RequestInvInit, PTL DEF Spec

(* The variables keep their types; in particular no completion is reported   *)
(* that was not owed, and requests run on references.                        *)
THEOREM TypeCorrect == Spec => []TypeOK
<1>1. RequestInv => TypeOK
  BY DEF RequestInv
<1>. QED
  BY <1>1, RequestsInvariant, PTL

(* iokitAsyncIOCallback() never gets a transfer that was released. *)
THEOREM NoUseAfterRelease == Spec => []NoReleasedInFlight
<1>1. RequestInv => NoReleasedInFlight
  BY DEF RequestInv
<1>. QED
  BY <1>1, RequestsInvariant, PTL

=============================================================================
