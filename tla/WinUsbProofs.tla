----------------------------- MODULE WinUsbProofs -----------------------------
(* Theorems about WinUsb, for every number of devices, handles, transfers    *)
(* and requests.                                                             *)
EXTENDS WinUsb, CoreProofs

-----------------------------------------------------------------------------
(* Type correctness.                                                         *)

(* What the library pushes on the call stack are frames. *)
LEMMA FrameTypes ==
    /\ ListenFrame \in Frame
    /\ \A d \in Device: ConnectedFrame(d) \in Frame
    /\ \A w \in Wot, s \in Status: TransferFrame(w, s) \in Frame
BY DEF Frame, Loop, Lost, NewFrame, ListenFrame, ConnectedFrame, TransferFrame, Status, UsbusComplete, Wot

(* A function that waits for a callback is on the top of the stack. *)
LEMMA WaitingTop ==
    ASSUME TypeOK, NEW kind, Waiting(kind)
    PROVE  /\ Len(frames) \in Nat /\ Len(frames) > 0
           /\ Last(frames) \in Frame
           /\ Last(frames) = frames[Len(frames)]
           /\ Last(frames).kind = kind
           /\ Front(frames) \in Seq(Frame)
BY LastOfSeq, FrontOfSeq, LenProperties DEF TypeOK, CoreTypeOK, Waiting

(* The same for the first packet in the completion port. *)
LEMMA HeadPacket ==
    ASSUME TypeOK, iocp # <<>>
    PROVE  /\ Head(iocp) \in Packet
           /\ Head(iocp).ov \in Wot
           /\ Tail(iocp) \in Seq(Packet)
           /\ StatusOf(Head(iocp).result) \in Status
<1>1. Head(iocp) \in Packet /\ Tail(iocp) \in Seq(Packet)
  BY HeadTailProperties DEF TypeOK
<1>. QED
  BY <1>1 DEF Packet, StatusOf, Status, UsbusOK, UsbusIoErr

(* A packet that winusbProcessEvents() may take is for a transfer that is    *)
(* still owed a completion.                                                  *)
HeadOwed == iocp # <<>> => wot[Head(iocp).ov] \in Transfer /\ owed[wot[Head(iocp).ov]] > 0

(* Every step keeps the variables typed: one step per action.  Types alone   *)
(* are not inductive: owed must stay a natural number when a completion is   *)
(* reported, and an open device's deviceHandle must be a handle.             *)
LEMMA TypeStep == TypeOK /\ OpenDevicesOwnHandles /\ HeadOwed /\ [Next]_vars => TypeOK'
<1>. SUFFICES ASSUME TypeOK, OpenDevicesOwnHandles, HeadOwed, [Next]_vars PROVE TypeOK'
  OBVIOUS
<1>. USE CoreAssumption, WinUsbAssumption
<1>1. CASE winusbListen
  BY <1>1, FrameTypes, AppendProperties DEF winusbListen, usbusListen, TypeOK, CoreTypeOK, winVars
<1>2. CASE EnumerationEnds
  BY <1>2, WaitingTop DEF EnumerationEnds, ListenReturns, TypeOK, CoreTypeOK, winVars
<1>3. CASE AppKeepsDevice
  <2>1. Len(frames) \in 1..Len(frames) /\ Last(frames) \in Frame /\ Last(frames) = frames[Len(frames)]
    BY <1>3, WaitingTop DEF AppKeepsDevice, KeepDevice
  <2>2. [Last(frames) EXCEPT !.keep = TRUE] \in Frame
    BY <2>1 DEF Frame
  <2>3. frames' \in Seq(Frame)
    BY <1>3, <2>1, <2>2, ExceptSeq DEF AppKeepsDevice, KeepDevice, TypeOK, CoreTypeOK
  <2>. QED
    BY <1>3, <2>3 DEF AppKeepsDevice, KeepDevice, TypeOK, CoreTypeOK, winVars
<1>4. CASE ConnectedCallbackReturns
  BY <1>4, WaitingTop DEF ConnectedCallbackReturns, ConnectedReturns, TypeOK, CoreTypeOK, winVars, Frame
<1>5. CASE winusbProcessEvents
  <2>. DEFINE w == Head(iocp).ov
              st == StatusOf(Head(iocp).result)
  <2>1. w \in Wot /\ st \in Status /\ Tail(iocp) \in Seq(Packet)
    BY <1>5, HeadPacket DEF winusbProcessEvents
  <2>2. wot[w] \in Transfer /\ owed[wot[w]] \in Nat /\ owed[wot[w]] > 0
    BY <1>5 DEF winusbProcessEvents, HeadOwed, TypeOK, CoreTypeOK
  <2>3. /\ usbusProcessEvents(wot[w], w, st)
        /\ wot' = IF Info(wot[w]).callback THEN wot ELSE [wot EXCEPT ![w] = NULL]
        /\ iocp' = Tail(iocp)
        /\ UNCHANGED <<deviceHandle, winusbHandles, completionPort, file, intf, io>>
    BY <1>5 DEF winusbProcessEvents
  <2>. HIDE DEF w, st
  <2>4. frames' \in Seq(Frame)
    BY <2>1, <2>3, FrameTypes, AppendProperties DEF usbusProcessEvents, TypeOK, CoreTypeOK
  <2>5. owed' \in [Transfer -> Nat]
    BY <2>2, <2>3 DEF usbusProcessEvents, TypeOK, CoreTypeOK
  <2>. QED
    BY <2>1, <2>3, <2>4, <2>5 DEF usbusProcessEvents, TypeOK, CoreTypeOK
<1>6. CASE TransferCallbackReturns
  <2>1. /\ frames' = Front(frames) /\ Front(frames) \in Seq(Frame)
        /\ wot' = [wot EXCEPT ![Last(frames).token] = NULL]
    BY <1>6, WaitingTop DEF TransferCallbackReturns, TransferReturns
  <2>. QED
    BY <1>6, <2>1 DEF TransferCallbackReturns, TransferReturns, TypeOK, CoreTypeOK
<1>7. ASSUME NEW w \in Wot, NEW result \in Result, IOCompletes(w, result)
      PROVE  TypeOK'
  <2>1. [ov |-> w, result |-> result] \in Packet
    BY <1>7 DEF Packet
  <2>2. iocp' \in Seq(Packet)
    BY <1>7, <2>1, AppendProperties DEF IOCompletes, TypeOK
  <2>. QED
    BY <1>7, <2>2 DEF IOCompletes, TypeOK, CoreTypeOK, coreVars
<1>8. ASSUME NEW d \in Device, DeviceStep(d)
      PROVE  TypeOK'
  <2>1. CASE EnumerateDevice(d)
    BY <1>8, <2>1, FrameTypes, AppendProperties
       DEF EnumerateDevice, dispatchConnectedDevice, ClearDevice, TypeOK, CoreTypeOK
  <2>2. CASE SkipDevice(d)
    BY <1>8, <2>2 DEF SkipDevice, AllocateAndLose, ClearDevice, TypeOK, CoreTypeOK
  <2>3. CASE Dispose(d)
    BY <1>8, <2>3 DEF Dispose, usbusDispose, winVars, TypeOK, CoreTypeOK
  <2>4. CASE CreateFileFails(d)
    BY <1>8, <2>4 DEF CreateFileFails, usbusOpen, TypeOK, CoreTypeOK
  <2>5. ASSUME NEW h \in Handle, InitializeFails(d, h) PROVE TypeOK'
    BY <1>8, <2>5 DEF InitializeFails, usbusOpen, TypeOK, CoreTypeOK
  <2>6. ASSUME NEW h \in Handle, PortFails(d, h) PROVE TypeOK'
    <3>1. /\ completionPort' \in BOOLEAN
          /\ UNCHANGED <<mem, transfer, owed, frames, wot, io, iocp>>
          /\ isOpen' \in [Device -> BOOLEAN]
      BY <1>8, <2>6 DEF PortFails, OpenedFile, usbusOpen, TypeOK, CoreTypeOK
    <3>2. OpenedFile(d, h, "open")
      BY <2>6 DEF PortFails
    <3>. QED
      BY <1>8, <2>6, <3>1, <3>2 DEF OpenedFile, TypeOK, CoreTypeOK
  <2>7. ASSUME NEW h \in Handle, OpenSucceeds(d, h) PROVE TypeOK'
    BY <1>8, <2>7 DEF OpenSucceeds, OpenedFile, usbusOpen, TypeOK, CoreTypeOK
  <2>8. CASE winusbClose(d)
    <3>1. io' \in [Wot -> {NULL} \cup Pending] /\ file' \in [Handle -> {"closed", "open", "bound"}]
      <4>1. CASE CloseHandle(deviceHandle[d])
        BY <4>1 DEF CloseHandle, TypeOK, Pending
      <4>2. CASE UNCHANGED <<file, io>>
        BY <4>2 DEF TypeOK
      <4>. QED
        BY <2>8, <4>1, <4>2 DEF winusbClose
    <3>2. intf' \subseteq Handle \X Interface
      BY <2>8 DEF winusbClose, TypeOK
    <3>. QED
      BY <1>8, <2>8, <3>1, <3>2 DEF winusbClose, usbusClose, TypeOK, CoreTypeOK
  <2>9. ASSUME NEW i \in Interface, winusbOpenInterface(d, i) PROVE TypeOK'
    <3>1. deviceHandle[d] \in Handle
      BY <1>8, <2>9 DEF winusbOpenInterface, InterfaceCall, OpenDevicesOwnHandles, IsOpenDevice
    <3>. QED
      BY <1>8, <2>9, <3>1 DEF winusbOpenInterface, InterfaceCall, coreVars, TypeOK, CoreTypeOK
  <2>10. ASSUME NEW i \in Interface, winusbCloseInterface(d, i) PROVE TypeOK'
    BY <1>8, <2>10 DEF winusbCloseInterface, InterfaceCall, coreVars, TypeOK, CoreTypeOK
  <2>. QED
    BY <1>8, <2>1, <2>2, <2>3, <2>4, <2>5, <2>6, <2>7, <2>8, <2>9, <2>10 DEF DeviceStep, winusbOpen
<1>9. ASSUME NEW t \in Transfer, TransferStep(t)
      PROVE  TypeOK'
  <2>1. CASE AllocateTransfer(t)
    BY <1>9, <2>1 DEF AllocateTransfer, usbusAllocateTransfer, winVars, TypeOK, CoreTypeOK, TransferInfo, ClearedInfo
  <2>2. CASE ReleaseTransfer(t)
    BY <1>9, <2>2 DEF ReleaseTransfer, usbusReleaseTransfer, winVars, TypeOK, CoreTypeOK
  <2>3. CASE SetTransferInfo(t)
    BY <1>9, <2>3 DEF SetTransferInfo, usbusSetBulkTransferInfo, winVars, TypeOK, CoreTypeOK, TransferInfo, ClearedInfo
  <2>4. ASSUME NEW w \in Wot, SubmitAccepted(t, w) PROVE TypeOK'
    <3>. DEFINE d == Info(t).device
    <3>1. /\ transfer[t] \in TransferInfo /\ d # NULL
          /\ IsOpenDevice(d)
      BY <1>9, <2>4 DEF SubmitAccepted, usbusSubmitTransfer, TransferCall, Info, IsOpenDevice, TypeOK, CoreTypeOK
    <3>2. d \in Device /\ Info(t).endpoint \in Endpoint
      BY <3>1 DEF TransferInfo, ClearedInfo, Info
    <3>3. deviceHandle[d] \in Handle
      BY <3>1, <3>2 DEF OpenDevicesOwnHandles
    <3>4. io' \in [Wot -> {NULL} \cup Pending]
      BY <2>4, <3>2, <3>3 DEF SubmitAccepted, StartIO, TypeOK, Pending
    <3>5. owed' \in [Transfer -> Nat] /\ wot' \in [Wot -> Transfer \cup {NULL}]
      BY <1>9, <2>4 DEF SubmitAccepted, usbusSubmitTransfer, UsbusOK, TypeOK, CoreTypeOK
    <3>. QED
      BY <2>4, <3>4, <3>5 DEF SubmitAccepted, usbusSubmitTransfer, TypeOK, CoreTypeOK
  <2>5. ASSUME NEW w \in Wot, SubmitRefused(t, w) PROVE TypeOK'
    BY <1>9, <2>5 DEF SubmitRefused, usbusSubmitTransfer, UsbusOK, Failed, TypeOK, CoreTypeOK
  <2>6. CASE winusbCancelTransfer(t)
    BY <1>9, <2>6 DEF winusbCancelTransfer, usbusCancelTransfer, coreVars, TypeOK, CoreTypeOK, Pending
  <2>. QED
    BY <1>9, <2>1, <2>2, <2>3, <2>4, <2>5, <2>6 DEF TransferStep, winusbSubmitTransfer
<1>10. CASE UNCHANGED vars
  BY <1>10 DEF vars, coreVars, winVars, TypeOK, CoreTypeOK
<1>. QED
  BY <1>1, <1>2, <1>3, <1>4, <1>5, <1>6, <1>7, <1>8, <1>9, <1>10 DEF Next

-----------------------------------------------------------------------------
(* Open devices own their files.                                             *)

(* Steps that touch no file, no interface and no device's handles, and open  *)
(* no device.                                                                *)
LEMMA HandlesUntouched ==
    ASSUME OpenDevicesOwnHandles,
           UNCHANGED <<deviceHandle, winusbHandles, file, intf>>,
           \A d \in Device: IsOpenDevice(d)' => IsOpenDevice(d)
    PROVE  OpenDevicesOwnHandles'
BY DEF OpenDevicesOwnHandles, IsOpenDevice

(* A step of the device itself: only d's handles change, and d is not open   *)
(* afterwards; what happens to files and interfaces leaves those of the      *)
(* other open devices alone.                                                 *)
LEMMA OnlyClosedDeviceChanges ==
    ASSUME OpenDevicesOwnHandles, NEW d \in Device,
           ~IsOpenDevice(d)',
           \A e \in Device \ {d}:
               /\ IsOpenDevice(e)' => IsOpenDevice(e)
               /\ deviceHandle'[e] = deviceHandle[e] /\ winusbHandles'[e] = winusbHandles[e]
               /\ IsOpenDevice(e) =>
                    /\ file'[deviceHandle[e]] = file[deviceHandle[e]]
                    /\ \A i \in winusbHandles[e]: <<deviceHandle[e], i>> \in intf'
    PROVE  OpenDevicesOwnHandles'
BY DEF OpenDevicesOwnHandles, IsOpenDevice

(* Every step leaves each open device its own bound file and live handles:   *)
(* opening takes a value no open file has, closing takes only the closed     *)
(* device's own away (winusbOpen(), winusbClose()).                          *)
LEMMA OpenDevicesOwnHandlesStep ==
    TypeOK /\ OpenDevicesOwnHandles /\ [Next]_vars => OpenDevicesOwnHandles'
<1>. SUFFICES ASSUME TypeOK, OpenDevicesOwnHandles, [Next]_vars PROVE OpenDevicesOwnHandles'
  OBVIOUS
<1>1. CASE winusbListen \/ EnumerationEnds \/ AppKeepsDevice \/ winusbProcessEvents \/ TransferCallbackReturns
  BY <1>1, HandlesUntouched
     DEF winusbListen, usbusListen, EnumerationEnds, ListenReturns, AppKeepsDevice, KeepDevice,
         winusbProcessEvents, usbusProcessEvents, TransferCallbackReturns, TransferReturns, winVars, IsOpenDevice
<1>2. CASE ConnectedCallbackReturns
  <2>1. Last(frames).device \in Device \cup {NULL}
    BY <1>2, WaitingTop DEF ConnectedCallbackReturns, ConnectedReturns, Frame
  <2>2. \A d \in Device: IsOpenDevice(d)' => IsOpenDevice(d)
    BY <1>2, <2>1 DEF ConnectedCallbackReturns, ConnectedReturns, IsOpenDevice, TypeOK, CoreTypeOK
  <2>. QED
    BY <1>2, <2>2, HandlesUntouched DEF ConnectedCallbackReturns, winVars
<1>3. ASSUME NEW w \in Wot, NEW result \in Result, IOCompletes(w, result)
      PROVE  OpenDevicesOwnHandles'
  BY <1>3, HandlesUntouched DEF IOCompletes, coreVars, IsOpenDevice
<1>4. ASSUME NEW d \in Device, DeviceStep(d)
      PROVE  OpenDevicesOwnHandles'
  <2>1. CASE EnumerateDevice(d) \/ SkipDevice(d)
    <3>1. ~IsOpenDevice(d)'
      BY <1>4, <2>1 DEF EnumerateDevice, dispatchConnectedDevice, SkipDevice, AllocateAndLose,
                        IsOpenDevice, TypeOK, CoreTypeOK
    <3>2. \A e \in Device \ {d}:
             /\ IsOpenDevice(e)' => IsOpenDevice(e)
             /\ deviceHandle'[e] = deviceHandle[e] /\ winusbHandles'[e] = winusbHandles[e]
      BY <1>4, <2>1 DEF EnumerateDevice, dispatchConnectedDevice, SkipDevice, AllocateAndLose,
                        ClearDevice, IsOpenDevice, TypeOK, CoreTypeOK
    <3>3. UNCHANGED <<file, intf>>
      BY <2>1 DEF EnumerateDevice, SkipDevice, ClearDevice
    <3>. QED
      BY <1>4, <3>1, <3>2, <3>3, OnlyClosedDeviceChanges DEF OpenDevicesOwnHandles
  <2>2. CASE Dispose(d)
    BY <1>4, <2>2, HandlesUntouched DEF Dispose, usbusDispose, winVars, IsOpenDevice, TypeOK, CoreTypeOK
  <2>3. ASSUME usbusOpen(d, Failed)
        PROVE  ~IsOpenDevice(d)' /\ \A e \in Device \ {d}: IsOpenDevice(e)' <=> IsOpenDevice(e)
    BY <1>4, <2>3 DEF usbusOpen, Failed, UsbusOK, IsOpenDevice, TypeOK, CoreTypeOK
  <2>4. CASE CreateFileFails(d)
    BY <1>4, <2>3, <2>4, OnlyClosedDeviceChanges DEF CreateFileFails, OpenDevicesOwnHandles, TypeOK
  <2>5. ASSUME NEW h \in Handle, InitializeFails(d, h)
        PROVE  OpenDevicesOwnHandles'
    BY <1>4, <2>3, <2>5, OnlyClosedDeviceChanges DEF InitializeFails, OpenDevicesOwnHandles, TypeOK
  <2>6. ASSUME NEW h \in Handle, OpenedFile(d, h, "open") \/ OpenedFile(d, h, "bound")
        PROVE  \A e \in Device \ {d}:
                  /\ deviceHandle'[e] = deviceHandle[e] /\ winusbHandles'[e] = winusbHandles[e]
                  /\ IsOpenDevice(e) =>
                       /\ deviceHandle[e] # h
                       /\ file'[deviceHandle[e]] = file[deviceHandle[e]]
                       /\ \A i \in winusbHandles[e]: <<deviceHandle[e], i>> \in intf'
    BY <1>4, <2>6 DEF OpenedFile, OpenDevicesOwnHandles, TypeOK
  <2>7. ASSUME NEW h \in Handle, PortFails(d, h)
        PROVE  OpenDevicesOwnHandles'
    BY <1>4, <2>3, <2>6, <2>7, OnlyClosedDeviceChanges DEF PortFails
  <2>8. ASSUME NEW h \in Handle, OpenSucceeds(d, h)
        PROVE  OpenDevicesOwnHandles'
    <3>1. /\ deviceHandle'[d] = h /\ file'[h] = "bound" /\ winusbHandles'[d] = {0}
          /\ <<h, 0>> \in intf'
      BY <1>4, <2>8 DEF OpenSucceeds, OpenedFile, TypeOK
    <3>2. \A e \in Device \ {d}: IsOpenDevice(e)' <=> IsOpenDevice(e)
      BY <1>4, <2>8 DEF OpenSucceeds, usbusOpen, IsOpenDevice, TypeOK, CoreTypeOK
    <3>. QED
      BY <1>4, <2>6, <2>8, <3>1, <3>2 DEF OpenSucceeds, OpenDevicesOwnHandles
  <2>9. CASE winusbClose(d)
    <3>. DEFINE h == deviceHandle[d]
    <3>1. /\ IsOpenDevice(d) /\ ~IsOpenDevice(d)'
          /\ \A e \in Device \ {d}: IsOpenDevice(e)' <=> IsOpenDevice(e)
      BY <1>4, <2>9 DEF winusbClose, usbusClose, IsOpenDevice, TypeOK, CoreTypeOK
    <3>2. \A e \in Device \ {d}: IsOpenDevice(e) => deviceHandle[e] # h
      BY <1>4, <3>1 DEF OpenDevicesOwnHandles
    <3>3. \A e \in Device \ {d}: IsOpenDevice(e) => file'[deviceHandle[e]] = file[deviceHandle[e]]
      BY <2>9, <3>2 DEF winusbClose, CloseHandle, OpenDevicesOwnHandles, TypeOK
    <3>4. \A e \in Device \ {d}: IsOpenDevice(e) =>
             \A i \in winusbHandles[e]: <<deviceHandle[e], i>> \in intf'
      BY <2>9, <3>2 DEF winusbClose, OpenDevicesOwnHandles
    <3>5. \A e \in Device \ {d}: deviceHandle'[e] = deviceHandle[e] /\ winusbHandles'[e] = winusbHandles[e]
      BY <2>9 DEF winusbClose, TypeOK
    <3>. QED
      BY <1>4, <3>1, <3>3, <3>4, <3>5, OnlyClosedDeviceChanges
  <2>10. ASSUME NEW i \in Interface, winusbOpenInterface(d, i)
         PROVE  OpenDevicesOwnHandles'
    BY <1>4, <2>10 DEF winusbOpenInterface, InterfaceCall, coreVars, OpenDevicesOwnHandles, IsOpenDevice, TypeOK
  <2>11. ASSUME NEW i \in Interface, winusbCloseInterface(d, i)
         PROVE  OpenDevicesOwnHandles'
    BY <1>4, <2>11 DEF winusbCloseInterface, InterfaceCall, coreVars, OpenDevicesOwnHandles, IsOpenDevice, TypeOK
  <2>. QED
    BY <1>4, <2>1, <2>2, <2>4, <2>5, <2>7, <2>8, <2>9, <2>10, <2>11 DEF DeviceStep, winusbOpen
<1>5. ASSUME NEW t \in Transfer, TransferStep(t)
      PROVE  OpenDevicesOwnHandles'
  <2>1. UNCHANGED <<mem, isOpen, deviceHandle, winusbHandles, file, intf>>
    BY <1>5 DEF TransferStep, AllocateTransfer, ReleaseTransfer, SetTransferInfo, usbusAllocateTransfer,
                usbusReleaseTransfer, usbusSetBulkTransferInfo, winusbSubmitTransfer, SubmitAccepted,
                SubmitRefused, usbusSubmitTransfer, winusbCancelTransfer, usbusCancelTransfer, coreVars, winVars
  <2>. QED
    BY <2>1, HandlesUntouched DEF IsOpenDevice
<1>6. CASE UNCHANGED vars
  BY <1>6, HandlesUntouched DEF vars, coreVars, winVars, IsOpenDevice
<1>. QED
  BY <1>1, <1>2, <1>3, <1>4, <1>5, <1>6 DEF Next

-----------------------------------------------------------------------------
(* Requests.  First what a step that pushes or pops a frame, or queues or    *)
(* takes a packet, does to the owners of the cells.                          *)

(* Every frame of a transfer was there before, at the same depth. *)
NoNewTransferFrame ==
    \A i \in DOMAIN frames':
        frames'[i].kind = "transfer" =>
            /\ i \in DOMAIN frames
            /\ frames[i].kind = "transfer"
            /\ frames'[i].token = frames[i].token

(* Pushing a frame that is no transfer's makes no request reported. *)
LEMMA PushOther ==
    ASSUME TypeOK, NEW f \in Frame, f.kind # "transfer", frames' = Append(frames, f)
    PROVE  NoNewTransferFrame /\ \A w \in Wot: Reporting(w)' <=> Reporting(w)
<1>1. frames \in Seq(Frame) /\ frames' \in Seq(Frame)
  BY AppendProperties DEF TypeOK, CoreTypeOK
<1>2. /\ Len(frames') = Len(frames) + 1
      /\ \A i \in 1..Len(frames): frames'[i] = frames[i]
      /\ frames'[Len(frames) + 1] = f
  BY <1>1, AppendProperties
<1>3. DOMAIN frames = 1..Len(frames) /\ DOMAIN frames' = 1..Len(frames') /\ Len(frames) \in Nat
  BY <1>1, LenProperties
<1>. QED
  BY <1>2, <1>3 DEF NoNewTransferFrame, Reporting

(* Popping a frame leaves the frames below it as they were. *)
LEMMA PopFrame ==
    ASSUME TypeOK, Len(frames) > 0, frames' = Front(frames)
    PROVE  /\ NoNewTransferFrame
           /\ DOMAIN frames = 1..Len(frames) /\ DOMAIN frames' = 1..Len(frames) - 1
           /\ \A i \in DOMAIN frames': frames'[i] = frames[i]
           /\ Last(frames).kind # "transfer" => \A w \in Wot: Reporting(w)' <=> Reporting(w)
<1>1. frames \in Seq(Frame) /\ frames' \in Seq(Frame) /\ Len(frames') = Len(frames) - 1
  BY FrontOfSeq DEF TypeOK, CoreTypeOK
<1>2. DOMAIN frames = 1..Len(frames) /\ DOMAIN frames' = 1..Len(frames') /\ Len(frames) \in Nat
  BY <1>1, LenProperties
<1>3. \A i \in 1..Len(frames) - 1: frames'[i] = frames[i]
  BY FrontOfSeq DEF TypeOK, CoreTypeOK
<1>4. Last(frames).kind # "transfer" => \A w \in Wot: Reporting(w)' <=> Reporting(w)
  <2>. SUFFICES ASSUME Last(frames).kind # "transfer", NEW w \in Wot
                PROVE  Reporting(w)' <=> Reporting(w)
    OBVIOUS
  <2>1. Last(frames) = frames[Len(frames)]
    BY LastOfSeq DEF TypeOK, CoreTypeOK
  <2>2. DOMAIN frames' = 1..Len(frames) - 1 /\ DOMAIN frames = 1..Len(frames)
    BY <1>1, <1>2
  <2>3. DOMAIN frames' \subseteq DOMAIN frames /\ \A i \in DOMAIN frames': frames'[i] = frames[i]
    BY <1>2, <1>3, <2>2
  <2>4. \A i \in DOMAIN frames: i # Len(frames) => i \in DOMAIN frames'
    BY <1>2, <2>2
  <2>5. \A i \in DOMAIN frames: frames[i].kind = "transfer" => i \in DOMAIN frames'
    BY <2>1, <2>4
  <2>. QED
    BY <2>3, <2>5 DEF Reporting
<1>. QED
  BY <1>1, <1>2, <1>3, <1>4 DEF NoNewTransferFrame

(* Listening and its callbacks come and go without touching the frames of    *)
(* transfers.                                                                *)
LEMMA ListeningFrames ==
    ASSUME TypeOK,
           \/ winusbListen \/ EnumerationEnds \/ AppKeepsDevice \/ ConnectedCallbackReturns
           \/ \E d \in Device: EnumerateDevice(d)
    PROVE  NoNewTransferFrame /\ \A w \in Wot: Reporting(w)' <=> Reporting(w)
<1>1. CASE winusbListen
  <2>1. ListenFrame \in Frame /\ ListenFrame.kind # "transfer"
    BY FrameTypes DEF ListenFrame, NewFrame
  <2>. QED
    BY <1>1, <2>1, PushOther DEF winusbListen, usbusListen
<1>2. CASE EnumerationEnds \/ ConnectedCallbackReturns
  BY <1>2, PopFrame
     DEF EnumerationEnds, ListenReturns, ConnectedCallbackReturns, ConnectedReturns, Waiting
<1>3. CASE AppKeepsDevice
  <2>1. /\ Len(frames) > 0 /\ Last(frames) = frames[Len(frames)] /\ Last(frames).kind = "connected"
        /\ Len(frames) \in 1..Len(frames) /\ DOMAIN frames = 1..Len(frames)
    BY <1>3, WaitingTop, LenProperties DEF AppKeepsDevice, KeepDevice, TypeOK, CoreTypeOK
  <2>2. frames' = [frames EXCEPT ![Len(frames)].keep = TRUE]
    BY <1>3 DEF AppKeepsDevice, KeepDevice
  <2>3. frames[Len(frames)] \in Frame
    BY <2>1, ElementOfSeq DEF TypeOK, CoreTypeOK
  <2>4. DOMAIN frames' = DOMAIN frames
    BY <2>2
  <2>5. frames'[Len(frames)] = [frames[Len(frames)] EXCEPT !.keep = TRUE]
    BY <2>1, <2>2
  <2>6. frames'[Len(frames)].kind = "connected"
    BY <2>1, <2>3, <2>5 DEF Frame
  <2>7. \A i \in DOMAIN frames: i # Len(frames) => frames'[i] = frames[i]
    BY <2>2
  <2>8. \A i \in DOMAIN frames: /\ frames'[i].kind = frames[i].kind
                                /\ frames[i].kind = "transfer" => frames'[i] = frames[i]
    BY <2>1, <2>6, <2>7
  <2>. QED
    BY <2>4, <2>8 DEF NoNewTransferFrame, Reporting
<1>4. ASSUME NEW d \in Device, EnumerateDevice(d)
      PROVE  NoNewTransferFrame /\ \A w \in Wot: Reporting(w)' <=> Reporting(w)
  <2>1. ConnectedFrame(d) \in Frame /\ ConnectedFrame(d).kind # "transfer"
    BY FrameTypes DEF ConnectedFrame, NewFrame
  <2>. QED
    BY <1>4, <2>1, PushOther DEF EnumerateDevice, dispatchConnectedDevice
<1>. QED
  BY <1>1, <1>2, <1>3, <1>4

(* Queuing a packet for a cell that has none queued: still one packet per    *)
(* cell.                                                                     *)
LEMMA QueuePacket ==
    ASSUME TypeOK, WotOwnership, NEW p \in Packet, ~Queued(p.ov), iocp' = Append(iocp, p)
    PROVE  /\ \A w \in Wot: Queued(w)' <=> Queued(w) \/ w = p.ov
           /\ \A i, j \in DOMAIN iocp': iocp'[i].ov = iocp'[j].ov => i = j
<1>1. iocp \in Seq(Packet) /\ iocp' \in Seq(Packet)
  BY AppendProperties DEF TypeOK
<1>2. /\ Len(iocp') = Len(iocp) + 1
      /\ \A i \in 1..Len(iocp): iocp'[i] = iocp[i]
      /\ iocp'[Len(iocp) + 1] = p
  BY <1>1, AppendProperties
<1>3. DOMAIN iocp = 1..Len(iocp) /\ DOMAIN iocp' = 1..Len(iocp') /\ Len(iocp) \in Nat
  BY <1>1, LenProperties
<1>4. \A w \in Wot: Queued(w)' <=> Queued(w) \/ w = p.ov
  BY <1>2, <1>3 DEF Queued
<1>5. \A i, j \in DOMAIN iocp': iocp'[i].ov = iocp'[j].ov => i = j
  <2>1. \A i \in 1..Len(iocp): iocp[i].ov # p.ov
    BY <1>3 DEF Queued
  <2>2. \A i, j \in 1..Len(iocp): iocp[i].ov = iocp[j].ov => i = j
    BY <1>3 DEF WotOwnership
  <2>. QED
    BY <1>2, <1>3, <2>1, <2>2
<1>. QED
  BY <1>4, <1>5

(* Taking the first packet leaves exactly the other cells queued. *)
LEMMA TakePacket ==
    ASSUME TypeOK, WotOwnership, iocp # <<>>, iocp' = Tail(iocp)
    PROVE  /\ Queued(Head(iocp).ov)
           /\ \A w \in Wot: Queued(w)' <=> Queued(w) /\ w # Head(iocp).ov
           /\ \A i, j \in DOMAIN iocp': iocp'[i].ov = iocp'[j].ov => i = j
<1>1. iocp \in Seq(Packet) /\ iocp' \in Seq(Packet)
  BY HeadTailProperties DEF TypeOK
<1>2. /\ Len(iocp') = Len(iocp) - 1
      /\ \A i \in 1..Len(iocp'): iocp'[i] = iocp[i + 1]
  BY <1>1, HeadTailProperties
<1>3. /\ DOMAIN iocp = 1..Len(iocp) /\ DOMAIN iocp' = 1..Len(iocp')
      /\ Len(iocp) \in Nat /\ Len(iocp) > 0
  BY <1>1, LenProperties, EmptySeq
<1>4. Head(iocp) = iocp[1]
  BY <1>1
<1>5. \A i, j \in 1..Len(iocp): iocp[i].ov = iocp[j].ov => i = j
  BY <1>3 DEF WotOwnership
<1>6. Queued(Head(iocp).ov)
  BY <1>3, <1>4 DEF Queued
<1>7. ASSUME NEW w \in Wot PROVE Queued(w)' <=> Queued(w) /\ w # Head(iocp).ov
  <2>1. Queued(w)' => Queued(w) /\ w # Head(iocp).ov
    BY <1>2, <1>3, <1>4, <1>5 DEF Queued
  <2>2. ASSUME NEW i \in 1..Len(iocp), iocp[i].ov = w, w # Head(iocp).ov
        PROVE  i - 1 \in 1..Len(iocp') /\ iocp'[i - 1].ov = w
    <3>1. i # 1
      BY <1>4, <2>2
    <3>2. i - 1 \in 1..Len(iocp') /\ i = (i - 1) + 1
      BY <1>2, <1>3, <3>1
    <3>. QED
      BY <1>2, <2>2, <3>2
  <2>. QED
    BY <1>3, <2>1, <2>2 DEF Queued
<1>8. \A i, j \in DOMAIN iocp': iocp'[i].ov = iocp'[j].ov => i = j
  BY <1>2, <1>3, <1>5
<1>. QED
  BY <1>6, <1>7, <1>8

(* Requests in flight for one transfer are finitely many. *)
LEMMA InFlightFinite == \A t \in Transfer: IsFiniteSet(InFlightFor(t))
<1>. SUFFICES ASSUME NEW t \in Transfer PROVE IsFiniteSet(InFlightFor(t))
  OBVIOUS
<1>1. InFlightFor(t) \in SUBSET Wot /\ IsFiniteSet(Wot)
  BY CoreAssumption DEF InFlightFor, Wot
<1>. QED
  BY <1>1, FS_Subset

(* A packet in the port is owed to its transfer. *)
LEMMA QueuedIsOwed == TypeOK /\ RequestInv => HeadOwed
<1>. SUFFICES ASSUME TypeOK, RequestInv, iocp # <<>>
              PROVE  wot[Head(iocp).ov] \in Transfer /\ owed[wot[Head(iocp).ov]] > 0
  BY DEF HeadOwed
<1>. DEFINE w == Head(iocp).ov
            t == wot[w]
<1>1. w \in Wot
  BY HeadPacket
<1>2. Queued(w)
  <2>1. Head(iocp) = iocp[1] /\ 1 \in DOMAIN iocp
    BY LenProperties, EmptySeq DEF TypeOK
  <2>. QED
    BY <2>1 DEF Queued
<1>3. t \in Transfer /\ w \in InFlightFor(t)
  BY <1>1, <1>2 DEF RequestInv, NoReleasedInFlight, InFlight, InFlightFor
<1>4. owed[t] \in Nat /\ owed[t] = Cardinality(InFlightFor(t))
  BY <1>3 DEF TypeOK, CoreTypeOK, RequestInv, CompletionLedger
<1>5. Cardinality(InFlightFor(t)) # 0
  BY <1>3, InFlightFinite, FS_EmptySet
<1>. QED
  BY <1>3, <1>4, <1>5

(* A transfer that is owed nothing has nothing in flight, so releasing it or *)
(* changing its fields is harmless.                                          *)
LEMMA NothingOwed ==
    ASSUME RequestInv, NEW t \in Transfer, owed[t] = 0
    PROVE  \A w \in Wot: InFlight(w) => wot[w] # t
<1>1. Cardinality(InFlightFor(t)) = 0
  BY DEF RequestInv, CompletionLedger
<1>2. InFlightFor(t) = {}
  BY <1>1, InFlightFinite, FS_EmptySet
<1>. QED
  BY <1>2 DEF InFlightFor

(* Steps that submit nothing and complete nothing. *)
LEMMA QuietStep ==
    ASSUME RequestInv, NoNewTransferFrame,
           UNCHANGED <<wot, iocp, owed>>,
           \A w \in Wot: /\ io'[w] = NULL <=> io[w] = NULL
                         /\ io[w] # NULL => io'[w].bound = io[w].bound,
           \A w \in Wot: InFlight(w) => transfer'[wot[w]] # NULL
    PROVE  RequestInv'
<1>1. \A w \in Wot: /\ Queued(w)' <=> Queued(w)
                    /\ InFlight(w)' <=> InFlight(w)
                    /\ Reporting(w)' => Reporting(w)
  BY DEF Queued, InFlight, Reporting, NoNewTransferFrame
<1>2. WotOwnership'
  <2>1. \A i, j \in DOMAIN frames':
          frames'[i].kind = "transfer" /\ frames'[j].kind = "transfer" /\ frames'[i].token = frames'[j].token
          => i = j
    BY DEF NoNewTransferFrame, RequestInv, WotOwnership
  <2>. QED
    BY <1>1, <2>1 DEF RequestInv, WotOwnership
<1>3. FramesHoldTokens'
  BY DEF NoNewTransferFrame, RequestInv, FramesHoldTokens
<1>4. IOIsBound' /\ NoReleasedInFlight'
  BY <1>1 DEF RequestInv, IOIsBound, NoReleasedInFlight
<1>5. CompletionLedger'
  <2>1. \A t \in Transfer: InFlightFor(t)' = InFlightFor(t)
    BY <1>1 DEF InFlightFor
  <2>. QED
    BY <2>1 DEF RequestInv, CompletionLedger
<1>. QED
  BY <1>2, <1>3, <1>4, <1>5 DEF RequestInv

(* The I/O of an accepted request runs on a file that is bound to the port.  *)
LEMMA StartedIO ==
    ASSUME TypeOK, OpenDevicesOwnHandles, NEW t \in Transfer, NEW w \in Wot, SubmitAccepted(t, w)
    PROVE  /\ io'[w] # NULL /\ io'[w].bound
           /\ \A v \in Wot \ {w}: io'[v] = io[v]
<1>. DEFINE d == Info(t).device
            new == [file |-> deviceHandle[d], endpoint |-> Info(t).endpoint,
                    bound |-> TRUE, aborting |-> FALSE]
<1>1. transfer[t] \in TransferInfo /\ d # NULL /\ IsOpenDevice(d)
  BY DEF SubmitAccepted, usbusSubmitTransfer, TransferCall, Info, IsOpenDevice, TypeOK, CoreTypeOK
<1>2. d \in Device /\ Info(t).endpoint \in Endpoint
  BY <1>1 DEF TransferInfo, ClearedInfo, Info
<1>3. deviceHandle[d] \in Handle /\ file[deviceHandle[d]] = "bound"
  BY <1>1, <1>2 DEF OpenDevicesOwnHandles
<1>4. io' = [io EXCEPT ![w] = new]
  BY <1>3 DEF SubmitAccepted, StartIO
<1>5. io'[w] = new
  BY <1>4 DEF TypeOK
<1>6. new \in Pending /\ new.bound
  BY <1>2, <1>3 DEF Pending
<1>. QED
  BY <1>4, <1>5, <1>6, WinUsbAssumption DEF TypeOK

(* An accepted request is one more completion owed for its transfer. *)
LEMMA SubmitAcceptedStep ==
    ASSUME TypeOK, OpenDevicesOwnHandles, RequestInv,
           NEW t \in Transfer, NEW w \in Wot, SubmitAccepted(t, w)
    PROVE  RequestInv'
<1>. DEFINE d == Info(t).device
<1>1. /\ transfer[t] \in TransferInfo /\ transfer[t] # NULL /\ d # NULL /\ IsOpenDevice(d)
      /\ 0 \in winusbHandles[d]
  BY DEF SubmitAccepted, StartIO, usbusSubmitTransfer, TransferCall, Info, IsOpenDevice, TypeOK, CoreTypeOK
<1>2. d \in Device
  BY <1>1 DEF TransferInfo, ClearedInfo, Info
<1>4. /\ wot[w] = NULL /\ ~InFlight(w) /\ ~Reporting(w) /\ ~Queued(w)
      /\ wot' = [wot EXCEPT ![w] = t]
      /\ UNCHANGED <<iocp, frames, transfer>>
  BY DEF SubmitAccepted, usbusSubmitTransfer, RequestInv, WotOwnership, InFlight
<1>5. /\ io'[w] # NULL /\ io'[w].bound
      /\ \A v \in Wot \ {w}: io'[v] = io[v]
  BY StartedIO
<1>6. \A v \in Wot: /\ Queued(v)' <=> Queued(v)
                    /\ InFlight(v)' <=> InFlight(v) \/ v = w
                    /\ Reporting(v)' <=> Reporting(v)
  BY <1>4, <1>5 DEF Queued, InFlight, Reporting
<1>7. wot'[w] = t /\ t # NULL /\ \A v \in Wot \ {w}: wot'[v] = wot[v]
  BY <1>4, CoreAssumption DEF TypeOK
<1>8. WotOwnership' /\ FramesHoldTokens' /\ IOIsBound' /\ NoReleasedInFlight'
  <2>1. WotOwnership'
    BY <1>4, <1>5, <1>6, <1>7 DEF RequestInv, WotOwnership
  <2>2. FramesHoldTokens' /\ IOIsBound'
    BY <1>4, <1>5 DEF RequestInv, FramesHoldTokens, IOIsBound
  <2>3. NoReleasedInFlight'
    BY <1>1, <1>4, <1>6, <1>7 DEF RequestInv, NoReleasedInFlight
  <2>. QED
    BY <2>1, <2>2, <2>3
<1>9. CompletionLedger'
  <2>1. InFlightFor(t)' = InFlightFor(t) \cup {w} /\ w \notin InFlightFor(t)
    BY <1>4, <1>6, <1>7 DEF InFlightFor
  <2>2. \A u \in Transfer \ {t}: InFlightFor(u)' = InFlightFor(u)
    BY <1>4, <1>6, <1>7 DEF InFlightFor
  <2>3. Cardinality(InFlightFor(t) \cup {w}) = Cardinality(InFlightFor(t)) + 1
    BY <2>1, InFlightFinite, FS_AddElement
  <2>4. owed'[t] = owed[t] + 1 /\ \A u \in Transfer \ {t}: owed'[u] = owed[u]
    BY DEF SubmitAccepted, usbusSubmitTransfer, UsbusOK, TypeOK, CoreTypeOK
  <2>. QED
    BY <2>1, <2>2, <2>3, <2>4 DEF RequestInv, CompletionLedger
<1>. QED
  BY <1>8, <1>9 DEF RequestInv

(* A refused request leaves its cell behind, owned by nobody. *)
LEMMA SubmitRefusedStep ==
    ASSUME TypeOK, RequestInv, NEW t \in Transfer, NEW w \in Wot, SubmitRefused(t, w)
    PROVE  RequestInv'
<1>1. /\ wot[w] = NULL /\ ~InFlight(w) /\ ~Reporting(w)
      /\ UNCHANGED <<io, iocp, frames, transfer, owed>>
  BY DEF SubmitRefused, usbusSubmitTransfer, Failed, UsbusOK, RequestInv, WotOwnership
<1>2. wot'[w] = t /\ t # NULL /\ \A v \in Wot \ {w}: wot'[v] = wot[v]
  BY CoreAssumption DEF SubmitRefused, TypeOK
<1>3. \A v \in Wot: /\ Queued(v)' <=> Queued(v)
                    /\ InFlight(v)' <=> InFlight(v)
                    /\ Reporting(v)' <=> Reporting(v)
  BY <1>1 DEF Queued, InFlight, Reporting
<1>4. WotOwnership' /\ FramesHoldTokens' /\ IOIsBound' /\ NoReleasedInFlight'
  BY <1>1, <1>2, <1>3 DEF RequestInv, WotOwnership, FramesHoldTokens, IOIsBound, NoReleasedInFlight
<1>5. \A u \in Transfer: InFlightFor(u)' = InFlightFor(u)
  BY <1>1, <1>2, <1>3 DEF InFlightFor
<1>. QED
  BY <1>1, <1>4, <1>5 DEF RequestInv, CompletionLedger

(* Reporting a completion settles exactly one that was owed. *)
LEMMA ProcessEventsStep ==
    ASSUME TypeOK, RequestInv, winusbProcessEvents
    PROVE  RequestInv'
<1>1. PICK w \in Wot, t \in Transfer, st \in Status:
        /\ w = Head(iocp).ov /\ t = wot[w] /\ st = StatusOf(Head(iocp).result)
        /\ iocp # <<>> /\ iocp' = Tail(iocp) /\ UNCHANGED io
        /\ wot' = IF Info(t).callback THEN wot ELSE [wot EXCEPT ![w] = NULL]
        /\ usbusProcessEvents(t, w, st)
  <2>1. iocp # <<>>
    BY DEF winusbProcessEvents
  <2>2. Head(iocp).ov \in Wot /\ StatusOf(Head(iocp).result) \in Status
    BY <2>1, HeadPacket
  <2>3. wot[Head(iocp).ov] \in Transfer
    BY <2>1, QueuedIsOwed DEF HeadOwed
  <2>. QED
    BY <2>1, <2>2, <2>3 DEF winusbProcessEvents
<1>2. w \in Wot /\ st \in Status /\ t \in Transfer
  OBVIOUS
<1>3. /\ Queued(w)
      /\ \A v \in Wot: Queued(v)' <=> Queued(v) /\ v # w
      /\ \A i, k \in DOMAIN iocp': iocp'[i].ov = iocp'[k].ov => i = k
  BY <1>1, TakePacket DEF RequestInv
<1>4. io[w] = NULL /\ ~Reporting(w)
  BY <1>2, <1>3 DEF RequestInv, WotOwnership
<1>5. \A v \in Wot: InFlight(v)' <=> InFlight(v) /\ v # w
  BY <1>1, <1>2, <1>3, <1>4 DEF InFlight
<1>6. \A v \in Wot \ {w}: wot'[v] = wot[v]
  BY <1>1 DEF TypeOK
<1>7. /\ FramesHoldTokens'
      /\ \A v \in Wot: Reporting(v)' => Reporting(v) \/ (v = w /\ Info(t).callback)
      /\ \A i, k \in DOMAIN frames':
            frames'[i].kind = "transfer" /\ frames'[k].kind = "transfer" /\ frames'[i].token = frames'[k].token
            => i = k
  <2>1. CASE ~Info(t).callback
    <3>1. frames' = frames
      BY <1>1, <2>1 DEF usbusProcessEvents
    <3>. QED
      <4>1. FramesHoldTokens'
        BY <3>1 DEF RequestInv, FramesHoldTokens
      <4>2. \A v \in Wot: Reporting(v)' => Reporting(v)
        BY <3>1 DEF Reporting
      <4>3. \A i, k \in DOMAIN frames':
              frames'[i].kind = "transfer" /\ frames'[k].kind = "transfer" /\ frames'[i].token = frames'[k].token
              => i = k
        BY <3>1, Zenon DEF RequestInv, WotOwnership
      <4>. QED
        BY <4>1, <4>2, <4>3, Zenon
  <2>2. CASE Info(t).callback
    <3>. DEFINE f == TransferFrame(w, st)
    <3>1. f \in Frame /\ f.kind = "transfer" /\ f.token = w
      BY <1>2, FrameTypes DEF TransferFrame, NewFrame
    <3>2. frames' = Append(frames, f)
      BY <1>1, <2>2 DEF usbusProcessEvents
    <3>. HIDE DEF f
    <3>3. frames \in Seq(Frame) /\ frames' \in Seq(Frame)
      BY <3>1, <3>2, AppendProperties DEF TypeOK, CoreTypeOK
    <3>4. /\ Len(frames') = Len(frames) + 1
          /\ \A i \in 1..Len(frames): frames'[i] = frames[i]
          /\ frames'[Len(frames) + 1] = f
      BY <3>1, <3>2, <3>3, AppendProperties
    <3>5. DOMAIN frames = 1..Len(frames) /\ DOMAIN frames' = 1..Len(frames') /\ Len(frames) \in Nat
      BY <3>3, LenProperties
    <3>6. FramesHoldTokens'
      BY <1>2, <3>1, <3>4, <3>5 DEF RequestInv, FramesHoldTokens
    <3>7. \A v \in Wot: Reporting(v)' => Reporting(v) \/ v = w
      BY <3>1, <3>4, <3>5 DEF Reporting
    <3>8. \A i \in 1..Len(frames): frames[i].kind = "transfer" => frames[i].token # w
      BY <1>4, <3>5 DEF Reporting
    <3>9. \A i, k \in 1..Len(frames):
            frames[i].kind = "transfer" /\ frames[k].kind = "transfer" /\ frames[i].token = frames[k].token
            => i = k
      BY <3>5 DEF RequestInv, WotOwnership
    <3>. QED
      BY <2>2, <3>1, <3>4, <3>5, <3>6, <3>7, <3>8, <3>9
  <2>. QED
    BY <2>1, <2>2
<1>8. WotOwnership'
  <2>1. \A v \in Wot: InFlight(v)' \/ Reporting(v)' => wot'[v] # NULL
    <3>1. CASE Info(t).callback
      BY <1>1, <1>4, <1>5, <1>7, <3>1, CoreAssumption DEF RequestInv, WotOwnership
    <3>2. CASE ~Info(t).callback
      BY <1>4, <1>5, <1>6, <1>7, <3>2 DEF RequestInv, WotOwnership
    <3>. QED
      BY <3>1, <3>2
  <2>2. \A v \in Wot: io'[v] # NULL => ~Queued(v)' /\ ~Reporting(v)'
    BY <1>1, <1>3, <1>4, <1>7 DEF RequestInv, WotOwnership
  <2>3. \A v \in Wot: Queued(v)' => ~Reporting(v)'
    BY <1>3, <1>7 DEF RequestInv, WotOwnership
  <2>. QED
    BY <1>3, <1>7, <2>1, <2>2, <2>3 DEF WotOwnership
<1>9. IOIsBound' /\ NoReleasedInFlight'
  BY <1>1, <1>5, <1>6 DEF RequestInv, IOIsBound, NoReleasedInFlight, usbusProcessEvents
<1>10. CompletionLedger'
  <2>0. InFlight(w)
    BY <1>3 DEF InFlight
  <2>1. InFlightFor(t)' = InFlightFor(t) \ {w} /\ w \in InFlightFor(t)
    <3>1. \A v \in Wot: (InFlight(v)' /\ wot'[v] = t) <=> (InFlight(v) /\ wot[v] = t /\ v # w)
      BY <1>5, <1>6
    <3>2. w \in InFlightFor(t)
      BY <1>1, <1>2, <2>0 DEF InFlightFor
    <3>. QED
      BY <3>1, <3>2 DEF InFlightFor
  <2>2. \A u \in Transfer \ {t}: InFlightFor(u)' = InFlightFor(u)
    BY <1>1, <1>5, <1>6 DEF InFlightFor
  <2>3. Cardinality(InFlightFor(t) \ {w}) = Cardinality(InFlightFor(t)) - 1
    BY <1>4, <2>1, InFlightFinite, FS_RemoveElement
  <2>4. owed'[t] = owed[t] - 1 /\ \A u \in Transfer \ {t}: owed'[u] = owed[u]
    BY <1>1, <1>4 DEF usbusProcessEvents, TypeOK, CoreTypeOK
  <2>5. \A u \in Transfer \ {t}: owed'[u] = Cardinality(InFlightFor(u)')
    BY <2>2, <2>4 DEF RequestInv, CompletionLedger
  <2>6. owed'[t] = Cardinality(InFlightFor(t)')
    BY <1>4, <2>1, <2>3, <2>4 DEF RequestInv, CompletionLedger
  <2>. QED
    BY <2>5, <2>6 DEF CompletionLedger
<1>. QED
  BY <1>7, <1>8, <1>9, <1>10 DEF RequestInv

(* The cell of a request that has been reported is freed. *)
LEMMA CallbackReturnsStep ==
    ASSUME TypeOK, RequestInv, TransferCallbackReturns
    PROVE  RequestInv'
<1>1. /\ frames' = Front(frames) /\ Len(frames) > 0 /\ Len(frames) \in Nat
      /\ Last(frames) = frames[Len(frames)] /\ Last(frames).kind = "transfer"
      /\ wot' = [wot EXCEPT ![Last(frames).token] = NULL]
      /\ UNCHANGED <<io, iocp, owed, transfer>>
  BY WaitingTop DEF TransferCallbackReturns, TransferReturns
<1>2. /\ NoNewTransferFrame
      /\ DOMAIN frames = 1..Len(frames) /\ DOMAIN frames' = 1..Len(frames) - 1
      /\ \A i \in DOMAIN frames': frames'[i] = frames[i]
  BY <1>1, PopFrame
<1>3. Len(frames) \in DOMAIN frames
  BY <1>1, <1>2
<1>4. PICK w \in Wot: w = Last(frames).token /\ Reporting(w)
  BY <1>1, <1>3 DEF RequestInv, FramesHoldTokens, Reporting
<1>5. ~InFlight(w)
  BY <1>4 DEF RequestInv, WotOwnership, InFlight
<1>6. \A i \in DOMAIN frames': frames'[i].kind = "transfer" => frames'[i].token # w
  <2>1. \A i \in 1..Len(frames) - 1: i \in DOMAIN frames /\ i # Len(frames)
    BY <1>1, <1>2
  <2>. QED
    BY <1>1, <1>2, <1>3, <1>4, <2>1 DEF RequestInv, WotOwnership
<1>7. \A v \in Wot: /\ Queued(v)' <=> Queued(v)
                    /\ InFlight(v)' <=> InFlight(v)
                    /\ Reporting(v)' => Reporting(v) /\ v # w
  BY <1>1, <1>2, <1>6 DEF Queued, InFlight, Reporting, NoNewTransferFrame
<1>8. \A v \in Wot \ {w}: wot'[v] = wot[v]
  BY <1>1, <1>4 DEF TypeOK
<1>9. WotOwnership'
  <2>1. \A i, k \in DOMAIN frames':
          frames'[i].kind = "transfer" /\ frames'[k].kind = "transfer" /\ frames'[i].token = frames'[k].token
          => i = k
    BY <1>2 DEF NoNewTransferFrame, RequestInv, WotOwnership
  <2>. QED
    BY <1>1, <1>5, <1>7, <1>8, <2>1 DEF RequestInv, WotOwnership
<1>10. FramesHoldTokens' /\ IOIsBound' /\ NoReleasedInFlight'
  BY <1>1, <1>2, <1>5, <1>7, <1>8
     DEF NoNewTransferFrame, RequestInv, FramesHoldTokens, IOIsBound, NoReleasedInFlight
<1>11. \A u \in Transfer: InFlightFor(u)' = InFlightFor(u)
  BY <1>5, <1>7, <1>8 DEF InFlightFor
<1>. QED
  BY <1>1, <1>9, <1>10, <1>11 DEF RequestInv, CompletionLedger

(* The kernel hands a cell to the port. *)
LEMMA IOCompletesStep ==
    ASSUME TypeOK, RequestInv, NEW w \in Wot, NEW result \in Result, IOCompletes(w, result)
    PROVE  RequestInv'
<1>. DEFINE p == [ov |-> w, result |-> result]
<1>1. /\ io[w] # NULL /\ io[w].bound
      /\ io' = [io EXCEPT ![w] = NULL]
      /\ iocp' = Append(iocp, p)
      /\ UNCHANGED <<wot, owed, frames, transfer>>
  BY DEF IOCompletes, coreVars, RequestInv, IOIsBound
<1>2. p \in Packet /\ p.ov = w /\ ~Queued(w) /\ ~Reporting(w)
  BY <1>1 DEF Packet, RequestInv, WotOwnership
<1>. HIDE DEF p
<1>3. /\ \A v \in Wot: Queued(v)' <=> Queued(v) \/ v = w
      /\ \A i, k \in DOMAIN iocp': iocp'[i].ov = iocp'[k].ov => i = k
  BY <1>1, <1>2, QueuePacket DEF RequestInv
<1>4. io'[w] = NULL /\ \A v \in Wot \ {w}: io'[v] = io[v]
  BY <1>1 DEF TypeOK
<1>5. \A v \in Wot: InFlight(v)' <=> InFlight(v)
  BY <1>1, <1>3, <1>4 DEF InFlight
<1>6. \A v \in Wot: Reporting(v)' <=> Reporting(v)
  BY <1>1 DEF Reporting
<1>7. WotOwnership'
  BY <1>1, <1>2, <1>3, <1>4, <1>5, <1>6 DEF RequestInv, WotOwnership
<1>8. FramesHoldTokens' /\ IOIsBound' /\ NoReleasedInFlight'
  BY <1>1, <1>4, <1>5 DEF RequestInv, FramesHoldTokens, IOIsBound, NoReleasedInFlight
<1>9. \A u \in Transfer: InFlightFor(u)' = InFlightFor(u)
  BY <1>1, <1>5 DEF InFlightFor
<1>. QED
  BY <1>1, <1>7, <1>8, <1>9 DEF RequestInv, CompletionLedger

(* Canceling I/O changes neither that it is pending nor where it is reported. *)
LEMMA AbortingIsQuiet ==
    ASSUME TypeOK, NEW S,
           io' = [w \in Wot |-> IF w \in S THEN [io[w] EXCEPT !.aborting = TRUE] ELSE io[w]],
           \A w \in S: w \in Wot => io[w] # NULL
    PROVE  \A w \in Wot: /\ io'[w] = NULL <=> io[w] = NULL
                         /\ io[w] # NULL => io'[w].bound = io[w].bound
<1>. SUFFICES ASSUME NEW w \in Wot, w \in S
              PROVE  /\ io'[w] # NULL /\ io[w] # NULL
                     /\ io'[w].bound = io[w].bound
  BY DEF TypeOK
<1>1. io[w] \in Pending /\ io'[w] = [io[w] EXCEPT !.aborting = TRUE]
  BY DEF TypeOK
<1>2. io'[w] \in Pending /\ io'[w].bound = io[w].bound
  BY <1>1 DEF Pending
<1>. QED
  BY <1>1, <1>2, WinUsbAssumption

(* Nothing a device is asked to do starts or ends an I/O; closing it cancels *)
(* what is pending.                                                          *)
LEMMA DeviceKeepsIO ==
    ASSUME TypeOK, NEW d \in Device, DeviceStep(d)
    PROVE  \A w \in Wot: /\ io'[w] = NULL <=> io[w] = NULL
                         /\ io[w] # NULL => io'[w].bound = io[w].bound
<1>1. CASE winusbClose(d)
  <2>. DEFINE S == {w \in Wot: io[w] # NULL /\ io[w].file = deviceHandle[d]}
  <2>1. CASE UNCHANGED io
    BY <2>1
  <2>2. CASE CloseHandle(deviceHandle[d])
    <3>1. io' = [w \in Wot |-> IF w \in S THEN [io[w] EXCEPT !.aborting = TRUE] ELSE io[w]]
      BY <2>2 DEF CloseHandle
    <3>. QED
      BY <3>1, AbortingIsQuiet
  <2>. QED
    BY <1>1, <2>1, <2>2 DEF winusbClose
<1>2. CASE ~winusbClose(d)
  <2>1. UNCHANGED io
    BY <1>2 DEF DeviceStep, EnumerateDevice, SkipDevice, ClearDevice, Dispose, winusbOpen,
                CreateFileFails, InitializeFails, PortFails, OpenSucceeds, OpenedFile,
                winusbOpenInterface, winusbCloseInterface, winVars
  <2>. QED
    BY <2>1
<1>. QED
  BY <1>1, <1>2

(* Nothing a device is asked to do submits or completes a request: closing   *)
(* it cancels its I/O, and that is reported like any other.                  *)
LEMMA DeviceStepIsQuiet ==
    ASSUME TypeOK, RequestInv, NEW d \in Device, DeviceStep(d)
    PROVE  RequestInv'
<1>1. UNCHANGED <<wot, iocp, owed, transfer>> /\ (UNCHANGED frames \/ EnumerateDevice(d))
  BY DEF DeviceStep, EnumerateDevice, dispatchConnectedDevice, SkipDevice, AllocateAndLose, ClearDevice,
         Dispose, usbusDispose, winusbOpen, CreateFileFails, InitializeFails, PortFails, OpenSucceeds,
         OpenedFile, usbusOpen, winusbClose, usbusClose, winusbOpenInterface, winusbCloseInterface,
         InterfaceCall, winVars, coreVars
<1>2. NoNewTransferFrame
  BY <1>1, ListeningFrames DEF NoNewTransferFrame
<1>3. \A w \in Wot: /\ io'[w] = NULL <=> io[w] = NULL
                    /\ io[w] # NULL => io'[w].bound = io[w].bound
  BY DeviceKeepsIO
<1>4. \A w \in Wot: InFlight(w) => transfer'[wot[w]] # NULL
  BY <1>1 DEF RequestInv, NoReleasedInFlight
<1>. QED
  BY <1>1, <1>2, <1>3, <1>4, QuietStep

(* Preparing or canceling a transfer starts and ends no I/O either. *)
LEMMA TransferKeepsIO ==
    ASSUME TypeOK, NEW t \in Transfer,
           \/ AllocateTransfer(t) \/ ReleaseTransfer(t) \/ SetTransferInfo(t)
           \/ winusbCancelTransfer(t)
    PROVE  \A w \in Wot: /\ io'[w] = NULL <=> io[w] = NULL
                         /\ io[w] # NULL => io'[w].bound = io[w].bound
<1>1. CASE winusbCancelTransfer(t)
  <2>. DEFINE S == {w \in Wot: /\ io[w] # NULL /\ io[w].file = deviceHandle[Info(t).device]
                               /\ io[w].endpoint = Info(t).endpoint}
  <2>1. io' = [w \in Wot |-> IF w \in S THEN [io[w] EXCEPT !.aborting = TRUE] ELSE io[w]]
    BY <1>1 DEF winusbCancelTransfer
  <2>. QED
    BY <2>1, AbortingIsQuiet
<1>2. CASE ~winusbCancelTransfer(t)
  BY <1>2 DEF AllocateTransfer, ReleaseTransfer, SetTransferInfo, winVars
<1>. QED
  BY <1>1, <1>2

(* The application's calls that prepare or cancel a transfer. *)
LEMMA TransferStepIsQuiet ==
    ASSUME TypeOK, RequestInv, NEW t \in Transfer,
           \/ AllocateTransfer(t) \/ ReleaseTransfer(t) \/ SetTransferInfo(t)
           \/ winusbCancelTransfer(t)
    PROVE  RequestInv'
<1>1. UNCHANGED <<wot, iocp, owed, frames>>
  BY DEF AllocateTransfer, usbusAllocateTransfer, ReleaseTransfer, usbusReleaseTransfer, SetTransferInfo,
         usbusSetBulkTransferInfo, winusbCancelTransfer, usbusCancelTransfer, winVars, coreVars
<1>2. \A w \in Wot: InFlight(w) => transfer'[wot[w]] # NULL
  <2>1. CASE winusbCancelTransfer(t)
    BY <2>1 DEF winusbCancelTransfer, usbusCancelTransfer, coreVars, RequestInv, NoReleasedInFlight
  <2>2. CASE AllocateTransfer(t)
    BY <2>2 DEF AllocateTransfer, usbusAllocateTransfer, RequestInv, NoReleasedInFlight, TypeOK, CoreTypeOK
  <2>3. CASE ReleaseTransfer(t)
    BY <2>3, NothingOwed
       DEF ReleaseTransfer, usbusReleaseTransfer, RequestInv, NoReleasedInFlight, TypeOK, CoreTypeOK
  <2>4. CASE SetTransferInfo(t)
    BY <2>4, NothingOwed
       DEF SetTransferInfo, usbusSetBulkTransferInfo, RequestInv, NoReleasedInFlight, TypeOK, CoreTypeOK
  <2>. QED
    BY <2>1, <2>2, <2>3, <2>4
<1>3. \A w \in Wot: /\ io'[w] = NULL <=> io[w] = NULL
                    /\ io[w] # NULL => io'[w].bound = io[w].bound
  BY TransferKeepsIO
<1>. QED
  BY <1>1, <1>2, <1>3, QuietStep DEF NoNewTransferFrame

(* Every step keeps the requests' part of the invariant. *)
LEMMA RequestStep ==
    TypeOK /\ OpenDevicesOwnHandles /\ RequestInv /\ [Next]_vars => RequestInv'
<1>. SUFFICES ASSUME TypeOK, OpenDevicesOwnHandles, RequestInv, [Next]_vars PROVE RequestInv'
  OBVIOUS
<1>0. \A w \in Wot: InFlight(w) => transfer[wot[w]] # NULL
  BY DEF RequestInv, NoReleasedInFlight
<1>1. CASE winusbListen \/ EnumerationEnds \/ AppKeepsDevice \/ ConnectedCallbackReturns
  <2>1. NoNewTransferFrame
    BY <1>1, ListeningFrames
  <2>. QED
    BY <1>0, <1>1, <2>1, QuietStep
       DEF winusbListen, usbusListen, EnumerationEnds, ListenReturns, AppKeepsDevice, KeepDevice,
           ConnectedCallbackReturns, ConnectedReturns, winVars
<1>2. CASE winusbProcessEvents
  BY <1>2, ProcessEventsStep
<1>3. CASE TransferCallbackReturns
  BY <1>3, CallbackReturnsStep
<1>4. ASSUME NEW w \in Wot, NEW result \in Result, IOCompletes(w, result) PROVE RequestInv'
  BY <1>4, IOCompletesStep
<1>5. ASSUME NEW d \in Device, DeviceStep(d) PROVE RequestInv'
  BY <1>5, DeviceStepIsQuiet
<1>6. ASSUME NEW t \in Transfer, TransferStep(t) PROVE RequestInv'
  <2>1. ASSUME NEW w \in Wot, SubmitAccepted(t, w) PROVE RequestInv'
    BY <1>6, <2>1, SubmitAcceptedStep
  <2>2. ASSUME NEW w \in Wot, SubmitRefused(t, w) PROVE RequestInv'
    BY <1>6, <2>2, SubmitRefusedStep
  <2>. QED
    BY <1>6, <2>1, <2>2, TransferStepIsQuiet DEF TransferStep, winusbSubmitTransfer
<1>7. CASE UNCHANGED vars
  BY <1>0, <1>7, QuietStep DEF vars, coreVars, winVars, NoNewTransferFrame
<1>. QED
  BY <1>1, <1>2, <1>3, <1>4, <1>5, <1>6, <1>7 DEF Next

-----------------------------------------------------------------------------
(* The theorems.                                                             *)

Inv == TypeOK /\ OpenDevicesOwnHandles /\ RequestInv

(* Before the first call nothing is open, allocated or pending. *)
LEMMA InitInv == Init => Inv
<1>. SUFFICES ASSUME Init PROVE Inv
  OBVIOUS
<1>1. TypeOK
  BY EmptySeq DEF Init, CoreInit, TypeOK, CoreTypeOK
<1>2. OpenDevicesOwnHandles
  BY DEF Init, CoreInit, OpenDevicesOwnHandles, IsOpenDevice
<1>3. \A w \in Wot: ~InFlight(w) /\ ~Reporting(w) /\ ~Queued(w) /\ io[w] = NULL
  BY DEF Init, CoreInit, InFlight, Reporting, Queued
<1>4. WotOwnership /\ FramesHoldTokens /\ IOIsBound /\ NoReleasedInFlight
  BY <1>3 DEF Init, CoreInit, WotOwnership, FramesHoldTokens, IOIsBound, NoReleasedInFlight
<1>5. \A t \in Transfer: InFlightFor(t) = {}
  BY <1>3 DEF InFlightFor
<1>6. CompletionLedger
  BY <1>5, FS_EmptySet DEF Init, CoreInit, CompletionLedger
<1>. QED
  BY <1>1, <1>2, <1>4, <1>6 DEF Inv, RequestInv

(* The invariant holds in every state of the library. *)
THEOREM Invariance == Spec => []Inv
<1>1. Init => Inv
  BY InitInv
<1>2. Inv /\ [Next]_vars => Inv'
  BY TypeStep, OpenDevicesOwnHandlesStep, RequestStep, QueuedIsOwed DEF Inv
<1>. QED
  BY <1>1, <1>2, PTL DEF Spec

(* The variables keep their types; in particular no completion is ever       *)
(* reported that was not owed, and an open device always has a handle.       *)
THEOREM TypeCorrect == Spec => []TypeOK
BY Invariance, PTL DEF Inv

(* Every open device has a file and interface handles of its own, bound to   *)
(* the completion port, also when every call that can fail does.             *)
THEOREM HandlesAreOwned == Spec => []OpenDevicesOwnHandles
BY Invariance, PTL DEF Inv

(* free(wot) frees cells that nobody else holds, however callbacks nest.     *)
THEOREM CellsHaveOneOwner == Spec => []WotOwnership
<1>1. Inv => WotOwnership
  BY DEF Inv, RequestInv
<1>. QED
  BY <1>1, Invariance, PTL

(* usbusSubmitTransfer() returns UsbusOK exactly as often as a completion    *)
(* follows or is still to follow.                                            *)
THEOREM LedgerBalances == Spec => []CompletionLedger
<1>1. Inv => CompletionLedger
  BY DEF Inv, RequestInv
<1>. QED
  BY <1>1, Invariance, PTL

(* winusbProcessEvents() never writes to or calls through a transfer that    *)
(* has been released.                                                        *)
THEOREM NoUseAfterRelease == Spec => []NoReleasedInFlight
<1>1. Inv => NoReleasedInFlight
  BY DEF Inv, RequestInv
<1>. QED
  BY <1>1, Invariance, PTL
=============================================================================
