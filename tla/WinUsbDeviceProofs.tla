-------------------------- MODULE WinUsbDeviceProofs --------------------------
(* Theorems about WinUsb: that an application which closes a device before   *)
(* it disposes it keeps what it opened and leaks nothing, that pending I/O   *)
(* stays with its device, that cells are freed, and that asynchronous I/O is *)
(* what TransferContract says.                                               *)
EXTENDS WinUsbProofs

-----------------------------------------------------------------------------
(* Open devices.                                                             *)

(* An open device changes its interfaces only in a call for that. *)
InterfaceStep(d) ==
    \E i \in Interface: winusbOpenInterface(d, i) \/ winusbCloseInterface(d, i)

(* A step leaves a device as it is: open, on its file, with its interfaces. *)
Stays(d) ==
    /\ IsOpenDevice(d)'
    /\ deviceHandle'[d] = deviceHandle[d]
    /\ winusbHandles'[d] = winusbHandles[d] \/ InterfaceStep(d)

(* A step of one device leaves the others that are open as they are. *)
LEMMA OtherDevicesStay ==
    ASSUME TypeOK, NEW d \in Device, NEW e \in Device \ {d}, IsOpenDevice(d), DeviceStep(e)
    PROVE  Stays(d) /\ winusbHandles'[d] = winusbHandles[d]
<1>1. IsOpenDevice(d)'
  BY DEF DeviceStep, EnumerateDevice, dispatchConnectedDevice, SkipDevice, AllocateAndLose, Dispose,
         usbusDispose, winusbOpen, CreateFileFails, InitializeFails, PortFails, OpenSucceeds, usbusOpen,
         winusbClose, usbusClose, winusbOpenInterface, winusbCloseInterface, InterfaceCall, coreVars,
         IsOpenDevice, TypeOK, CoreTypeOK
<1>2. deviceHandle'[d] = deviceHandle[d] /\ winusbHandles'[d] = winusbHandles[d]
  BY DEF DeviceStep, EnumerateDevice, SkipDevice, ClearDevice, Dispose, winusbOpen, CreateFileFails,
         InitializeFails, PortFails, OpenSucceeds, OpenedFile, winusbClose, winusbOpenInterface,
         winusbCloseInterface, winVars, TypeOK
<1>. QED
  BY <1>1, <1>2 DEF Stays

(* A device that is open is neither enumerated, skipped nor opened, and is   *)
(* not disposed by a careful application.                                    *)
LEMMA OwnStep ==
    ASSUME CarefulApp, NEW d \in Device, IsOpenDevice(d), DeviceStep(d)
    PROVE  winusbClose(d) \/ InterfaceStep(d)
BY DEF DeviceStep, EnumerateDevice, dispatchConnectedDevice, SkipDevice, AllocateAndLose, Dispose,
       usbusDispose, winusbOpen, CreateFileFails, InitializeFails, PortFails, OpenSucceeds, usbusOpen,
       IsOpenDevice, InterfaceStep

(* Whatever happens, an open device stays as it is until it is closed or its *)
(* interfaces are opened or closed.                                          *)
LEMMA OpenDevicesStay ==
    ASSUME CarefulApp, TypeOK, NEW d \in Device, IsOpenDevice(d), [Next]_vars, ~winusbClose(d)
    PROVE  Stays(d)
<1>1. CASE winusbListen \/ EnumerationEnds \/ AppKeepsDevice \/ winusbProcessEvents \/ TransferCallbackReturns
  BY <1>1 DEF winusbListen, usbusListen, EnumerationEnds, ListenReturns, AppKeepsDevice, KeepDevice,
              winusbProcessEvents, usbusProcessEvents, TransferCallbackReturns, TransferReturns, winVars,
              IsOpenDevice, Stays
<1>2. CASE ConnectedCallbackReturns
  <2>1. mem'[d] = mem[d]
    BY <1>2 DEF ConnectedCallbackReturns, ConnectedReturns, IsOpenDevice, TypeOK, CoreTypeOK
  <2>. QED
    BY <1>2, <2>1 DEF ConnectedCallbackReturns, ConnectedReturns, winVars, IsOpenDevice, Stays
<1>3. ASSUME NEW w \in Wot, NEW result \in Result, IOCompletes(w, result) PROVE Stays(d)
  BY <1>3 DEF IOCompletes, coreVars, IsOpenDevice, Stays
<1>4. ASSUME NEW e \in Device, DeviceStep(e) PROVE Stays(d)
  <2>1. CASE e = d
    <3>1. InterfaceStep(d)
      BY <1>4, <2>1, OwnStep
    <3>2. UNCHANGED <<mem, isOpen, deviceHandle>>
      BY <3>1 DEF InterfaceStep, winusbOpenInterface, winusbCloseInterface, InterfaceCall, coreVars
    <3>. QED
      BY <3>1, <3>2 DEF IsOpenDevice, Stays
  <2>2. CASE e # d
    BY <1>4, <2>2, OtherDevicesStay
  <2>. QED
    BY <2>1, <2>2
<1>5. ASSUME NEW t \in Transfer, TransferStep(t) PROVE Stays(d)
  <2>1. UNCHANGED <<mem, isOpen, deviceHandle, winusbHandles>>
    BY <1>5 DEF TransferStep, AllocateTransfer, ReleaseTransfer, SetTransferInfo, usbusAllocateTransfer,
                usbusReleaseTransfer, usbusSetBulkTransferInfo, winusbSubmitTransfer, SubmitAccepted,
                SubmitRefused, usbusSubmitTransfer, winusbCancelTransfer, usbusCancelTransfer, coreVars, winVars
  <2>. QED
    BY <2>1 DEF IsOpenDevice, Stays
<1>6. CASE UNCHANGED vars
  BY <1>6 DEF vars, coreVars, winVars, IsOpenDevice, Stays
<1>. QED
  BY <1>1, <1>2, <1>3, <1>4, <1>5, <1>6 DEF Next

-----------------------------------------------------------------------------
(* Leaks.                                                                    *)

(* Steps that touch no file and no interface. *)
LEMMA SameFiles ==
    ASSUME NothingLeaked, UNCHANGED <<file, intf>>,
           \A d \in Device: IsOpenDevice(d) => Stays(d) /\ winusbHandles'[d] = winusbHandles[d]
    PROVE  NothingLeaked'
BY DEF NothingLeaked, Stays

(* No WinUSB handle is left of a file that is closed. *)
LEMMA ClosedFilesAreClean ==
    ASSUME OpenDevicesOwnHandles, NothingLeaked, NEW h \in Handle, file[h] = "closed"
    PROVE  /\ \A p \in intf: p[1] # h
           /\ \A d \in Device: IsOpenDevice(d) => deviceHandle[d] # h
BY DEF NothingLeaked, OpenDevicesOwnHandles

(* A file that has just been opened belongs to its device or was never bound *)
(* to the port.                                                              *)
LEMMA OpenedFileLeaks ==
    ASSUME TypeOK, OpenDevicesOwnHandles, NothingLeaked,
           NEW d \in Device, NEW h \in Handle, NEW state \in {"open", "bound"}, OpenedFile(d, h, state),
           state = "open" => PortMayFail,
           state = "bound" => IsOpenDevice(d)',
           \A e \in Device \ {d}: IsOpenDevice(e) => Stays(e) /\ winusbHandles'[e] = winusbHandles[e],
           ~IsOpenDevice(d)
    PROVE  NothingLeaked'
<1>1. /\ file[h] = "closed" /\ file'[h] = state /\ \A g \in Handle \ {h}: file'[g] = file[g]
      /\ intf' = intf \cup {<<h, 0>>}
      /\ deviceHandle'[d] = h /\ winusbHandles'[d] = {0}
  BY DEF OpenedFile, TypeOK
<1>2. /\ \A p \in intf: p[1] # h
      /\ \A e \in Device: IsOpenDevice(e) => deviceHandle[e] # h
  BY <1>1, ClosedFilesAreClean
<1>3. ASSUME NEW g \in Handle
      PROVE  \/ file'[g] = "closed"
             \/ file'[g] = "open" /\ PortMayFail
             \/ \E e \in Device: IsOpenDevice(e)' /\ deviceHandle'[e] = g
  <2>1. CASE g = h
    BY <1>1, <2>1
  <2>2. CASE g # h
    BY <1>1, <2>2 DEF NothingLeaked, Stays
  <2>. QED
    BY <2>1, <2>2
<1>4. ASSUME NEW p \in intf'
      PROVE  \/ file'[p[1]] = "open" /\ p[2] = 0
             \/ \E e \in Device: IsOpenDevice(e)' /\ deviceHandle'[e] = p[1] /\ p[2] \in winusbHandles'[e]
  <2>1. CASE p = <<h, 0>>
    BY <1>1, <2>1
  <2>2. CASE p \in intf
    <3>1. p[1] \in Handle /\ p[1] # h
      BY <1>2, <2>2 DEF TypeOK
    <3>2. file'[p[1]] = file[p[1]]
      BY <1>1, <3>1
    <3>. QED
      BY <2>2, <3>2 DEF NothingLeaked, Stays
  <2>. QED
    BY <1>1, <2>1, <2>2
<1>. QED
  BY <1>3, <1>4 DEF NothingLeaked

(* Closing a device closes its file and every interface handle on it. *)
LEMMA CloseLeaks ==
    ASSUME TypeOK, OpenDevicesOwnHandles, NothingLeaked, NEW d \in Device, winusbClose(d),
           \A e \in Device \ {d}: IsOpenDevice(e) => Stays(e) /\ winusbHandles'[e] = winusbHandles[e]
    PROVE  NothingLeaked'
<1>. DEFINE h == deviceHandle[d]
<1>1. IsOpenDevice(d) /\ h \in Handle /\ h # INVALID /\ file[h] = "bound"
  BY WinUsbAssumption DEF winusbClose, usbusClose, IsOpenDevice, OpenDevicesOwnHandles
<1>2. /\ file'[h] = "closed" /\ \A g \in Handle \ {h}: file'[g] = file[g]
      /\ intf' = intf \ {<<h, i>> : i \in winusbHandles[d]}
  BY <1>1 DEF winusbClose, CloseHandle, TypeOK
<1>3. ASSUME NEW g \in Handle \ {h}
      PROVE  \/ file'[g] = "closed"
             \/ file'[g] = "open" /\ PortMayFail
             \/ \E e \in Device: IsOpenDevice(e)' /\ deviceHandle'[e] = g
  BY <1>2, <1>3 DEF NothingLeaked, Stays
<1>4. ASSUME NEW p \in intf'
      PROVE  \/ file'[p[1]] = "open" /\ p[2] = 0
             \/ \E e \in Device: IsOpenDevice(e)' /\ deviceHandle'[e] = p[1] /\ p[2] \in winusbHandles'[e]
  <2>1. p \in intf /\ p[1] \in Handle /\ p = <<p[1], p[2]>>
    BY <1>2, <1>4 DEF TypeOK
  <2>2. CASE file[p[1]] = "open" /\ p[2] = 0
    BY <1>1, <1>2, <2>1, <2>2
  <2>3. ASSUME NEW e \in Device, IsOpenDevice(e), deviceHandle[e] = p[1], p[2] \in winusbHandles[e]
        PROVE  \E f \in Device: IsOpenDevice(f)' /\ deviceHandle'[f] = p[1] /\ p[2] \in winusbHandles'[f]
    <3>1. e # d
      BY <1>2, <1>4, <2>1, <2>3
    <3>. QED
      BY <2>3, <3>1 DEF Stays
  <2>. QED
    BY <2>1, <2>2, <2>3 DEF NothingLeaked
<1>. QED
  BY <1>2, <1>3, <1>4 DEF NothingLeaked

(* Opening and closing an interface keeps the handles and the array in step. *)
LEMMA InterfaceLeaks ==
    ASSUME TypeOK, OpenDevicesOwnHandles, NothingLeaked, NEW d \in Device, IsOpenDevice(d),
           InterfaceStep(d)
    PROVE  NothingLeaked'
<1>1. /\ UNCHANGED <<mem, isOpen, file, deviceHandle>>
      /\ \A e \in Device \ {d}: winusbHandles'[e] = winusbHandles[e]
      /\ \A e \in Device: IsOpenDevice(e)' <=> IsOpenDevice(e)
  BY DEF InterfaceStep, winusbOpenInterface, winusbCloseInterface, InterfaceCall, coreVars, IsOpenDevice, TypeOK
<1>2. PICK i \in Interface: winusbOpenInterface(d, i) \/ winusbCloseInterface(d, i)
  BY DEF InterfaceStep
<1>3. ASSUME NEW p \in intf'
      PROVE  \/ file'[p[1]] = "open" /\ p[2] = 0
             \/ \E e \in Device: IsOpenDevice(e)' /\ deviceHandle'[e] = p[1] /\ p[2] \in winusbHandles'[e]
  <2>1. CASE winusbOpenInterface(d, i)
    <3>1. /\ winusbHandles'[d] = winusbHandles[d] \cup {i}
          /\ intf' = intf \cup {<<deviceHandle[d], i>>}
      BY <2>1 DEF winusbOpenInterface, TypeOK
    <3>2. CASE p \in intf
      BY <1>1, <3>1, <3>2 DEF NothingLeaked
    <3>3. CASE p = <<deviceHandle[d], i>>
      BY <1>1, <3>1, <3>3
    <3>. QED
      BY <1>3, <3>1, <3>2, <3>3
  <2>2. CASE winusbCloseInterface(d, i)
    <3>1. /\ winusbHandles'[d] = winusbHandles[d] \ {i}
          /\ intf' = intf \ {<<deviceHandle[d], i>>}
      BY <2>2 DEF winusbCloseInterface, TypeOK
    <3>2. p \in intf /\ p # <<deviceHandle[d], i>> /\ p = <<p[1], p[2]>>
      BY <1>3, <3>1 DEF TypeOK
    <3>3. ASSUME NEW e \in Device, deviceHandle[e] = p[1], p[2] \in winusbHandles[e]
          PROVE  p[2] \in winusbHandles'[e]
      BY <1>1, <3>1, <3>2, <3>3
    <3>. QED
      BY <1>1, <3>2, <3>3 DEF NothingLeaked
  <2>. QED
    BY <1>2, <2>1, <2>2
<1>. QED
  BY <1>1, <1>3 DEF NothingLeaked

(* No step of a careful application leaks a file or an interface handle. *)
LEMMA NothingLeakedStep ==
    ASSUME CarefulApp, TypeOK, OpenDevicesOwnHandles, NothingLeaked, [Next]_vars
    PROVE  NothingLeaked'
<1>1. ASSUME NEW d \in Device, DeviceStep(d) PROVE NothingLeaked'
  <2>1. \A e \in Device \ {d}: IsOpenDevice(e) => Stays(e) /\ winusbHandles'[e] = winusbHandles[e]
    BY <1>1, OtherDevicesStay
  <2>2. CASE winusbClose(d)
    BY <2>1, <2>2, CloseLeaks
  <2>3. CASE InterfaceStep(d)
    <3>1. IsOpenDevice(d)
      BY <2>3 DEF InterfaceStep, winusbOpenInterface, winusbCloseInterface, InterfaceCall, IsOpenDevice
    <3>. QED
      BY <2>3, <3>1, InterfaceLeaks
  <2>4. CASE ~winusbClose(d) /\ ~InterfaceStep(d)
    <3>1. ~IsOpenDevice(d)
      BY <1>1, <2>4, OwnStep
    <3>2. ASSUME NEW h \in Handle, PortFails(d, h) PROVE NothingLeaked'
      BY <2>1, <3>1, <3>2, OpenedFileLeaks DEF PortFails
    <3>3. ASSUME NEW h \in Handle, OpenSucceeds(d, h) PROVE NothingLeaked'
      <4>1. IsOpenDevice(d)'
        BY <3>3 DEF OpenSucceeds, usbusOpen, IsOpenDevice, TypeOK, CoreTypeOK
      <4>. QED
        BY <2>1, <3>1, <3>3, <4>1, OpenedFileLeaks DEF OpenSucceeds
    <3>4. CASE \A h \in Handle: ~PortFails(d, h) /\ ~OpenSucceeds(d, h)
      <4>1. UNCHANGED <<file, intf>>
        BY <1>1, <2>4, <3>4 DEF DeviceStep, EnumerateDevice, SkipDevice, ClearDevice, Dispose, winVars,
                                winusbOpen, CreateFileFails, InitializeFails, InterfaceStep
      <4>. QED
        BY <2>1, <3>1, <4>1, SameFiles
    <3>. QED
      BY <3>2, <3>3, <3>4
  <2>. QED
    BY <2>2, <2>3, <2>4
<1>2. CASE \A d \in Device: ~DeviceStep(d)
  <2>1. UNCHANGED <<file, intf, winusbHandles>>
    BY <1>2 DEF Next, winusbListen, EnumerationEnds, AppKeepsDevice, ConnectedCallbackReturns, winusbProcessEvents,
                TransferCallbackReturns, IOCompletes, TransferStep, AllocateTransfer, ReleaseTransfer,
                SetTransferInfo, winusbSubmitTransfer, SubmitAccepted, SubmitRefused, winusbCancelTransfer,
                winVars, vars
  <2>2. \A d \in Device: ~winusbClose(d)
    BY <1>2 DEF DeviceStep
  <2>. QED
    BY <2>1, <2>2, OpenDevicesStay, SameFiles
<1>. QED
  BY <1>1, <1>2

-----------------------------------------------------------------------------
(* I/O that is pending.                                                      *)

(* I/O runs on the file and the endpoint of the open device that its         *)
(* transfer names.                                                           *)
RunsOnDevice(w) ==
    LET t == Info(wot[w]) IN
    /\ t.device \in Device
    /\ IsOpenDevice(t.device)
    /\ io[w].file = deviceHandle[t.device]
    /\ io[w].endpoint = t.endpoint

OwnIO == \A w \in Wot: io[w] # NULL => io[w].aborting \/ RunsOnDevice(w)

(* Between its start and its completion the request stays what it is: its    *)
(* cell keeps its transfer, and the transfer its fields.                     *)
LEMMA RequestStays ==
    ASSUME TypeOK, RequestInv, [Next]_vars, NEW w \in Wot, io[w] # NULL
    PROVE  wot'[w] = wot[w] /\ transfer'[wot[w]] = transfer[wot[w]]
<1>1. /\ InFlight(w) /\ ~Queued(w) /\ ~Reporting(w)
      /\ wot[w] \in Transfer /\ wot[w] # NULL /\ transfer[wot[w]] # NULL
  BY CoreAssumption DEF InFlight, RequestInv, WotOwnership, NoReleasedInFlight
<1>2. CASE winusbListen \/ EnumerationEnds \/ AppKeepsDevice \/ ConnectedCallbackReturns
  BY <1>2 DEF winusbListen, usbusListen, EnumerationEnds, ListenReturns, AppKeepsDevice, KeepDevice,
              ConnectedCallbackReturns, ConnectedReturns, winVars
<1>3. CASE winusbProcessEvents
  <2>1. Queued(Head(iocp).ov)
    BY <1>3, TakePacket DEF winusbProcessEvents, RequestInv
  <2>. QED
    BY <1>1, <1>3, <2>1 DEF winusbProcessEvents, usbusProcessEvents, TypeOK
<1>4. CASE TransferCallbackReturns
  <2>1. Last(frames).token # w
    BY <1>1, <1>4, WaitingTop, LenProperties
       DEF TransferCallbackReturns, TransferReturns, Reporting, TypeOK, CoreTypeOK
  <2>. QED
    BY <1>4, <2>1 DEF TransferCallbackReturns, TransferReturns, TypeOK
<1>5. ASSUME NEW v \in Wot, NEW result \in Result, IOCompletes(v, result)
      PROVE  wot' = wot /\ transfer' = transfer
  BY <1>5 DEF IOCompletes, coreVars
<1>6. ASSUME NEW d \in Device, DeviceStep(d) PROVE wot' = wot /\ transfer' = transfer
  BY <1>6 DEF DeviceStep, EnumerateDevice, dispatchConnectedDevice, SkipDevice, AllocateAndLose, ClearDevice,
              Dispose, usbusDispose, winusbOpen, CreateFileFails, InitializeFails, PortFails, OpenSucceeds,
              OpenedFile, usbusOpen, winusbClose, usbusClose, winusbOpenInterface, winusbCloseInterface,
              InterfaceCall, coreVars, winVars
<1>7. ASSUME NEW t \in Transfer, TransferStep(t)
      PROVE  wot'[w] = wot[w] /\ transfer'[wot[w]] = transfer[wot[w]]
  <2>1. CASE AllocateTransfer(t)
    BY <1>1, <2>1 DEF AllocateTransfer, usbusAllocateTransfer, winVars, TypeOK, CoreTypeOK
  <2>2. CASE ReleaseTransfer(t)
    BY <1>1, <2>2, NothingOwed DEF ReleaseTransfer, usbusReleaseTransfer, winVars, TypeOK, CoreTypeOK
  <2>3. CASE SetTransferInfo(t)
    BY <1>1, <2>3, NothingOwed DEF SetTransferInfo, usbusSetBulkTransferInfo, winVars, TypeOK, CoreTypeOK
  <2>4. ASSUME NEW v \in Wot, SubmitAccepted(t, v) \/ SubmitRefused(t, v)
        PROVE  wot'[w] = wot[w] /\ transfer' = transfer
    BY <1>1, <2>4 DEF SubmitAccepted, SubmitRefused, usbusSubmitTransfer, TypeOK
  <2>5. CASE winusbCancelTransfer(t)
    BY <2>5 DEF winusbCancelTransfer, usbusCancelTransfer, coreVars
  <2>. QED
    BY <1>7, <2>1, <2>2, <2>3, <2>4, <2>5 DEF TransferStep, winusbSubmitTransfer
<1>8. CASE UNCHANGED vars
  BY <1>8 DEF vars, coreVars, winVars
<1>. QED
  BY <1>2, <1>3, <1>4, <1>5, <1>6, <1>7, <1>8 DEF Next

(* I/O that was pending before a step and is after it has been canceled, or  *)
(* is the same, on a file that the step has not closed.                      *)
LEMMA IOStays ==
    ASSUME TypeOK, OpenDevicesOwnHandles, RequestInv, [Next]_vars,
           NEW w \in Wot, io[w] # NULL, io'[w] # NULL
    PROVE  \/ io'[w].aborting
           \/ /\ io'[w] = io[w]
              /\ \A d \in Device: winusbClose(d) => io[w].file # deviceHandle[d]
<1>0. ASSUME NEW T, io' = [v \in Wot |-> IF v \in T THEN [io[v] EXCEPT !.aborting = TRUE] ELSE io[v]]
      PROVE  IF w \in T THEN io'[w].aborting ELSE io'[w] = io[w]
  <2>1. io[w] \in Pending
    BY DEF TypeOK
  <2>. QED
    BY <1>0, <2>1 DEF Pending
<1>1. ASSUME NEW d \in Device, winusbClose(d)
      PROVE  io'[w].aborting \/ (io'[w] = io[w] /\ io[w].file # deviceHandle[d])
  <2>. DEFINE T == {v \in Wot: io[v] # NULL /\ io[v].file = deviceHandle[d]}
  <2>1. deviceHandle[d] # INVALID
    BY <1>1, WinUsbAssumption DEF winusbClose, usbusClose, IsOpenDevice, OpenDevicesOwnHandles
  <2>2. io' = [v \in Wot |-> IF v \in T THEN [io[v] EXCEPT !.aborting = TRUE] ELSE io[v]]
    BY <1>1, <2>1 DEF winusbClose, CloseHandle
  <2>3. IF w \in T THEN io'[w].aborting ELSE io'[w] = io[w]
    BY <1>0, <2>2
  <2>. QED
    BY <2>3
<1>2. ASSUME NEW d \in Device, NEW e \in Device, winusbClose(d), winusbClose(e)
      PROVE  d = e
  BY <1>2 DEF winusbClose, usbusClose, TypeOK, CoreTypeOK
<1>3. CASE \E d \in Device: winusbClose(d)
  BY <1>1, <1>2, <1>3
<1>4. CASE \A d \in Device: ~winusbClose(d)
  <2>1. ASSUME NEW t \in Transfer, winusbCancelTransfer(t)
        PROVE  io'[w].aborting \/ io'[w] = io[w]
    <3>. DEFINE T == {v \in Wot: /\ io[v] # NULL /\ io[v].file = deviceHandle[Info(t).device]
                                 /\ io[v].endpoint = Info(t).endpoint}
    <3>1. io' = [v \in Wot |-> IF v \in T THEN [io[v] EXCEPT !.aborting = TRUE] ELSE io[v]]
      BY <2>1 DEF winusbCancelTransfer
    <3>. QED
      BY <1>0, <3>1
  <2>2. ASSUME NEW t \in Transfer, NEW v \in Wot, SubmitAccepted(t, v)
        PROVE  io'[w] = io[w]
    <3>1. v # w
      BY <2>2 DEF SubmitAccepted, RequestInv, WotOwnership, InFlight
    <3>. QED
      BY <2>2, <3>1 DEF SubmitAccepted, StartIO, TypeOK
  <2>3. ASSUME NEW v \in Wot, NEW result \in Result, IOCompletes(v, result)
        PROVE  io'[w] = io[w]
    BY <2>3 DEF IOCompletes, TypeOK
  <2>4. CASE /\ \A t \in Transfer: ~winusbCancelTransfer(t) /\ \A v \in Wot: ~SubmitAccepted(t, v)
             /\ \A v \in Wot, result \in Result: ~IOCompletes(v, result)
    <3>1. io' = io
      BY <1>4, <2>4 DEF Next, winusbListen, EnumerationEnds, AppKeepsDevice, ConnectedCallbackReturns,
            winusbProcessEvents, TransferCallbackReturns, DeviceStep, EnumerateDevice, SkipDevice, ClearDevice,
            Dispose, winusbOpen, CreateFileFails, InitializeFails, PortFails, OpenSucceeds, OpenedFile,
            winusbOpenInterface, winusbCloseInterface, TransferStep, AllocateTransfer, ReleaseTransfer,
            SetTransferInfo, winusbSubmitTransfer, SubmitRefused, winVars, vars
    <3>. QED
      BY <1>4, <3>1
  <2>. QED
    BY <1>4, <2>1, <2>2, <2>3, <2>4
<1>. QED
  BY <1>3, <1>4

(* Every step of a careful application leaves pending I/O on its own device. *)
LEMMA OwnIOStep ==
    ASSUME CarefulApp, TypeOK, OpenDevicesOwnHandles, RequestInv, OwnIO, [Next]_vars
    PROVE  OwnIO'
<1>. SUFFICES ASSUME NEW w \in Wot, io'[w] # NULL
              PROVE  io'[w].aborting \/ RunsOnDevice(w)'
  BY DEF OwnIO
<1>1. CASE io[w] # NULL
  <2>1. CASE io'[w].aborting
    BY <2>1
  <2>2. CASE ~io'[w].aborting
    <3>1. /\ io'[w] = io[w]
          /\ \A e \in Device: winusbClose(e) => io[w].file # deviceHandle[e]
      BY <1>1, <2>2, IOStays
    <3>2. transfer'[wot'[w]] = transfer[wot[w]]
      BY <1>1, RequestStays
    <3>3. PICK d \in Device: /\ d = transfer[wot[w]].device /\ IsOpenDevice(d)
                            /\ io[w].file = deviceHandle[d]
                            /\ io[w].endpoint = transfer[wot[w]].endpoint
      BY <1>1, <2>2, <3>1 DEF OwnIO, RunsOnDevice, Info
    <3>4. IsOpenDevice(d)' /\ deviceHandle'[d] = deviceHandle[d]
      BY <3>1, <3>3, OpenDevicesStay DEF Stays
    <3>. QED
      BY <3>1, <3>2, <3>3, <3>4 DEF RunsOnDevice, Info, IsOpenDevice
  <2>. QED
    BY <2>1, <2>2
<1>2. CASE io[w] = NULL
  <2>1. PICK t \in Transfer, v \in Wot: SubmitAccepted(t, v)
    <3>. SUFFICES ASSUME \A t \in Transfer, v \in Wot: ~SubmitAccepted(t, v)
                  PROVE  io'[w] = NULL
      OBVIOUS
    <3>1. ASSUME NEW d \in Device, DeviceStep(d) PROVE io'[w] = NULL
      BY <1>2, <3>1, DeviceKeepsIO
    <3>2. ASSUME NEW t \in Transfer, TransferStep(t) PROVE io'[w] = NULL
      <4>1. CASE \E v \in Wot: SubmitRefused(t, v)
        BY <1>2, <4>1 DEF SubmitRefused
      <4>2. CASE AllocateTransfer(t) \/ ReleaseTransfer(t) \/ SetTransferInfo(t) \/ winusbCancelTransfer(t)
        BY <1>2, <4>2, TransferKeepsIO
      <4>. QED
        BY <3>2, <4>1, <4>2 DEF TransferStep, winusbSubmitTransfer
    <3>3. ASSUME NEW v \in Wot, NEW result \in Result, IOCompletes(v, result) PROVE io'[w] = NULL
      BY <1>2, <3>3 DEF IOCompletes, TypeOK
    <3>4. CASE \/ winusbListen \/ EnumerationEnds \/ AppKeepsDevice \/ ConnectedCallbackReturns
               \/ winusbProcessEvents \/ TransferCallbackReturns \/ UNCHANGED vars
      BY <1>2, <3>4 DEF winusbListen, EnumerationEnds, AppKeepsDevice, ConnectedCallbackReturns,
                        winusbProcessEvents, TransferCallbackReturns, winVars, vars
    <3>. QED
      BY <3>1, <3>2, <3>3, <3>4 DEF Next
  <2>2. v = w
    BY <1>2, <2>1, StartedIO
  <2>3. /\ transfer[t] \in TransferInfo /\ Info(t).device # NULL /\ IsOpenDevice(Info(t).device)
        /\ UNCHANGED <<mem, isOpen, deviceHandle, transfer>>
    BY <2>1 DEF SubmitAccepted, usbusSubmitTransfer, TransferCall, Info, IsOpenDevice, TypeOK, CoreTypeOK
  <2>4. Info(t).device \in Device
    BY <2>3 DEF TransferInfo, ClearedInfo, Info
  <2>5. wot'[w] = t
    BY <2>1, <2>2 DEF SubmitAccepted, TypeOK
  <2>6. io'[w].file = deviceHandle[Info(t).device] /\ io'[w].endpoint = Info(t).endpoint
    BY <2>1, <2>2 DEF SubmitAccepted, StartIO, TypeOK
  <2>. QED
    BY <2>3, <2>4, <2>5, <2>6 DEF RunsOnDevice, Info, IsOpenDevice
<1>. QED
  BY <1>1, <1>2

-----------------------------------------------------------------------------
(* Cells.                                                                    *)

HasOwner(w) == InFlight(w) \/ Reporting(w)

(* Who owns a cell owns it, hands it on, or frees it. *)
LEMMA CellsStep ==
    ASSUME Inv, [Next]_vars, NEW w \in Wot, HasOwner(w)
    PROVE  HasOwner(w)' \/ wot'[w] = NULL
<1>. USE DEF HasOwner
<1>0. TypeOK /\ OpenDevicesOwnHandles /\ RequestInv /\ WotOwnership /\ IOIsBound /\ FramesHoldTokens
  BY DEF Inv, RequestInv
<1>1. ASSUME UNCHANGED iocp,
             io'[w] = NULL => io[w] = NULL,
             Reporting(w) => Reporting(w)'
      PROVE  HasOwner(w)'
  BY <1>1 DEF InFlight, Queued
<1>2. CASE winusbListen \/ EnumerationEnds \/ AppKeepsDevice \/ ConnectedCallbackReturns
  <2>1. Reporting(w)' <=> Reporting(w)
    BY <1>0, <1>2, ListeningFrames
  <2>. QED
    BY <1>1, <1>2, <2>1 DEF winusbListen, EnumerationEnds, AppKeepsDevice, ConnectedCallbackReturns, winVars
<1>3. CASE winusbProcessEvents
  <2>1. PICK v \in Wot, st \in Status:
          /\ v = Head(iocp).ov /\ iocp # <<>> /\ iocp' = Tail(iocp) /\ UNCHANGED io
          /\ wot' = IF Info(wot[v]).callback THEN wot ELSE [wot EXCEPT ![v] = NULL]
          /\ frames' = IF Info(wot[v]).callback THEN Append(frames, TransferFrame(v, st)) ELSE frames
    BY <1>0, <1>3, HeadPacket DEF winusbProcessEvents, usbusProcessEvents
  <2>3. \A u \in Wot: Queued(u)' <=> Queued(u) /\ u # v
    BY <1>0, <2>1, TakePacket
  <2>4. CASE Info(wot[v]).callback
    <3>1. /\ Len(frames') = Len(frames) + 1 /\ Len(frames) \in Nat
          /\ DOMAIN frames = 1..Len(frames) /\ DOMAIN frames' = 1..Len(frames')
          /\ \A i \in 1..Len(frames): frames'[i] = frames[i]
          /\ frames'[Len(frames) + 1] = TransferFrame(v, st)
      <4>1. frames \in Seq(Frame) /\ TransferFrame(v, st) \in Frame
        BY <1>0, FrameTypes DEF TypeOK, CoreTypeOK
      <4>. QED
        BY <2>1, <2>4, <4>1, AppendProperties, LenProperties
    <3>2. Reporting(v)' /\ (Reporting(w) => Reporting(w)')
      BY <3>1 DEF Reporting, TransferFrame, NewFrame
    <3>. QED
      BY <2>1, <2>3, <3>2 DEF InFlight
  <2>5. CASE ~Info(wot[v]).callback
    <3>1. wot'[v] = NULL /\ frames' = frames
      BY <1>0, <2>1, <2>5 DEF TypeOK
    <3>. QED
      BY <2>1, <2>3, <3>1 DEF InFlight, Reporting
  <2>. QED
    BY <2>4, <2>5
<1>4. CASE TransferCallbackReturns
  <2>1. /\ frames' = Front(frames) /\ Len(frames) > 0 /\ Len(frames) \in Nat
        /\ Last(frames) = frames[Len(frames)] /\ Last(frames).kind = "transfer"
        /\ wot' = [wot EXCEPT ![Last(frames).token] = NULL]
        /\ UNCHANGED <<io, iocp>>
    BY <1>0, <1>4, WaitingTop DEF TransferCallbackReturns, TransferReturns
  <2>2. /\ DOMAIN frames = 1..Len(frames) /\ DOMAIN frames' = 1..Len(frames) - 1
        /\ \A i \in DOMAIN frames': frames'[i] = frames[i]
    BY <1>0, <2>1, PopFrame
  <2>3. CASE Last(frames).token = w
    BY <1>0, <2>1, <2>3 DEF TypeOK
  <2>4. CASE Last(frames).token # w
    <3>1. \A i \in DOMAIN frames: i # Len(frames) => i \in DOMAIN frames'
      BY <2>1, <2>2
    <3>2. Reporting(w) => Reporting(w)'
      BY <2>1, <2>2, <2>4, <3>1 DEF Reporting
    <3>. QED
      BY <1>1, <2>1, <3>2
  <2>. QED
    BY <2>3, <2>4
<1>5. ASSUME NEW v \in Wot, NEW result \in Result, IOCompletes(v, result)
      PROVE  HasOwner(w)'
  <2>. DEFINE p == [ov |-> v, result |-> result]
  <2>1. p \in Packet /\ p.ov = v /\ io[v] # NULL /\ io[v].bound /\ ~Queued(v)
    BY <1>0, <1>5 DEF IOCompletes, IOIsBound, WotOwnership, Packet
  <2>2. iocp' = Append(iocp, p) /\ io' = [io EXCEPT ![v] = NULL] /\ UNCHANGED frames
    BY <1>5, <2>1 DEF IOCompletes, coreVars
  <2>. HIDE DEF p
  <2>3. \A u \in Wot: Queued(u)' <=> Queued(u) \/ u = v
    BY <1>0, <2>1, <2>2, QueuePacket
  <2>. QED
    BY <1>0, <2>2, <2>3 DEF InFlight, Reporting, TypeOK
<1>6. ASSUME NEW d \in Device, DeviceStep(d)
      PROVE  HasOwner(w)'
  <2>1. UNCHANGED iocp /\ (UNCHANGED frames \/ EnumerateDevice(d))
    BY <1>6 DEF DeviceStep, EnumerateDevice, SkipDevice, AllocateAndLose, ClearDevice, Dispose, usbusDispose,
           winusbOpen, CreateFileFails, InitializeFails, PortFails, OpenSucceeds, OpenedFile, usbusOpen,
           winusbClose, usbusClose, winusbOpenInterface, winusbCloseInterface, InterfaceCall, winVars, coreVars
  <2>2. Reporting(w)' <=> Reporting(w)
    BY <1>0, <2>1, ListeningFrames DEF Reporting
  <2>. QED
    BY <1>0, <1>1, <1>6, <2>1, <2>2, DeviceKeepsIO
<1>7. ASSUME NEW t \in Transfer, TransferStep(t)
      PROVE  HasOwner(w)'
  <2>1. UNCHANGED <<iocp, frames>>
    BY <1>7 DEF TransferStep, AllocateTransfer, ReleaseTransfer, SetTransferInfo, usbusAllocateTransfer,
                usbusReleaseTransfer, usbusSetBulkTransferInfo, winusbSubmitTransfer, SubmitAccepted,
                SubmitRefused, usbusSubmitTransfer, winusbCancelTransfer, usbusCancelTransfer, coreVars, winVars
  <2>2. io'[w] = NULL => io[w] = NULL
    <3>1. ASSUME NEW v \in Wot, SubmitAccepted(t, v) PROVE io'[w] = NULL => io[w] = NULL
      BY <1>0, <3>1, StartedIO
    <3>2. ASSUME NEW v \in Wot, SubmitRefused(t, v) PROVE io'[w] = io[w]
      BY <3>2 DEF SubmitRefused
    <3>. QED
      BY <1>0, <1>7, <3>1, <3>2, TransferKeepsIO DEF TransferStep, winusbSubmitTransfer
  <2>. QED
    BY <1>1, <2>1, <2>2 DEF Reporting
<1>8. CASE UNCHANGED vars
  BY <1>1, <1>8 DEF vars, coreVars, winVars, Reporting
<1>. QED
  BY <1>2, <1>3, <1>4, <1>5, <1>6, <1>7, <1>8 DEF Next

-----------------------------------------------------------------------------
(* The theorems.                                                             *)

(* If the application closes a device before it disposes it, or lets it be   *)
(* disposed, every file and every interface handle belongs to a device that  *)
(* is open, except what a failing completion port leaves.                    *)
THEOREM NothingIsLeaked == CarefulApp => (Spec => []NothingLeaked)
<1>. SUFFICES ASSUME CarefulApp PROVE Spec => []NothingLeaked
  OBVIOUS
<1>1. Init => NothingLeaked
  BY DEF Init, NothingLeaked
<1>2. Inv /\ NothingLeaked /\ [Next]_vars => NothingLeaked'
  BY NothingLeakedStep DEF Inv
<1>. QED
  BY <1>1, <1>2, Invariance, PTL DEF Spec

(* A device that is open stays so, on the same file, until it is closed.     *)
THEOREM OpenDevicesUndisturbed == CarefulApp => (Spec => OpenDeviceUndisturbed)
<1>. SUFFICES ASSUME CarefulApp PROVE Spec => OpenDeviceUndisturbed
  OBVIOUS
<1>1. ASSUME Inv, Inv', [Next]_vars, NEW d \in Device, IsOpenDevice(d), ~usbusClose(d)
      PROVE  /\ IsOpenDevice(d)'
             /\ deviceHandle'[d] = deviceHandle[d]
             /\ file'[deviceHandle[d]] = "bound"
  <2>1. ~winusbClose(d)
    BY <1>1 DEF winusbClose
  <2>2. IsOpenDevice(d)' /\ deviceHandle'[d] = deviceHandle[d]
    BY <1>1, <2>1, OpenDevicesStay DEF Inv, Stays
  <2>. QED
    BY <1>1, <2>2 DEF Inv, OpenDevicesOwnHandles, IsOpenDevice
<1>2. Inv /\ Inv' /\ [Next]_vars =>
        [\A d \in Device: IsOpenDevice(d) =>
            \/ usbusClose(d)
            \/ /\ IsOpenDevice(d)'
               /\ deviceHandle'[d] = deviceHandle[d]
               /\ file'[deviceHandle[d]] = "bound"]_vars
  BY <1>1
<1>. QED
  BY <1>2, Invariance, PTL DEF Spec, OpenDeviceUndisturbed

(* I/O that is pending runs on the file and the endpoint of an open device,  *)
(* the one its transfer names, or has been canceled.                         *)
THEOREM IORunsOnOwnDevice == CarefulApp => (Spec => []IOOnOwnDevice)
<1>. SUFFICES ASSUME CarefulApp PROVE Spec => []IOOnOwnDevice
  OBVIOUS
<1>1. Init => OwnIO
  BY DEF Init, OwnIO
<1>2. Inv /\ OwnIO /\ [Next]_vars => OwnIO'
  BY OwnIOStep DEF Inv
<1>3. Inv /\ OwnIO => IOOnOwnDevice
  BY DEF Inv, RequestInv, IOIsBound, OwnIO, RunsOnDevice, IOOnOwnDevice
<1>. QED
  BY <1>1, <1>2, <1>3, Invariance, PTL DEF Spec

(* A cell that the kernel took is handed on until it is freed. *)
THEOREM CellsAreFreed == Spec => AcceptedCellsAreFreed
<1>1. Inv /\ [Next]_vars =>
        [\A w \in Wot: InFlight(w) \/ Reporting(w)
            => (InFlight(w) \/ Reporting(w))' \/ wot'[w] = NULL]_vars
  BY CellsStep DEF HasOwner
<1>. QED
  BY <1>1, Invariance, PTL DEF Spec, AcceptedCellsAreFreed

-----------------------------------------------------------------------------
(* Steps that the contract does not tell apart from opening and closing.     *)

(* Nothing is submitted, completed or reported: the contract sees at most    *)
(* devices open or close.                                                    *)
LEMMA RequestsUntouched ==
    ASSUME UNCHANGED transfer,
           \A w \in Wot: /\ Reporting(w)' <=> Reporting(w)
                         /\ InFlight(w)' <=> InFlight(w)
                         /\ Reporting(w) \/ InFlight(w) => wot'[w] = wot[w]
    PROVE  Contract!Next
<1>1. PhaseOf' = PhaseOf
  BY DEF PhaseOf
<1>2. SubjectOf' = SubjectOf
  BY DEF SubjectOf
<1>3. OpenDevices' \in SUBSET Device
  BY DEF OpenDevices
<1>4. Contract!OpenOrClose
  BY <1>1, <1>2, <1>3 DEF Contract!OpenOrClose
<1>. QED
  BY <1>4 DEF Contract!Next

(* The same for steps that move no request and change no frame. *)
LEMMA OwnersUntouched ==
    ASSUME UNCHANGED <<wot, iocp, transfer, frames>>,
           \A w \in Wot: io'[w] = NULL <=> io[w] = NULL
    PROVE  Contract!Next
<1>1. \A w \in Wot: /\ Reporting(w)' <=> Reporting(w)
                    /\ InFlight(w)' <=> InFlight(w)
  BY DEF Reporting, InFlight, Queued
<1>. QED
  BY <1>1, RequestsUntouched

(* Calls about devices, and listening. *)
LEMMA DeviceStepsAllowed ==
    ASSUME Inv,
           \/ winusbListen \/ EnumerationEnds \/ AppKeepsDevice \/ ConnectedCallbackReturns
           \/ \E d \in Device: DeviceStep(d)
    PROVE  Contract!Next
<1>1. UNCHANGED <<wot, iocp, transfer>>
  BY DEF winusbListen, usbusListen, EnumerationEnds, ListenReturns, AppKeepsDevice, KeepDevice,
         ConnectedCallbackReturns, ConnectedReturns,
         DeviceStep, EnumerateDevice, dispatchConnectedDevice, SkipDevice, AllocateAndLose, ClearDevice,
         Dispose, usbusDispose, winusbOpen, CreateFileFails, InitializeFails, PortFails, OpenSucceeds,
         OpenedFile, usbusOpen, winusbClose, usbusClose, winusbOpenInterface, winusbCloseInterface,
         InterfaceCall, winVars, coreVars
<1>2. \A w \in Wot: io'[w] = NULL <=> io[w] = NULL
  <2>1. CASE \E d \in Device: DeviceStep(d)
    BY <2>1, DeviceKeepsIO DEF Inv
  <2>2. CASE winusbListen \/ EnumerationEnds \/ AppKeepsDevice \/ ConnectedCallbackReturns
    BY <2>2 DEF winusbListen, EnumerationEnds, AppKeepsDevice, ConnectedCallbackReturns, winVars
  <2>. QED
    BY <2>1, <2>2
<1>3. \A w \in Wot: Reporting(w)' <=> Reporting(w)
  <2>1. \/ UNCHANGED frames
        \/ winusbListen \/ EnumerationEnds \/ AppKeepsDevice \/ ConnectedCallbackReturns
        \/ \E d \in Device: EnumerateDevice(d)
    BY DEF DeviceStep, SkipDevice, AllocateAndLose, Dispose, usbusDispose, winusbOpen, CreateFileFails,
           InitializeFails, PortFails, OpenSucceeds, usbusOpen, winusbClose, usbusClose,
           winusbOpenInterface, winusbCloseInterface, InterfaceCall, coreVars
  <2>. QED
    BY <2>1, ListeningFrames DEF Inv, Reporting
<1>4. \A w \in Wot: InFlight(w)' <=> InFlight(w)
  BY <1>1, <1>2 DEF InFlight, Queued
<1>. QED
  BY <1>1, <1>3, <1>4, RequestsUntouched

(* The application prepares a transfer only while none of its requests is    *)
(* outstanding.                                                              *)
LEMMA PreparingAllowed ==
    ASSUME Inv, NEW t \in Transfer, AllocateTransfer(t) \/ ReleaseTransfer(t) \/ SetTransferInfo(t)
    PROVE  Contract!Next
<1>1. /\ UNCHANGED <<mem, isOpen, wot, io, iocp, frames>>
      /\ \A u \in Transfer \ {t}: transfer'[u] = transfer[u]
  BY DEF AllocateTransfer, usbusAllocateTransfer, ReleaseTransfer, usbusReleaseTransfer, SetTransferInfo,
         usbusSetBulkTransferInfo, winVars, Inv, TypeOK, CoreTypeOK
<1>2. UNCHANGED <<OpenDevices, PhaseOf, SubjectOf>>
  BY <1>1 DEF OpenDevices, IsOpenDevice, PhaseOf, SubjectOf, Reporting, InFlight, Queued
<1>3. \A w \in Wot: InFlight(w) => wot[w] # t
  <2>1. CASE transfer[t] = NULL
    BY <2>1 DEF Inv, RequestInv, NoReleasedInFlight
  <2>2. CASE owed[t] = 0
    BY <2>2, NothingOwed DEF Inv
  <2>. QED
    BY <2>1, <2>2 DEF AllocateTransfer, usbusAllocateTransfer, ReleaseTransfer, usbusReleaseTransfer,
                      SetTransferInfo, usbusSetBulkTransferInfo
<1>4. Contract!Outstanding(t) = {}
  BY <1>3 DEF Contract!Outstanding, PhaseOf, SubjectOf
<1>5. Contract!Prepare(t)
  BY <1>1, <1>2, <1>4 DEF Contract!Prepare
<1>. QED
  BY <1>5 DEF Contract!Next

(* Canceling changes only what the kernel will say of the I/O. *)
LEMMA CancelAllowed ==
    ASSUME Inv, NEW t \in Transfer, winusbCancelTransfer(t)
    PROVE  Contract!Next
<1>1. UNCHANGED <<wot, iocp, transfer, frames>>
  BY DEF winusbCancelTransfer, usbusCancelTransfer, coreVars
<1>2. \A w \in Wot: io'[w] = NULL <=> io[w] = NULL
  BY TransferKeepsIO DEF Inv
<1>. QED
  BY <1>1, <1>2, OwnersUntouched

(* A refused request takes a cell the contract sees as idle, and sees as     *)
(* idle still.                                                               *)
LEMMA RefusalAllowed ==
    ASSUME Inv, NEW t \in Transfer, NEW w \in Wot, SubmitRefused(t, w)
    PROVE  Contract!Next
<1>1. /\ wot[w] = NULL /\ ~InFlight(w) /\ ~Reporting(w)
      /\ UNCHANGED <<io, iocp, frames, transfer>>
  BY DEF SubmitRefused, usbusSubmitTransfer, Inv, RequestInv, WotOwnership
<1>2. \A v \in Wot \ {w}: wot'[v] = wot[v]
  BY DEF SubmitRefused, Inv, TypeOK
<1>3. \A v \in Wot: /\ InFlight(v)' <=> InFlight(v)
                    /\ Reporting(v)' <=> Reporting(v)
  BY <1>1 DEF Queued, InFlight, Reporting
<1>. QED
  BY <1>1, <1>2, <1>3, RequestsUntouched

(* The kernel moves a request to the completion port: still outstanding.     *)
LEMMA CompletionAllowed ==
    ASSUME Inv, NEW w \in Wot, NEW result \in Result, IOCompletes(w, result)
    PROVE  Contract!Next
<1>. DEFINE p == [ov |-> w, result |-> result]
<1>1. /\ io[w] # NULL /\ io[w].bound
      /\ io' = [io EXCEPT ![w] = NULL]
      /\ iocp' = Append(iocp, p)
      /\ UNCHANGED <<wot, frames, transfer>>
  BY DEF IOCompletes, coreVars, Inv, RequestInv, IOIsBound
<1>2. p \in Packet /\ p.ov = w /\ ~Queued(w)
  BY <1>1 DEF Packet, Inv, RequestInv, WotOwnership
<1>. HIDE DEF p
<1>3. \A v \in Wot: Queued(v)' <=> Queued(v) \/ v = w
  BY <1>1, <1>2, QueuePacket DEF Inv, RequestInv
<1>4. io'[w] = NULL /\ \A v \in Wot \ {w}: io'[v] = io[v]
  BY <1>1 DEF Inv, TypeOK
<1>5. \A v \in Wot: /\ InFlight(v)' <=> InFlight(v)
                    /\ Reporting(v)' <=> Reporting(v)
  BY <1>1, <1>3, <1>4 DEF InFlight, Reporting
<1>. QED
  BY <1>1, <1>5, RequestsUntouched

-----------------------------------------------------------------------------
(* Steps that move one request.                                              *)

(* How the phases and subjects change when only those of w do. *)
LEMMA OneRequestMoves ==
    ASSUME NEW w \in Wot, NEW p, NEW s,
           PhaseOf'[w] = p, SubjectOf'[w] = s,
           \A v \in Wot \ {w}: /\ Reporting(v)' <=> Reporting(v)
                               /\ InFlight(v)' <=> InFlight(v)
                               /\ wot'[v] = wot[v]
    PROVE  /\ PhaseOf' = [PhaseOf EXCEPT ![w] = p]
           /\ SubjectOf' = [SubjectOf EXCEPT ![w] = s]
<1>1. \A v \in Wot \ {w}: PhaseOf'[v] = PhaseOf[v] /\ SubjectOf'[v] = SubjectOf[v]
  BY DEF PhaseOf, SubjectOf
<1>. QED
  BY <1>1 DEF PhaseOf, SubjectOf

(* An accepted request was idle and is outstanding. *)
LEMMA AcceptAllowed ==
    ASSUME Inv, NEW t \in Transfer, NEW w \in Wot, SubmitAccepted(t, w)
    PROVE  Contract!Next
<1>1. /\ wot[w] = NULL /\ ~InFlight(w) /\ ~Reporting(w)
      /\ UNCHANGED <<mem, isOpen, iocp, frames, transfer>>
      /\ wot' = [wot EXCEPT ![w] = t]
      /\ transfer[t] # NULL /\ transfer[t].device # NULL /\ IsOpenDevice(transfer[t].device)
  BY DEF SubmitAccepted, usbusSubmitTransfer, TransferCall, Info, IsOpenDevice, Inv, RequestInv, WotOwnership
<1>2. transfer[t].device \in Device
  BY <1>1 DEF Inv, TypeOK, CoreTypeOK, TransferInfo, ClearedInfo
<1>3. wot'[w] = t /\ \A v \in Wot \ {w}: wot'[v] = wot[v]
  BY <1>1 DEF Inv, TypeOK
<1>4. \A v \in Wot \ {w}: io'[v] = io[v]
  BY DEF SubmitAccepted, StartIO, Inv, TypeOK
<1>5. InFlight(w)' /\ ~Reporting(w)'
  <2>1. RequestInv' /\ io'[w] # NULL
    BY <1>1, SubmitAcceptedStep, StartedIO DEF Inv
  <2>. QED
    BY <1>1, <2>1 DEF InFlight, Reporting
<1>6. \A v \in Wot \ {w}: /\ InFlight(v)' <=> InFlight(v)
                          /\ Reporting(v)' <=> Reporting(v)
  BY <1>1, <1>4 DEF Queued, InFlight, Reporting
<1>7. PhaseOf'[w] = "outstanding" /\ SubjectOf'[w] = t /\ PhaseOf[w] = "idle"
  BY <1>1, <1>3, <1>5 DEF PhaseOf, SubjectOf
<1>8. /\ PhaseOf' = [PhaseOf EXCEPT ![w] = "outstanding"]
      /\ SubjectOf' = [SubjectOf EXCEPT ![w] = t]
  BY <1>3, <1>6, <1>7, OneRequestMoves
<1>9. Contract!Accept(w, t)
  BY <1>1, <1>2, <1>7, <1>8 DEF Contract!Accept, OpenDevices, IsOpenDevice
<1>. QED
  BY <1>9 DEF Contract!Next

(* Calling a transfer back makes its request, and no other, reported.        *)
LEMMA PushTransfer ==
    ASSUME TypeOK, NEW w \in Wot, NEW st \in Status, frames' = Append(frames, TransferFrame(w, st))
    PROVE  \A v \in Wot: Reporting(v)' <=> Reporting(v) \/ v = w
<1>. DEFINE f == TransferFrame(w, st)
<1>1. f \in Frame /\ f.kind = "transfer" /\ f.token = w /\ frames' = Append(frames, f)
  BY FrameTypes DEF TransferFrame, NewFrame
<1>. HIDE DEF f
<1>2. frames \in Seq(Frame) /\ frames' \in Seq(Frame)
  BY <1>1, AppendProperties DEF TypeOK, CoreTypeOK
<1>3. /\ Len(frames') = Len(frames) + 1
      /\ \A i \in 1..Len(frames): frames'[i] = frames[i]
      /\ frames'[Len(frames) + 1] = f
  BY <1>1, <1>2, AppendProperties
<1>4. DOMAIN frames = 1..Len(frames) /\ DOMAIN frames' = 1..Len(frames') /\ Len(frames) \in Nat
  BY <1>2, LenProperties
<1>. QED
  BY <1>1, <1>3, <1>4 DEF Reporting

(* winusbProcessEvents() takes an outstanding request from the port: it is   *)
(* reported, or finished at once if its transfer has no callback.            *)
LEMMA ReportAllowed ==
    ASSUME Inv, winusbProcessEvents
    PROVE  Contract!Next
<1>1. PICK w \in Wot, t \in Transfer, st \in Status:
        /\ w = Head(iocp).ov /\ t = wot[w]
        /\ iocp # <<>> /\ iocp' = Tail(iocp)
        /\ UNCHANGED <<mem, isOpen, transfer, io>>
        /\ wot' = IF Info(t).callback THEN wot ELSE [wot EXCEPT ![w] = NULL]
        /\ frames' = IF Info(t).callback THEN Append(frames, TransferFrame(w, st)) ELSE frames
  <2>1. iocp # <<>>
    BY DEF winusbProcessEvents
  <2>2. Head(iocp).ov \in Wot /\ StatusOf(Head(iocp).result) \in Status
    BY <2>1, HeadPacket DEF Inv
  <2>3. wot[Head(iocp).ov] \in Transfer
    BY <2>1, QueuedIsOwed DEF HeadOwed, Inv
  <2>. QED
    BY <2>1, <2>2, <2>3 DEF winusbProcessEvents, usbusProcessEvents
<1>2. /\ Queued(w) /\ ~Queued(w)'
      /\ \A v \in Wot \ {w}: Queued(v)' <=> Queued(v)
  BY <1>1, TakePacket DEF Inv, RequestInv
<1>3. io[w] = NULL /\ ~Reporting(w)
  BY <1>2 DEF Inv, RequestInv, WotOwnership
<1>4. /\ InFlight(w) /\ ~InFlight(w)'
      /\ \A v \in Wot \ {w}: InFlight(v)' <=> InFlight(v)
  BY <1>1, <1>2, <1>3 DEF InFlight
<1>5. PhaseOf[w] = "outstanding" /\ SubjectOf[w] = t
  BY <1>1, <1>3, <1>4 DEF PhaseOf, SubjectOf
<1>6. \A v \in Wot \ {w}: wot'[v] = wot[v]
  BY <1>1 DEF Inv, TypeOK
<1>7. UNCHANGED OpenDevices
  BY <1>1 DEF OpenDevices, IsOpenDevice
<1>8. CASE Info(t).callback
  <2>1. \A v \in Wot: Reporting(v)' <=> Reporting(v) \/ v = w
    BY <1>1, <1>8, PushTransfer DEF Inv
  <2>2. PhaseOf'[w] = "reporting" /\ SubjectOf'[w] = t
    BY <1>1, <1>8, <2>1 DEF PhaseOf, SubjectOf
  <2>3. PhaseOf' = [PhaseOf EXCEPT ![w] = "reporting"] /\ SubjectOf' = [SubjectOf EXCEPT ![w] = t]
    BY <1>4, <1>6, <2>1, <2>2, OneRequestMoves
  <2>4. SubjectOf' = SubjectOf
    BY <1>5, <2>3 DEF SubjectOf
  <2>5. Contract!Report(w)
    BY <1>1, <1>5, <1>7, <1>8, <2>3, <2>4 DEF Contract!Report, Info
  <2>. QED
    BY <2>5 DEF Contract!Next
<1>9. CASE ~Info(t).callback
  <2>1. \A v \in Wot: Reporting(v)' <=> Reporting(v)
    BY <1>1, <1>9 DEF Reporting
  <2>2. PhaseOf'[w] = "idle" /\ SubjectOf'[w] = NULL
    BY <1>3, <1>4, <2>1 DEF PhaseOf, SubjectOf
  <2>3. PhaseOf' = [PhaseOf EXCEPT ![w] = "idle"] /\ SubjectOf' = [SubjectOf EXCEPT ![w] = NULL]
    BY <1>4, <1>6, <2>1, <2>2, OneRequestMoves
  <2>4. Contract!Finish(w)
    BY <1>1, <1>5, <1>7, <1>9, <2>3 DEF Contract!Finish, Info
  <2>. QED
    BY <2>4 DEF Contract!Next
<1>. QED
  BY <1>8, <1>9

(* When the callback returns, the request whose frame is on top is finished. *)
LEMMA FinishAllowed ==
    ASSUME Inv, TransferCallbackReturns
    PROVE  Contract!Next
<1>0. TypeOK /\ RequestInv
  BY DEF Inv
<1>1. /\ frames' = Front(frames) /\ Len(frames) > 0 /\ Len(frames) \in Nat
      /\ Last(frames) = frames[Len(frames)] /\ Last(frames).kind = "transfer"
      /\ wot' = [wot EXCEPT ![Last(frames).token] = NULL]
      /\ UNCHANGED <<io, iocp, transfer, mem, isOpen>>
  BY <1>0, WaitingTop DEF TransferCallbackReturns, TransferReturns
<1>2. /\ DOMAIN frames = 1..Len(frames) /\ DOMAIN frames' = 1..Len(frames) - 1
      /\ \A i \in DOMAIN frames': frames'[i] = frames[i]
  BY <1>0, <1>1, PopFrame
<1>3. Len(frames) \in DOMAIN frames
  BY <1>1, <1>2
<1>4. PICK w \in Wot: w = Last(frames).token /\ Reporting(w)
  BY <1>0, <1>1, <1>3 DEF RequestInv, FramesHoldTokens, Reporting
<1>5. ~InFlight(w)
  BY <1>0, <1>4 DEF RequestInv, WotOwnership, InFlight
<1>6. \A v \in Wot: InFlight(v)' <=> InFlight(v)
  BY <1>1 DEF InFlight, Queued
<1>7. ~Reporting(w)' /\ \A v \in Wot \ {w}: Reporting(v)' <=> Reporting(v)
  <2>1. \A i \in DOMAIN frames: i \in DOMAIN frames' <=> i # Len(frames)
    BY <1>1, <1>2
  <2>2. DOMAIN frames' \subseteq DOMAIN frames
    BY <1>1, <1>2
  <2>3. ~Reporting(w)'
    BY <1>0, <1>1, <1>2, <1>3, <1>4, <2>1, <2>2 DEF Reporting, RequestInv, WotOwnership
  <2>4. \A v \in Wot \ {w}: Reporting(v)' <=> Reporting(v)
    BY <1>1, <1>2, <1>4, <2>1, <2>2 DEF Reporting
  <2>. QED
    BY <2>3, <2>4
<1>8. \A v \in Wot \ {w}: wot'[v] = wot[v]
  BY <1>0, <1>1, <1>4 DEF TypeOK
<1>9. PhaseOf[w] = "reporting" /\ PhaseOf'[w] = "idle" /\ SubjectOf'[w] = NULL
  BY <1>4, <1>5, <1>6, <1>7 DEF PhaseOf, SubjectOf
<1>10. PhaseOf' = [PhaseOf EXCEPT ![w] = "idle"] /\ SubjectOf' = [SubjectOf EXCEPT ![w] = NULL]
  BY <1>6, <1>7, <1>8, <1>9, OneRequestMoves
<1>11. Contract!Finish(w)
  BY <1>1, <1>9, <1>10 DEF Contract!Finish, OpenDevices, IsOpenDevice
<1>. QED
  BY <1>11 DEF Contract!Next

-----------------------------------------------------------------------------
(* The theorem.                                                              *)

(* The library starts in the contract's initial state. *)
LEMMA InitAllowed == Init => Contract!Init
<1>. SUFFICES ASSUME Init PROVE Contract!Init
  OBVIOUS
<1>1. \A w \in Wot: ~InFlight(w) /\ ~Reporting(w)
  BY DEF Init, CoreInit, InFlight, Reporting, Queued
<1>2. OpenDevices = {}
  BY DEF Init, CoreInit, OpenDevices, IsOpenDevice
<1>3. PhaseOf = [w \in Wot |-> "idle"] /\ SubjectOf = [w \in Wot |-> NULL]
  BY <1>1 DEF PhaseOf, SubjectOf
<1>. QED
  BY <1>2, <1>3 DEF Contract!Init, Init, CoreInit

(* Every step of the library is one of the contract, or a stutter. *)
LEMMA NextAllowed == Inv /\ [Next]_vars => [Contract!Next]_(Contract!vars)
<1>. SUFFICES ASSUME Inv, [Next]_vars PROVE [Contract!Next]_(Contract!vars)
  OBVIOUS
<1>1. CASE winusbListen \/ EnumerationEnds \/ AppKeepsDevice \/ ConnectedCallbackReturns
  BY <1>1, DeviceStepsAllowed
<1>2. CASE \E d \in Device: DeviceStep(d)
  BY <1>2, DeviceStepsAllowed
<1>3. ASSUME NEW t \in Transfer, TransferStep(t) PROVE Contract!Next
  <2>1. ASSUME NEW w \in Wot, SubmitAccepted(t, w) \/ SubmitRefused(t, w) PROVE Contract!Next
    BY <1>3, <2>1, AcceptAllowed, RefusalAllowed
  <2>. QED
    BY <1>3, <2>1, CancelAllowed, PreparingAllowed DEF TransferStep, winusbSubmitTransfer
<1>4. CASE winusbProcessEvents
  BY <1>4, ReportAllowed
<1>5. CASE TransferCallbackReturns
  BY <1>5, FinishAllowed
<1>6. ASSUME NEW w \in Wot, NEW result \in Result, IOCompletes(w, result) PROVE Contract!Next
  BY <1>6, CompletionAllowed
<1>7. CASE UNCHANGED vars
  BY <1>7 DEF vars, coreVars, winVars, Contract!vars, OpenDevices, IsOpenDevice, PhaseOf, SubjectOf,
              Reporting, InFlight, Queued
<1>. QED
  BY <1>1, <1>2, <1>3, <1>4, <1>5, <1>6, <1>7 DEF Next

(* Asynchronous I/O on Windows keeps the contract: a request is accepted     *)
(* only for an open device, stays outstanding while devices are closed,      *)
(* reopened and disposed, and is reported exactly once, to its own transfer. *)
THEOREM KeepsContract == Spec => ImplementsContract
<1>1. Init => Contract!Init
  BY InitAllowed
<1>2. Inv /\ [Next]_vars => [Contract!Next]_(Contract!vars)
  BY NextAllowed
<1>. QED
  BY <1>1, <1>2, Invariance, PTL DEF Spec, ImplementsContract, Contract!Spec
=============================================================================
