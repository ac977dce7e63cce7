-------------------------- MODULE IOKitDeviceProofs --------------------------
(* Theorems about IOKit under the rules the code needs: what an open device  *)
(* holds, what its requests run on, and which calls are lost; and, under     *)
(* such rules or with one device, that asynchronous I/O is what              *)
(* TransferContract says.                                                    *)
EXTENDS IOKitProofs, WellFoundedInduction

(* The application uses devices, interfaces and endpoints in the order the   *)
(* code needs, and closes a device before it is disposed.  Most theorems     *)
(* need the first of the two only, which is Disciplined.                     *)
Rules == CarefulApp /\ Disciplined

-----------------------------------------------------------------------------
(* Devices.                                                                  *)

(* A disciplined application acts on a device that is open or that it has    *)
(* not yet tried to open.                                                    *)
Active(d) == mem[d] = "live" /\ (isOpen[d] \/ ~tried[d])

(* What the library holds for such a device. *)
HoldsReference(d) ==
    /\ dev[d] \in DevRef
    /\ devRef[dev[d]] = IF isOpen[d] THEN "open" ELSE "idle"
    /\ isOpen[d] => tried[d]

(* Its sources are those of open interfaces, and of all of them unless an    *)
(* interface can fail half way.                                              *)
HoldsInterfaces(d) ==
    /\ ~isOpen[d] => intf[d] = {}
    /\ \A i \in Interface: source[d][i] = "live" => i \in intf[d]
    /\ \A i \in Interface: source[d][i] = "live" <=> usbIntf[dev[d]][i] = "attached"
    /\ ~PipesMayFail => \A i \in intf[d]: source[d][i] = "live"

ReferencesApart ==
    \A d \in Device, e \in Device: d # e /\ Active(d) /\ Active(e) => dev[d] # dev[e]

DeviceInv ==
    /\ \A d \in Device: Active(d) => HoldsReference(d) /\ HoldsInterfaces(d)
    /\ ReferencesApart

(* A step leaves everything about a device as it is. *)
Undisturbed(d) ==
    /\ Active(d) /\ isOpen'[d] = isOpen[d] /\ tried'[d] = tried[d]
    /\ dev'[d] = dev[d] /\ devRef'[dev[d]] = devRef[dev[d]]
    /\ intf'[d] = intf[d] /\ source'[d] = source[d] /\ usbIntf'[dev[d]] = usbIntf[dev[d]]

(* The reference of such a device is not the fresh one. *)
LEMMA FreshIsApart ==
    ASSUME DeviceInv, NEW r \in DevRef, Fresh(r), NEW d \in Device, Active(d)
    PROVE  dev[d] # r
BY DEF DeviceInv, HoldsReference, Fresh

(* A step of one device leaves the others as they are. *)
LEMMA OtherDevicesUndisturbed ==
    ASSUME TypeOK, DeviceInv, Disciplined, NEW d \in Device, NEW e \in Device \ {d}, DeviceStep(d), Active(e)'
    PROVE  Undisturbed(e)
<1>1. mem'[e] = mem[e] /\ isOpen'[e] = isOpen[e]
  BY DeviceSteps, DeviceOpTypes DEF TypeOK
<1>2. /\ dev'[e] = dev[e] /\ tried'[e] = tried[e] /\ intf'[e] = intf[e] /\ source'[e] = source[e]
  BY DEF DeviceStep, DiscoverDevice, Dispose, iokitOpen, DescriptorFails, SeizeFails, Seized, OpenCall,
         iokitClose, iokitOpenInterface, InterfaceRefused, InterfaceHalfOpen, InterfaceReady, InterfaceOpened,
         iokitCloseInterface, CloseInterfaces, WildDeviceCall, WildSourceCall, WildSyncCall, WildPipeUse,
         iokitVars, deviceVars, intfVars, TypeOK
<1>3. Active(e)
  BY <1>1, <1>2 DEF Active
<1>4. dev[e] \in DevRef
  BY <1>3 DEF DeviceInv, HoldsReference
<1>5. Active(d) => dev[d] # dev[e]
  BY <1>3 DEF DeviceInv, ReferencesApart
<1>6. devRef'[dev[e]] = devRef[dev[e]] /\ usbIntf'[dev[e]] = usbIntf[dev[e]]
  <2>1. CASE \E r \in DevRef: DiscoverDevice(d, r)
    BY <1>3, <1>4, <2>1, FreshIsApart DEF DiscoverDevice, TakeRef, TypeOK
  <2>2. CASE iokitOpen(d)
    <3>1. Active(d)
      BY <2>2 DEF iokitOpen, DescriptorFails, SeizeFails, Seized, OpenCall, usbusOpen, MayOpen, Active
    <3>. QED
      BY <1>4, <1>5, <2>2, <3>1 DEF iokitOpen, DescriptorFails, SeizeFails, Seized, OpenCall, intfVars, TypeOK
  <2>3. CASE iokitClose(d)
    <3>1. Active(d)
      BY <2>3 DEF iokitClose, usbusClose, Active
    <3>. QED
      BY <1>4, <1>5, <2>3, <3>1 DEF iokitClose, CloseInterfaces, TypeOK
  <2>4. CASE \E index \in Interface: iokitOpenInterface(d, index) \/ iokitCloseInterface(d, index)
    <3>1. Active(d)
      BY <2>4 DEF iokitOpenInterface, InterfaceRefused, InterfaceHalfOpen, InterfaceReady, InterfaceOpened,
           iokitCloseInterface, InterfaceCall, Active
    <3>. QED
      BY <1>4, <1>5, <2>4, <3>1 DEF iokitOpenInterface, InterfaceRefused, InterfaceHalfOpen, InterfaceReady,
           InterfaceOpened, iokitCloseInterface, CloseInterfaces, deviceVars, TypeOK
  <2>5. CASE Dispose(d) \/ WildDeviceCall(d) \/ WildSourceCall(d) \/ WildSyncCall(d)
    BY <2>5 DEF Dispose, WildDeviceCall, WildSourceCall, WildSyncCall, WildPipeUse, iokitVars, deviceVars, intfVars
  <2>. QED
    BY <2>1, <2>2, <2>3, <2>4, <2>5 DEF DeviceStep
<1>. QED
  BY <1>1, <1>2, <1>3, <1>6 DEF Undisturbed

(* Closing interfaces leaves those of them that stay open as they were. *)
LEMMA ClosingKeepsInterfaces ==
    ASSUME TypeOK, NEW d \in Device, NEW is \in SUBSET Interface, HoldsReference(d), CloseInterfaces(d, is)
    PROVE  /\ intf'[d] = intf[d] \ is
           /\ \A i \in is: usbIntf'[dev[d]][i] = "closed" /\ source'[d][i] = "released"
           /\ \A i \in Interface \ is: usbIntf'[dev[d]][i] = usbIntf[dev[d]][i] /\ source'[d][i] = source[d][i]
BY DEF CloseInterfaces, HoldsReference, TypeOK

(* A step of a device keeps what it holds, or it is a new one. *)
LEMMA OwnDeviceStep ==
    ASSUME TypeOK, DeviceInv, Disciplined, NEW d \in Device, DeviceStep(d), Active(d)'
    PROVE  /\ HoldsReference(d)' /\ HoldsInterfaces(d)'
           /\ (Active(d) /\ dev'[d] = dev[d]) \/ \E r \in DevRef: Fresh(r) /\ dev'[d] = r
<1>1. ASSUME NEW r \in DevRef, DiscoverDevice(d, r)
      PROVE  HoldsReference(d)' /\ HoldsInterfaces(d)' /\ Fresh(r) /\ dev'[d] = r
  <2>1. HoldsReference(d)' /\ Fresh(r) /\ dev'[d] = r
    BY <1>1 DEF DiscoverDevice, TakeRef, dispatchConnectedDevice, HoldsReference, TypeOK, CoreTypeOK
  <2>2. intf'[d] = {} /\ source'[d] = AllInterfaces("none") /\ usbIntf'[r] = AllInterfaces("closed")
    BY <1>1 DEF DiscoverDevice, TakeRef, Fresh, TypeOK
  <2>. QED
    BY <2>1, <2>2 DEF HoldsInterfaces, AllInterfaces
<1>2. CASE iokitOpen(d)
  <2>1. Active(d) /\ ~isOpen[d] /\ tried'[d] /\ isOpen'[d] /\ UNCHANGED <<dev, intfVars>>
    BY <1>2 DEF iokitOpen, DescriptorFails, SeizeFails, Seized, OpenCall, usbusOpen, MayOpen, Active, TypeOK
  <2>2. devRef'[dev[d]] = "open"
    <3>1. ~OpenCall(d, Failed)
      BY <2>1 DEF OpenCall, usbusOpen, Failed, UsbusOK, TypeOK, CoreTypeOK
    <3>2. devRef' = [devRef EXCEPT ![dev[d]] = "open"]
      BY <1>2, <3>1 DEF iokitOpen, DescriptorFails, SeizeFails, Seized
    <3>. QED
      BY <2>1, <3>2 DEF DeviceInv, HoldsReference, TypeOK
  <2>. QED
    BY <2>1, <2>2 DEF DeviceInv, HoldsReference, HoldsInterfaces, intfVars
<1>3. CASE iokitClose(d)
  BY <1>3 DEF iokitClose, usbusClose, Active, DeviceInv, HoldsReference, TypeOK, CoreTypeOK
<1>4. CASE Dispose(d)
  BY <1>4 DEF Dispose, usbusDispose, Active, TypeOK, CoreTypeOK
<1>5. CASE WildDeviceCall(d) \/ WildSourceCall(d) \/ WildSyncCall(d)
  <2>1. UNCHANGED <<mem, isOpen, iokitVars>>
    BY <1>5 DEF WildDeviceCall, WildSourceCall, WildSyncCall, WildPipeUse, CallIsLost
  <2>2. Active(d)
    BY <2>1 DEF Active, iokitVars, deviceVars
  <2>. QED
    BY <2>1, <2>2 DEF DeviceInv, HoldsReference, HoldsInterfaces, iokitVars, deviceVars, intfVars
<1>6. ASSUME NEW index \in Interface, iokitOpenInterface(d, index) \/ iokitCloseInterface(d, index)
      PROVE  Active(d) /\ HoldsReference(d)' /\ HoldsInterfaces(d)' /\ dev'[d] = dev[d]
  <2>1. Active(d) /\ isOpen[d] /\ isOpen'[d] /\ UNCHANGED deviceVars
    BY <1>6 DEF iokitOpenInterface, InterfaceRefused, InterfaceHalfOpen, InterfaceReady, InterfaceOpened,
         iokitCloseInterface, InterfaceCall, coreVars, Active
  <2>2. HoldsReference(d) /\ HoldsInterfaces(d)
    BY <2>1 DEF DeviceInv
  <2>3. HoldsReference(d)'
    BY <2>1, <2>2 DEF HoldsReference, deviceVars
  <2>4. CASE iokitCloseInterface(d, index)
    <3>1. /\ intf'[d] = intf[d] \ {index}
          /\ \A i \in {index}: usbIntf'[dev[d]][i] = "closed" /\ source'[d][i] = "released"
          /\ \A i \in Interface \ {index}: usbIntf'[dev[d]][i] = usbIntf[dev[d]][i] /\ source'[d][i] = source[d][i]
      BY <2>2, <2>4, ClosingKeepsInterfaces DEF iokitCloseInterface
    <3>2. dev'[d] = dev[d] /\ isOpen'[d]
      BY <2>1 DEF deviceVars
    <3>3. HoldsInterfaces(d)'
      <4>1. /\ \A i \in Interface: source'[d][i] = "live" => i \in intf'[d]
            /\ ~PipesMayFail => \A i \in intf'[d]: source'[d][i] = "live"
        BY <2>2, <3>1 DEF HoldsInterfaces, RequestInv, TypeOK
      <4>2. ASSUME NEW i \in Interface PROVE source'[d][i] = "live" <=> usbIntf'[dev[d]][i] = "attached"
        BY <2>2, <3>1 DEF HoldsInterfaces
      <4>. QED
        BY <3>2, <4>1, <4>2 DEF HoldsInterfaces
    <3>. QED
      BY <2>1, <2>3, <3>2, <3>3
  <2>5. CASE InterfaceRefused(d, index)
    <3>1. intf'[d] = intf[d] /\ UNCHANGED <<dev, source, usbIntf>>
      BY <2>5 DEF InterfaceRefused, deviceVars, TypeOK
    <3>. QED
      BY <2>1, <2>2, <2>3, <3>1 DEF HoldsInterfaces
  <2>6. CASE InterfaceReady(d, index)
    BY <2>1, <2>2, <2>6 DEF InterfaceReady, InterfaceOpened, HoldsReference, HoldsInterfaces, deviceVars, TypeOK
  <2>7. CASE InterfaceHalfOpen(d, index)
    BY <2>1, <2>2, <2>3, <2>7 DEF InterfaceHalfOpen, InterfaceOpened, HoldsReference, HoldsInterfaces, deviceVars,
         TypeOK
  <2>. QED
    BY <1>6, <2>1, <2>3, <2>4, <2>5, <2>6, <2>7 DEF iokitOpenInterface, deviceVars
<1>. QED
  BY <1>1, <1>2, <1>3, <1>4, <1>5, <1>6 DEF DeviceStep, iokitVars, deviceVars

(* Any other step leaves all devices as they are, or takes them away. *)
LEMMA OtherStepsUndisturbing ==
    ASSUME TypeOK, DeviceInv, [Next]_vars, ~\E d \in Device: DeviceStep(d), NEW e \in Device, Active(e)'
    PROVE  Undisturbed(e)
<1>1. CASE ListenStep \/ TransferCallbackReturns
  <2>1. isOpen' = isOpen /\ (mem'[e] = "live" => mem[e] = "live")
    BY <1>1, ListenSteps, LoopOpTypes, ConnectedReturnsTypes DEF coreVars, TypeOK
  <2>2. UNCHANGED <<dev, tried, intfVars>>
    BY <1>1, ListenSteps
  <2>3. Active(e)
    BY <2>1, <2>2 DEF Active
  <2>4. dev[e] \in DevRef /\ \A r \in DevRef: Fresh(r) => r # dev[e]
    BY <2>3, FreshIsApart DEF DeviceInv, HoldsReference
  <2>5. devRef'[dev[e]] = devRef[dev[e]]
    BY <1>1, <2>4, ListenSteps DEF TypeOK
  <2>. QED
    BY <2>1, <2>2, <2>3, <2>5 DEF Undisturbed, intfVars
<1>2. ASSUME NEW t \in Transfer, TransferStep(t) PROVE Undisturbed(e)
  <2>1. UNCHANGED <<mem, isOpen, deviceVars, intfVars>>
    BY <1>2, TransferSteps, TransferOpTypes DEF WildPipeCall, WildPipeUse, CallIsLost, TypeOK
  <2>. QED
    BY <2>1 DEF Undisturbed, Active, deviceVars, intfVars
<1>3. CASE \/ \E w \in Token, result \in Result: IOCompletes(w, result)
           \/ \E w \in Token: iokitProcessEvents(w)
           \/ UNCHANGED vars
  BY <1>3 DEF IOCompletes, iokitProcessEvents, usbusProcessEvents, vars, coreVars, iokitVars, deviceVars, intfVars,
       Undisturbed, Active
<1>. QED
  BY <1>1, <1>2, <1>3 DEF Next, StaysLost

(* Every step keeps what active devices hold. *)
LEMMA DeviceInvStep ==
    ASSUME TypeOK, DeviceInv, Disciplined, [Next]_vars
    PROVE  DeviceInv'
<1>1. ASSUME NEW e \in Device, Undisturbed(e), Active(e)'
      PROVE  HoldsReference(e)' /\ HoldsInterfaces(e)'
  BY <1>1 DEF Undisturbed, DeviceInv, HoldsReference, HoldsInterfaces
<1>2. CASE ~\E d \in Device: DeviceStep(d)
  <2>1. \A e \in Device: Active(e)' => Undisturbed(e)
    BY <1>2, OtherStepsUndisturbing
  <2>2. ReferencesApart'
    BY <2>1 DEF Undisturbed, DeviceInv, ReferencesApart
  <2>. QED
    BY <1>1, <2>1, <2>2 DEF DeviceInv
<1>3. ASSUME NEW d \in Device, DeviceStep(d) PROVE DeviceInv'
  <2>1. \A e \in Device \ {d}: Active(e)' => Undisturbed(e)
    BY <1>3, OtherDevicesUndisturbed
  <2>2. Active(d)' => HoldsReference(d)' /\ HoldsInterfaces(d)'
    BY <1>3, OwnDeviceStep
  <2>3. \A e \in Device \ {d}: Active(d)' /\ Active(e)' => dev'[d] # dev'[e]
    <3>. SUFFICES ASSUME NEW e \in Device \ {d}, Active(d)', Active(e)' PROVE dev'[d] # dev'[e]
      OBVIOUS
    <3>1. Active(e) /\ dev'[e] = dev[e]
      BY <2>1 DEF Undisturbed
    <3>2. CASE Active(d) /\ dev'[d] = dev[d]
      BY <3>1, <3>2 DEF DeviceInv, ReferencesApart
    <3>3. CASE \E r \in DevRef: Fresh(r) /\ dev'[d] = r
      BY <3>1, <3>3, FreshIsApart
    <3>. QED
      BY <1>3, <3>2, <3>3, OwnDeviceStep
  <2>4. \A e \in Device \ {d}, f \in Device \ {d}: e # f /\ Active(e)' /\ Active(f)' => dev'[e] # dev'[f]
    BY <2>1 DEF Undisturbed, DeviceInv, ReferencesApart
  <2>5. ReferencesApart'
    BY <2>3, <2>4 DEF ReferencesApart
  <2>. QED
    BY <1>1, <2>1, <2>2, <2>5 DEF DeviceInv
<1>. QED
  BY <1>2, <1>3

-----------------------------------------------------------------------------
(* Requests and the cache of endpoint addresses.                             *)

(* A set of pairs of numbers has a first one. *)
LEMMA FirstPair ==
    ASSUME NEW S \in SUBSET (Nat \X Nat), S # {}
    PROVE  \E p \in S: \A q \in S: p[1] < q[1] \/ (p[1] = q[1] /\ p[2] <= q[2])
<1>. DEFINE Less == OpToRel(<, Nat)
            R    == LexPairOrdering(Less, Less, Nat, Nat)
<1>1. IsWellFoundedOn(Less, Nat)
  BY NatLessThanWellFounded
<1>2. \A m, n \in Nat: m < n => <<m, n>> \in Less
  BY DEF OpToRel
<1>. HIDE DEF Less
<1>3. IsWellFoundedOn(R, Nat \X Nat)
  BY <1>1, WFLexPairOrdering
<1>4. \A p, q \in Nat \X Nat: (p[1] < q[1] \/ (p[1] = q[1] /\ p[2] < q[2])) => <<p, q>> \in R
  BY <1>2 DEF LexPairOrdering
<1>. HIDE DEF R
<1>5. PICK p \in S: \A q \in S: ~(<<q, p>> \in R)
  BY <1>3, WFMin
<1>6. \A q \in S: ~(q[1] < p[1]) /\ (q[1] = p[1] => ~(q[2] < p[2]))
  BY <1>4, <1>5
<1>7. \A q \in S: q[1] \in Nat /\ q[2] \in Nat
  OBVIOUS
<1>. QED
  BY <1>5, <1>6, <1>7

(* pipeRefForEP() returns a slot that holds the endpoint, if there is one. *)
LEMMA PipeIsFound ==
    ASSUME NEW d \in Device, NEW ep \in Endpoint, Slots(d, ep) # {}
    PROVE  pipeRefForEP(d, ep) \in Slots(d, ep)
<1>1. Slots(d, ep) \subseteq Nat \X Nat
  <2>1. \A p \in Interface \X (1..Cardinality(Endpoint)): p = <<p[1], p[2]>> /\ p[1] \in Interface /\ p[2] \in Nat
    OBVIOUS
  <2>. QED
    BY <2>1, IOKitAssumption DEF Slots
<1>2. \E p \in Slots(d, ep): \A q \in Slots(d, ep): p[1] < q[1] \/ (p[1] = q[1] /\ p[2] <= q[2])
  BY <1>1, FirstPair
<1>. QED
  BY <1>2, Zenon DEF pipeRefForEP

(* A slot that is filled holds the endpoint of a pipe. *)
CacheInv == \A d \in Device, i \in Interface: cached[d][i] <= Len(Endpoints[i])

(* Opening an interface fills a slot for each pipe at most. *)
LEMMA CacheInvStep ==
    ASSUME TypeOK, CacheInv, [Next]_vars
    PROVE  CacheInv'
<1>1. \A i \in Interface: Len(Endpoints[i]) \in Nat
  BY IOKitAssumption, LenProperties
<1>2. CASE UNCHANGED cached
  BY <1>2 DEF CacheInv
<1>3. ASSUME NEW d \in Device, NEW r \in DevRef, DiscoverDevice(d, r) PROVE CacheInv'
  BY <1>1, <1>3 DEF DiscoverDevice, AllInterfaces, CacheInv, TypeOK
<1>4. ASSUME NEW d \in Device, NEW index \in Interface, NEW n \in 0..Len(Endpoints[index]), NEW state,
             InterfaceOpened(d, index, n, state)
      PROVE  CacheInv'
  BY <1>1, <1>4 DEF InterfaceOpened, CacheInv, TypeOK
<1>5. ASSUME NEW d \in Device, NEW index \in Interface, iokitOpenInterface(d, index) PROVE CacheInv'
  <2>1. Len(Endpoints[index]) \in 0..Len(Endpoints[index])
    BY <1>1
  <2>. QED
    BY <1>2, <1>4, <1>5, <2>1 DEF iokitOpenInterface, InterfaceRefused, InterfaceHalfOpen, InterfaceReady
<1>6. ASSUME NEW d \in Device, DeviceStep(d) PROVE CacheInv'
  BY <1>2, <1>3, <1>5, <1>6 DEF DeviceStep, Dispose, iokitOpen, DescriptorFails, SeizeFails, Seized, OpenCall,
     iokitClose, iokitCloseInterface, CloseInterfaces, WildDeviceCall, WildSourceCall, WildSyncCall, WildPipeUse,
     iokitVars, intfVars
<1>7. UNCHANGED intfVars => CacheInv'
  BY <1>2 DEF intfVars
<1>8. CASE ListenStep \/ TransferCallbackReturns
  BY <1>7, <1>8, ListenSteps
<1>9. ASSUME NEW t \in Transfer, TransferStep(t) PROVE CacheInv'
  BY <1>7, <1>9, TransferSteps
<1>10. CASE \/ \E w \in Token, result \in Result: IOCompletes(w, result)
            \/ \E w \in Token: iokitProcessEvents(w)
            \/ UNCHANGED vars
  BY <1>7, <1>10 DEF IOCompletes, iokitProcessEvents, vars, iokitVars
<1>. QED
  BY <1>6, <1>8, <1>9, <1>10 DEF Next, StaysLost

(* An open device stays open with its reference, its interfaces and their    *)
(* sources, until it is closed or an interface is.                           *)
LEMMA OpenDevicesStay ==
    ASSUME TypeOK, DeviceInv, Rules, [Next]_vars, NEW d \in Device, IsOpenDevice(d)
    PROVE  \/ iokitClose(d)
           \/ \E index \in Interface: iokitCloseInterface(d, index)
           \/ /\ IsOpenDevice(d)' /\ dev'[d] = dev[d] /\ intf[d] \subseteq intf'[d]
              /\ \A i \in Interface: source[d][i] = "live" => source'[d][i] = "live"
<1>1. CASE ~\E e \in Device: DeviceStep(e)
  <2>1. IsOpenDevice(d)'
    <3>1. CASE ListenStep \/ TransferCallbackReturns
      <4>1. CASE ConnectedReturns
        BY <4>1 DEF ConnectedReturns, Rules, IsOpenDevice, TypeOK, CoreTypeOK
      <4>. QED
        BY <3>1, <4>1, ListenSteps, LoopOpTypes DEF coreVars, IsOpenDevice, TypeOK
    <3>2. ASSUME NEW t \in Transfer, TransferStep(t) PROVE UNCHANGED <<mem, isOpen>>
      BY <3>2, TransferSteps, TransferOpTypes DEF WildPipeCall, WildPipeUse, CallIsLost, TypeOK
    <3>3. CASE \/ \E w \in Token, result \in Result: IOCompletes(w, result)
               \/ \E w \in Token: iokitProcessEvents(w)
               \/ UNCHANGED vars
      BY <3>3 DEF IOCompletes, iokitProcessEvents, usbusProcessEvents, vars, coreVars, IsOpenDevice
    <3>. QED
      BY <1>1, <3>1, <3>2, <3>3 DEF Next, StaysLost, IsOpenDevice
  <2>2. Undisturbed(d)
    BY <1>1, <2>1, OtherStepsUndisturbing DEF IsOpenDevice, Active
  <2>. QED
    BY <2>1, <2>2 DEF Undisturbed
<1>2. ASSUME NEW e \in Device \ {d}, DeviceStep(e)
      PROVE  /\ IsOpenDevice(d)' /\ dev'[d] = dev[d] /\ intf[d] \subseteq intf'[d]
             /\ \A i \in Interface: source[d][i] = "live" => source'[d][i] = "live"
  <2>1. IsOpenDevice(d)'
    BY <1>2, DeviceSteps, DeviceOpTypes DEF IsOpenDevice, TypeOK
  <2>2. Undisturbed(d)
    BY <1>2, <2>1, OtherDevicesUndisturbed DEF Rules, IsOpenDevice, Active
  <2>. QED
    BY <2>1, <2>2 DEF Undisturbed
<1>3. CASE DeviceStep(d)
  <2>1. ~iokitOpen(d) /\ ~Dispose(d) /\ ~\E r \in DevRef: DiscoverDevice(d, r)
    BY DEF iokitOpen, DescriptorFails, SeizeFails, Seized, OpenCall, usbusOpen, Dispose, usbusDispose,
           DiscoverDevice, dispatchConnectedDevice, Rules, IsOpenDevice
  <2>2. CASE \E index \in Interface: iokitOpenInterface(d, index)
    BY <2>2 DEF iokitOpenInterface, InterfaceRefused, InterfaceHalfOpen, InterfaceReady, InterfaceOpened, InterfaceCall,
         coreVars, deviceVars, Rules, IsOpenDevice, TypeOK
  <2>3. CASE WildDeviceCall(d) \/ WildSourceCall(d) \/ WildSyncCall(d)
    BY <2>3 DEF WildDeviceCall, WildSourceCall, WildSyncCall, WildPipeUse, CallIsLost, iokitVars, deviceVars, intfVars,
         IsOpenDevice
  <2>. QED
    BY <1>3, <2>1, <2>2, <2>3 DEF DeviceStep
<1>. QED
  BY <1>1, <1>2, <1>3

(* A slot that is found names a pipe of its interface. *)
LEMMA SlotsArePipes ==
    ASSUME TypeOK, CacheInv, NEW d \in Device, NEW ep \in Endpoint, NEW p \in Slots(d, ep)
    PROVE  p[1] \in Interface /\ p[2] \in DOMAIN Endpoints[p[1]] /\ Endpoints[p[1]][p[2]] = ep
<1>1. /\ p[1] \in Interface /\ p[2] \in 1..Cardinality(Endpoint)
      /\ p[2] <= cached[d][p[1]] /\ Endpoints[p[1]][p[2]] = ep
  BY DEF Slots
<1>2. p[2] \in Nat /\ p[2] >= 1 /\ cached[d][p[1]] \in Nat /\ cached[d][p[1]] <= Len(Endpoints[p[1]])
  BY <1>1 DEF CacheInv, TypeOK
<1>3. DOMAIN Endpoints[p[1]] = 1..Len(Endpoints[p[1]]) /\ Len(Endpoints[p[1]]) \in Nat
  BY <1>1, IOKitAssumption, LenProperties
<1>. QED
  BY <1>1, <1>2, <1>3

(* A request that is accepted starts on the pipe of its endpoint, on an      *)
(* interface that is open: pipeRefForEP() never returns a slot of another.   *)
LEMMA StartsOnOwnInterface ==
    ASSUME RequestInv, CacheInv, NEW t \in Transfer, NEW w \in Token, iokitSubmitTransfer(t, w),
           LET e == Info(t).device IN
           \A i \in intf[e]: source[e][i] = "live" => usbIntf[dev[e]][i] = "attached"
    PROVE  /\ io'[w].transfer = t
           /\ usbIntf[io'[w].ref][io'[w].index] = "attached"
           /\ io'[w].pipe \in DOMAIN Endpoints[io'[w].index]
           /\ Endpoints[io'[w].index][io'[w].pipe] = Info(t).endpoint
           /\ LET d == Info(t).device IN
              d \in Device /\ IsOpenDevice(d) /\ dev[d] = io'[w].ref /\ io'[w].index \in intf[d]
<1>. DEFINE d  == Info(t).device
            ep == Info(t).endpoint
<1>1. PICK p \in Interface \X (1..Cardinality(Endpoint)):
        TransferCall(t) /\ PipeCall(t, p) /\ StartIO(w, t, p)
  BY DEF iokitSubmitTransfer, usbusSubmitTransfer
<1>2. IsOpenDevice(d) /\ d \in Device /\ ep \in Endpoint
  BY <1>1, StartedRequest DEF RequestInv
<1>3. p \in Slots(d, ep) /\ p[1] \in intf[d]
  BY <1>1, <1>2, PipeIsFound DEF PipeCall
<1>4. p[1] \in Interface /\ p[2] \in DOMAIN Endpoints[p[1]] /\ Endpoints[p[1]][p[2]] = ep
  BY <1>2, <1>3, SlotsArePipes DEF RequestInv
<1>5. usbIntf[dev[d]][p[1]] = "attached"
  BY <1>1, <1>3, <1>4 DEF StartIO
<1>6. io'[w].ref = dev[d] /\ io'[w].index = p[1] /\ io'[w].pipe = p[2] /\ io'[w].transfer = t
  BY <1>1 DEF StartIO, RequestInv, TypeOK
<1>. QED
  BY <1>2, <1>3, <1>4, <1>5, <1>6

(* The transfer of a request is set up for a device. *)
RequestsHaveDevices == \A w \in Token: Outstanding(w) => Info(io[w].transfer).device \in Device

(* No step takes a request away from its interface: closing a device or an   *)
(* interface ends its requests.                                              *)
LEMMA RequestsStayOnInterface ==
    ASSUME RequestInv, DeviceInv, DeviceInv', CacheInv, RequestsOnOwnInterface, RequestsHaveDevices,
           Rules, [Next]_vars
    PROVE  RequestsOnOwnInterface' /\ RequestsHaveDevices'
<1>. SUFFICES ASSUME NEW w \in Token, Outstanding(w)'
              PROVE  /\ usbIntf'[io'[w].ref][io'[w].index] = "attached"
                     /\ io'[w].pipe \in DOMAIN Endpoints[io'[w].index]
                     /\ Endpoints[io'[w].index][io'[w].pipe] = transfer'[io'[w].transfer].endpoint
                     /\ LET d == transfer'[io'[w].transfer].device IN
                        /\ d \in Device /\ mem'[d] = "live" /\ isOpen'[d]
                        /\ dev'[d] = io'[w].ref /\ io'[w].index \in intf'[d]
  BY DEF RequestsOnOwnInterface, RequestsHaveDevices, IsOpenDevice, Info
<1>1. ASSUME NEW t \in Transfer, iokitSubmitTransfer(t, w)
      PROVE  UNCHANGED <<mem, isOpen, transfer, dev, intf, usbIntf>>
  BY <1>1 DEF iokitSubmitTransfer, usbusSubmitTransfer, deviceVars, intfVars
<1>2. ASSUME NEW t \in Transfer, iokitSubmitTransfer(t, w)
      PROVE  /\ usbIntf'[io'[w].ref][io'[w].index] = "attached"
             /\ io'[w].pipe \in DOMAIN Endpoints[io'[w].index]
             /\ Endpoints[io'[w].index][io'[w].pipe] = transfer'[io'[w].transfer].endpoint
             /\ LET d == transfer'[io'[w].transfer].device IN
                /\ d \in Device /\ mem'[d] = "live" /\ isOpen'[d]
                /\ dev'[d] = io'[w].ref /\ io'[w].index \in intf'[d]
  <2>1. Info(t).device \in Device /\ IsOpenDevice(Info(t).device)
    BY <1>2, StartedRequest DEF iokitSubmitTransfer, usbusSubmitTransfer, RequestInv
  <2>2. LET e == Info(t).device IN
        \A i \in intf[e]: source[e][i] = "live" => usbIntf[dev[e]][i] = "attached"
    BY <2>1 DEF DeviceInv, HoldsInterfaces, Active, IsOpenDevice, RequestInv, TypeOK
  <2>. QED
    BY <1>1, <1>2, <2>2, StartsOnOwnInterface DEF IsOpenDevice, Info
<1>3. CASE Kept(w)
  <2>. DEFINE t == io[w].transfer
              d == transfer[t].device
              i == io[w].index
  <2>1. /\ Outstanding(w) /\ io'[w].ref = io[w].ref /\ io'[w].index = i
        /\ io'[w].pipe = io[w].pipe /\ io'[w].transfer = t
    BY <1>3 DEF Kept
  <2>2. /\ io[w].pipe \in DOMAIN Endpoints[i] /\ Endpoints[i][io[w].pipe] = transfer[t].endpoint
        /\ d \in Device /\ IsOpenDevice(d) /\ dev[d] = io[w].ref /\ i \in intf[d] /\ i \in Interface
        /\ source[d][i] = "live"
    <3>1. /\ io[w].pipe \in DOMAIN Endpoints[i] /\ Endpoints[i][io[w].pipe] = transfer[t].endpoint
          /\ d \in Device /\ IsOpenDevice(d) /\ dev[d] = io[w].ref /\ i \in intf[d]
          /\ usbIntf[dev[d]][i] = "attached"
      BY <2>1 DEF RequestsOnOwnInterface, RequestsHaveDevices, Info
    <3>2. i \in Interface
      BY <3>1 DEF RequestInv, TypeOK
    <3>. QED
      BY <3>1, <3>2 DEF DeviceInv, HoldsInterfaces, Active, IsOpenDevice
  <2>3. transfer'[t] = transfer[t]
    BY <2>1, OutstandingIsOwed, OwedTransfersStay DEF RequestInv, NoReleasedInFlight
  <2>4. ASSUME NEW is \in SUBSET Interface, CloseInterfaces(d, is) PROVE i \notin is
    BY <2>1, <2>2, <2>4 DEF CloseInterfaces, Outstanding
  <2>5. ~iokitClose(d)
    BY <2>2, <2>4 DEF iokitClose, RequestInv, TypeOK
  <2>6. ASSUME NEW index \in Interface, iokitCloseInterface(d, index)
        PROVE  mem'[d] = "live" /\ isOpen'[d] /\ dev'[d] = dev[d] /\ i \in intf'[d] /\ source'[d][i] = "live"
    <3>1. index # i
      BY <2>4, <2>6 DEF iokitCloseInterface
    <3>. QED
      BY <2>2, <2>6, <3>1 DEF iokitCloseInterface, CloseInterfaces, InterfaceCall, coreVars, deviceVars, IsOpenDevice,
           RequestInv, TypeOK
  <2>7. mem'[d] = "live" /\ isOpen'[d] /\ dev'[d] = dev[d] /\ i \in intf'[d] /\ source'[d][i] = "live"
    BY <2>2, <2>5, <2>6, OpenDevicesStay DEF RequestInv, IsOpenDevice
  <2>8. usbIntf'[dev'[d]][i] = "attached"
    BY <2>2, <2>7 DEF DeviceInv, HoldsInterfaces, Active, IsOpenDevice
  <2>. QED
    BY <2>1, <2>2, <2>3, <2>7, <2>8
<1>. QED
  BY <1>2, <1>3, RequestsKept DEF RequestInv

(* The device of a request stays the one its transfer is set up for. *)
LEMMA RequestsKeepDevices ==
    ASSUME RequestInv, RequestsHaveDevices, [Next]_vars
    PROVE  RequestsHaveDevices'
<1>. SUFFICES ASSUME NEW w \in Token, Outstanding(w)'
              PROVE  transfer'[io'[w].transfer].device \in Device
  BY DEF RequestsHaveDevices, Info
<1>1. ASSUME NEW t \in Transfer, iokitSubmitTransfer(t, w)
      PROVE  transfer'[io'[w].transfer].device \in Device
  <2>1. Info(t).device \in Device
    BY <1>1, StartedRequest DEF iokitSubmitTransfer, usbusSubmitTransfer, RequestInv
  <2>2. io'[w].transfer = t /\ transfer' = transfer
    BY <1>1 DEF iokitSubmitTransfer, usbusSubmitTransfer, StartIO, RequestInv, TypeOK
  <2>. QED
    BY <2>1, <2>2 DEF Info
<1>2. CASE Kept(w)
  <2>1. Outstanding(w) /\ io'[w].transfer = io[w].transfer
    BY <1>2 DEF Kept
  <2>2. transfer'[io[w].transfer] = transfer[io[w].transfer]
    BY <2>1, OutstandingIsOwed, OwedTransfersStay DEF RequestInv, NoReleasedInFlight
  <2>. QED
    BY <2>1, <2>2 DEF RequestsHaveDevices, Info
<1>. QED
  BY <1>1, <1>2, RequestsKept DEF RequestInv

(* An active device was active with the same reference, or it is a new one.  *)
LEMMA ActiveBefore ==
    ASSUME TypeOK, DeviceInv, Disciplined, [Next]_vars, NEW d \in Device, Active(d)'
    PROVE  (Active(d) /\ dev'[d] = dev[d]) \/ \E r \in DevRef: Fresh(r) /\ dev'[d] = r
<1>1. CASE DeviceStep(d)
  BY <1>1, OwnDeviceStep
<1>2. ASSUME NEW e \in Device \ {d}, DeviceStep(e) PROVE Active(d) /\ dev'[d] = dev[d]
  BY <1>2, OtherDevicesUndisturbed DEF Undisturbed
<1>3. CASE ~\E e \in Device: DeviceStep(e)
  BY <1>3, OtherStepsUndisturbing DEF Undisturbed
<1>. QED
  BY <1>1, <1>2, <1>3

(* The requests on the reference of an active device are those of its        *)
(* transfers.                                                                *)
RequestsOfActive ==
    \A w \in Token, d \in Device:
        Outstanding(w) /\ Active(d) /\ io[w].ref = dev[d] => Info(io[w].transfer).device = d

(* A reference that is handed out anew has no request, and a request starts  *)
(* on the reference of its own device.                                       *)
LEMMA RequestsStayOfActive ==
    ASSUME RequestInv, DeviceInv, RequestsOfActive, Disciplined, [Next]_vars
    PROVE  RequestsOfActive'
<1>. SUFFICES ASSUME NEW w \in Token, NEW d \in Device,
                     Outstanding(w)', Active(d)', io'[w].ref = dev'[d]
              PROVE  transfer'[io'[w].transfer].device = d
  BY DEF RequestsOfActive, Info
<1>1. ASSUME NEW t \in Transfer, iokitSubmitTransfer(t, w)
      PROVE  transfer'[io'[w].transfer].device = d
  <2>. DEFINE e == Info(t).device
  <2>1. PICK p \in Interface \X (1..Cardinality(Endpoint)): TransferCall(t) /\ StartIO(w, t, p)
    BY <1>1 DEF iokitSubmitTransfer, usbusSubmitTransfer
  <2>2. e \in Device /\ IsOpenDevice(e)
    BY <2>1, StartedRequest DEF RequestInv
  <2>3. io'[w].transfer = t /\ io'[w].ref = dev[e]
    BY <2>1 DEF StartIO, RequestInv, TypeOK
  <2>4. UNCHANGED <<mem, isOpen, transfer, dev, tried>>
    BY <1>1 DEF iokitSubmitTransfer, usbusSubmitTransfer, deviceVars
  <2>5. Active(d) /\ Active(e) /\ dev[d] = dev[e]
    BY <2>2, <2>3, <2>4 DEF Active, IsOpenDevice
  <2>6. d = e
    BY <2>2, <2>5 DEF DeviceInv, ReferencesApart
  <2>. QED
    BY <2>3, <2>4, <2>6 DEF Info
<1>2. CASE Kept(w)
  <2>1. Outstanding(w) /\ io'[w].ref = io[w].ref /\ io'[w].transfer = io[w].transfer
    BY <1>2 DEF Kept
  <2>2. transfer'[io[w].transfer] = transfer[io[w].transfer]
    BY <2>1, OutstandingIsOwed, OwedTransfersStay DEF RequestInv, NoReleasedInFlight
  <2>3. Active(d) /\ dev'[d] = dev[d]
    BY <2>1, ActiveBefore DEF RequestInv, Fresh
  <2>. QED
    BY <2>1, <2>2, <2>3 DEF RequestsOfActive, Info
<1>. QED
  BY <1>1, <1>2, RequestsKept DEF RequestInv

(* What holds of devices, the cache and requests for a disciplined           *)
(* application, and what else if it also closes what it disposes.            *)
DisciplinedInv == RequestInv /\ DeviceInv /\ CacheInv /\ RequestsHaveDevices /\ RequestsOfActive

RulesInv == DisciplinedInv /\ RequestsOnOwnInterface

(* Every step keeps the first. *)
LEMMA DisciplinedInvStep == Disciplined /\ DisciplinedInv /\ [Next]_vars => DisciplinedInv'
<1>. SUFFICES ASSUME Disciplined, DisciplinedInv, [Next]_vars PROVE DisciplinedInv'
  OBVIOUS
<1>1. RequestInv'
  BY TypeStep, OpenHasReferenceStep, RequestsAreOwedStep, NoReleasedStep DEF DisciplinedInv, RequestInv
<1>2. DeviceInv' /\ CacheInv'
  BY DeviceInvStep, CacheInvStep DEF DisciplinedInv, RequestInv
<1>. QED
  BY <1>1, <1>2, RequestsKeepDevices, RequestsStayOfActive DEF DisciplinedInv

(* Both hold initially. *)
LEMMA RulesInvInit == Init => RulesInv
<1>. SUFFICES ASSUME Init PROVE RulesInv
  OBVIOUS
<1>1. RequestInv
  BY RequestInvInit
<1>2. DeviceInv
  BY DEF Init, CoreInit, DeviceInv, Active, ReferencesApart
<1>3. CacheInv
  BY IOKitAssumption, LenProperties DEF Init, AllInterfaces, CacheInv
<1>4. \A w \in Token: ~Outstanding(w)
  BY DEF Init, Outstanding
<1>. QED
  BY <1>1, <1>2, <1>3, <1>4 DEF RulesInv, DisciplinedInv, RequestsOnOwnInterface, RequestsHaveDevices,
     RequestsOfActive

(* The invariant of a disciplined application, whatever it disposes and      *)
(* wherever interfaces fail.                                                 *)
THEOREM DisciplinedInvariant == Disciplined => (Spec => []DisciplinedInv)
<1>. SUFFICES ASSUME Disciplined PROVE Spec => []DisciplinedInv
  OBVIOUS
<1>1. DisciplinedInv /\ [Next]_vars => DisciplinedInv'
  BY DisciplinedInvStep
<1>2. Init => DisciplinedInv
  BY RulesInvInit DEF RulesInv
<1>. QED
  BY <1>1, <1>2, PTL DEF Spec

(* The invariant under both rules. *)
THEOREM RulesInvariant == Rules => (Spec => []RulesInv)
<1>. SUFFICES ASSUME Rules PROVE Spec => []RulesInv
  OBVIOUS
<1>1. RulesInv /\ [Next]_vars => RulesInv'
  <2>. SUFFICES ASSUME RulesInv, [Next]_vars PROVE RulesInv'
    OBVIOUS
  <2>1. DisciplinedInv'
    BY DisciplinedInvStep DEF Rules, RulesInv
  <2>. QED
    BY <2>1, RequestsStayOnInterface DEF RulesInv, DisciplinedInv
<1>. QED
  BY <1>1, RulesInvInit, PTL DEF Spec

(* Every open device has the device seized through a reference that no other *)
(* open device shares, and its interfaces are open with a live source,       *)
(* whatever refused opens and stale references there have been, as long as   *)
(* no interface fails half way.                                              *)
THEOREM OpenDevicesHold == Disciplined /\ ~PipesMayFail => (Spec => []OpenDevicesHoldReferences)
<1>. SUFFICES ASSUME Disciplined, ~PipesMayFail PROVE Spec => []OpenDevicesHoldReferences
  OBVIOUS
<1>1. DisciplinedInv => OpenDevicesHoldReferences
  BY DEF DisciplinedInv, RequestInv, TypeOK, DeviceInv, Active, HoldsReference, HoldsInterfaces, ReferencesApart,
         OpenDevicesHoldReferences, IsOpenDevice
<1>. QED
  BY <1>1, DisciplinedInvariant, PTL

(* Every request runs on its own endpoint's pipe, on an interface of its     *)
(* device that is open, and closing leaves none behind.                      *)
THEOREM RequestsAtHome == Rules => (Spec => []RequestsOnOwnInterface)
<1>. SUFFICES ASSUME Rules PROVE Spec => []RequestsOnOwnInterface
  OBVIOUS
<1>1. RulesInv => RequestsOnOwnInterface
  BY DEF RulesInv
<1>. QED
  BY <1>1, RulesInvariant, PTL

-----------------------------------------------------------------------------
(* Lost calls.                                                               *)

(* No two interfaces have an endpoint address in common, as USB asks of the  *)
(* interfaces of one configuration.                                          *)
DistinctEndpoints ==
    \A i \in Interface, j \in Interface: \A m \in DOMAIN Endpoints[i], n \in DOMAIN Endpoints[j]:
        Endpoints[i][m] = Endpoints[j][n] => i = j

(* An interface of d is open without a source: opening it failed half way.   *)
HalfOpen(d) == IsOpenDevice(d) /\ \E i \in intf[d]: source[d][i] # "live"

(* Unless an interface can fail half way none does. *)
LEMMA NothingHalfOpen ==
    ASSUME DisciplinedInv, NEW d \in Device, HalfOpen(d)
    PROVE  PipesMayFail
BY DEF HalfOpen, DisciplinedInv, DeviceInv, Active, HoldsInterfaces, IsOpenDevice

(* No call of a disciplined application for a device finds a dead reference, *)
(* and none for an endpoint a closed interface.                              *)
LEMMA NothingWild ==
    ASSUME Disciplined, DistinctEndpoints, DisciplinedInv, NEW d \in Device
    PROVE  ~WildDeviceCall(d) /\ \A ep \in Endpoint: ~WildPipeUse(d, ep)
<1>1. ~WildDeviceCall(d)
  BY IOKitAssumption DEF WildDeviceCall, CallIsLost, DisciplinedInv, DeviceInv, Active, HoldsReference, Held
<1>2. ASSUME NEW ep \in Endpoint, WildPipeUse(d, ep) PROVE FALSE
  <2>. DEFINE p == pipeRefForEP(d, ep)
  <2>1. p \in Slots(d, ep) /\ p[1] \notin intf[d]
    BY <1>2, PipeIsFound DEF WildPipeUse
  <2>2. p[1] \in Interface /\ p[2] \in DOMAIN Endpoints[p[1]] /\ Endpoints[p[1]][p[2]] = ep
    BY <2>1, SlotsArePipes DEF DisciplinedInv, RequestInv
  <2>3. PICK i \in intf[d]: ep \in ToSet(Endpoints[i])
    BY <1>2 DEF WildPipeUse, MayUse
  <2>4. i \in Interface /\ \E n \in DOMAIN Endpoints[i]: Endpoints[i][n] = ep
    BY <2>3 DEF ToSet, DisciplinedInv, RequestInv, TypeOK
  <2>. QED
    BY <2>1, <2>2, <2>3, <2>4 DEF DistinctEndpoints
<1>. QED
  BY <1>1, <1>2

(* What is lost is a close that came to a half open interface: nothing else  *)
(* is lost, for usbusListen() has its port.                                  *)
LostInv ==
    \/ NoLostFrame /\ ListeningHasPort
    \/ Waiting("lost source") /\ \E d \in Device: HalfOpen(d)

(* A lost call is the library's last: only the kernel goes on. *)
LEMMA LostForGood ==
    ASSUME Waiting("lost source"), [Next]_vars
    PROVE  UNCHANGED <<coreVars, deviceVars, intfVars>>
<1>1. ~AppRuns /\ "lost source" \in Lost
  BY DEF AppRuns, Lost
<1>2. \A kind: kind # "lost source" => ~Waiting(kind)
  BY DEF Waiting
<1>3. ~ListenStep
  BY <1>1, <1>2 DEF ListenStep, ListenFails, iokitListen, usbusListen, ListenStopsEarly, ListenReturns, ListenGoesOn,
     ListenContinues, ListenIsLost, iokitStopListen, NotifyDiscovered, NotifyTerminated, LoopStarts, DiscoveryEnds,
     TerminationEnds, LoopEnds, DiscoverHub, Enumerating, TerminateDevice, DisconnectedCall, DisconnectedCallbackReturns,
     DisconnectedReturns, AppKeepsDevice, KeepDevice, ConnectedCallbackReturns, ConnectedReturns
<1>4. ASSUME NEW d \in Device, DeviceStep(d) PROVE FALSE
  BY <1>1, <1>2, <1>4 DEF DeviceStep, DiscoverDevice, dispatchConnectedDevice, Enumerating, Dispose, usbusDispose,
     iokitOpen, DescriptorFails, SeizeFails, Seized, OpenCall, usbusOpen, iokitClose, usbusClose, iokitOpenInterface,
     InterfaceRefused, InterfaceHalfOpen, InterfaceReady, InterfaceOpened, iokitCloseInterface, InterfaceCall,
     WildDeviceCall, WildSourceCall, WildSyncCall, WildPipeUse, CallIsLost
<1>5. ASSUME NEW t \in Transfer, TransferStep(t) PROVE FALSE
  BY <1>1, <1>5 DEF TransferStep, AllocateTransfer, usbusAllocateTransfer, ReleaseTransfer, usbusReleaseTransfer,
     SetTransferInfo, usbusSetBulkTransferInfo, iokitSubmitTransfer, usbusSubmitTransfer, iokitCancelTransfer,
     usbusCancelTransfer, WildPipeCall, TransferCall
<1>6. ~(\E w \in Token: iokitProcessEvents(w)) /\ ~TransferCallbackReturns
  BY <1>1, <1>2 DEF iokitProcessEvents, usbusProcessEvents, TransferCallbackReturns, TransferReturns
<1>. QED
  BY <1>3, <1>4, <1>5, <1>6 DEF Next, IOCompletes, StaysLost, vars, iokitVars

(* A disciplined application loses no call but at a half open interface. *)
LEMMA LostInvStep ==
    ASSUME Disciplined, DistinctEndpoints, DisciplinedInv, LostInv, [Next]_vars
    PROVE  LostInv'
<1>. USE DEF DisciplinedInv, RequestInv
<1>0. CoreTypeOK
  BY DEF TypeOK
<1>1. CASE Waiting("lost source") /\ \E d \in Device: HalfOpen(d)
  <2>1. UNCHANGED <<frames, mem, isOpen, intf, source>>
    BY <1>1, LostForGood DEF coreVars, intfVars
  <2>. QED
    BY <1>1, <2>1 DEF LostInv, Waiting, HalfOpen, IsOpenDevice
<1>2. CASE NoLostFrame /\ ListeningHasPort
  <2>. USE <1>2
  <2>a. NoFrameOf(Lost) /\ Lost \in SUBSET ({"listen"} \cup Lost)
    BY DEF NoLostFrame
  <2>b. ListeningHasPort'
    <3>1. CASE portRef /\ ~portRef'
      <4>1. iokitStopListen
        BY <3>1, OnlyStopTakesPort
      <4>. QED
        BY <3>1, <4>1, ListeningStep DEF iokitStopListen, MayStop, NoFrameOf
    <3>. QED
      BY <3>1, ListeningStep
  <2>c. ASSUME NoFrameOf(Lost)' PROVE LostInv'
    BY <2>b, <2>c DEF LostInv, NoLostFrame
  <2>1. CASE ListenStep \/ TransferCallbackReturns
    <3>1. CASE LosesPort /\ Waiting("listen") /\ ~portRef
      BY <1>0, <3>1, WaitingIsFrame DEF ListeningHasPort
    <3>2. CASE QuietListenOp \/ TransferReturns \/ ConnectedReturns
      BY <1>0, <2>a, <2>c, <3>2, QuietKeepsOut
    <3>3. CASE UNCHANGED frames \/ usbusListen
      BY <1>0, <2>a, <2>c, <3>3, AnnouncedKeepsOut
    <3>. QED
      BY <2>1, <3>1, <3>2, <3>3, ListenFrames
  <2>2. ASSUME NEW d \in Device, WildSourceCall(d) PROVE LostInv'
    <3>1. HalfOpen(d)'
      BY <2>2 DEF WildSourceCall, CallIsLost, HalfOpen, IsOpenDevice, iokitVars, intfVars
    <3>2. frames \in Seq(Frame) /\ LostFrame("lost source") \in Frame
      BY <1>0, PushedFrames DEF CoreTypeOK, Lost, LostFrame
    <3>3. frames' = Append(frames, LostFrame("lost source"))
      BY <2>2 DEF WildSourceCall, CallIsLost
    <3>4. Waiting("lost source")'
      <4>1. Len(frames') > 0 /\ Last(frames') = LostFrame("lost source")
        BY <3>2, <3>3, LastOfAppended
      <4>2. LostFrame("lost source").kind = "lost source"
        BY DEF LostFrame, NewFrame
      <4>. QED
        BY <4>1, <4>2 DEF Waiting
    <3>. QED
      BY <3>1, <3>4 DEF LostInv
  <2>3. ASSUME NEW d \in Device, DeviceStep(d), ~WildSourceCall(d) PROVE LostInv'
    <3>1. ~WildDeviceCall(d) /\ ~WildSyncCall(d)
      BY NothingWild DEF WildSyncCall
    <3>2. UNCHANGED frames \/ dispatchConnectedDevice(d)
      BY <2>3, <3>1 DEF DeviceStep, DiscoverDevice, Dispose, usbusDispose, iokitOpen, DescriptorFails, SeizeFails,
         Seized, OpenCall, usbusOpen, iokitClose, usbusClose, iokitOpenInterface, InterfaceRefused, InterfaceHalfOpen,
         InterfaceReady, InterfaceOpened, iokitCloseInterface, InterfaceCall, coreVars
    <3>. QED
      BY <1>0, <2>a, <2>c, <3>2, AnnouncedKeepsOut
  <2>4. ASSUME NEW t \in Transfer, TransferStep(t) PROVE LostInv'
    <3>1. ~WildPipeCall(t)
      <4>. SUFFICES ASSUME WildPipeCall(t) PROVE FALSE
        OBVIOUS
      <4>1. transfer[t] \in TransferInfo /\ Info(t).device # NULL /\ WildPipeUse(Info(t).device, Info(t).endpoint)
        BY <1>0 DEF WildPipeCall, TransferCall, Info, CoreTypeOK
      <4>2. Info(t).device \in Device /\ Info(t).endpoint \in Endpoint
        BY <4>1 DEF TransferInfo, ClearedInfo, Info
      <4>. QED
        BY <4>1, <4>2, NothingWild
    <3>2. UNCHANGED frames
      BY <2>4, <3>1, TransferSteps, TransferOpTypes, <1>0
    <3>. QED
      BY <1>0, <2>a, <2>c, <3>2, AnnouncedKeepsOut
  <2>5. ASSUME NEW w \in Token, iokitProcessEvents(w) PROVE LostInv'
    BY <1>0, <2>a, <2>c, <2>5, ReportTypes, ProcessEventsKeepsOut DEF iokitProcessEvents
  <2>6. CASE (\E w \in Token, result \in Result: IOCompletes(w, result)) \/ UNCHANGED vars
    BY <1>0, <2>a, <2>c, <2>6, AnnouncedKeepsOut DEF IOCompletes, vars, coreVars
  <2>. QED
    BY <2>1, <2>2, <2>3, <2>4, <2>5, <2>6 DEF Next, StaysLost
<1>. QED
  BY <1>1, <1>2 DEF LostInv

(* Where nothing is lost no function waits for ever. *)
LEMMA FoundIsNotLost == CoreTypeOK /\ NoLostFrame => NoWildCall
BY WaitingIsFrame DEF NoLostFrame, NoWildCall

(* A call that is lost is a close or a disposal that came to an interface    *)
(* that had failed half way.                                                 *)
LostAtHalfOpen == \A kind \in Lost: Waiting(kind) => kind = "lost source" /\ \E d \in Device: HalfOpen(d)

(* The invariant about lost calls. *)
LEMMA LostInvariant == Disciplined /\ DistinctEndpoints => (Spec => []LostInv)
<1>. SUFFICES ASSUME Disciplined, DistinctEndpoints PROVE Spec => []LostInv
  OBVIOUS
<1>1. Init => LostInv
  BY DEF Init, CoreInit, NoFrameOf, NoLostFrame, ListeningHasPort, LostInv
<1>2. DisciplinedInv /\ LostInv /\ [Next]_vars => LostInv'
  BY LostInvStep
<1>. QED
  BY <1>1, <1>2, DisciplinedInvariant, PTL DEF Spec

(* Whatever fails, an application that opens a device once, uses the         *)
(* endpoints of open interfaces only and does not stop listening in a        *)
(* callback of usbusListen(), on devices whose interfaces share no endpoint  *)
(* address, loses a call only where the library left an interface half open  *)
(* behind a failed open.                                                     *)
THEOREM OnlyHalfOpenLoses == Disciplined /\ DistinctEndpoints => (Spec => []LostAtHalfOpen)
<1>. SUFFICES ASSUME Disciplined, DistinctEndpoints PROVE Spec => []LostAtHalfOpen
  OBVIOUS
<1>1. DisciplinedInv /\ LostInv => LostAtHalfOpen
  BY FoundIsNotLost DEF LostInv, LostAtHalfOpen, NoWildCall, Waiting, DisciplinedInv, RequestInv, TypeOK
<1>. QED
  BY <1>1, DisciplinedInvariant, LostInvariant, PTL

(* Such an application, on devices whose interfaces do not fail half way     *)
(* either, never makes the library call through a reference that was         *)
(* released or set to 0, although the library keeps such references and      *)
(* reads the port again after its callbacks, and although the application    *)
(* may dispose devices that are open.                                        *)
THEOREM NoCallIsLost == Disciplined /\ DistinctEndpoints /\ ~PipesMayFail => (Spec => []NoWildCall)
<1>. SUFFICES ASSUME Disciplined, DistinctEndpoints, ~PipesMayFail PROVE Spec => []NoWildCall
  OBVIOUS
<1>1. DisciplinedInv /\ LostInv => NoWildCall
  BY NothingHalfOpen, FoundIsNotLost DEF LostInv, DisciplinedInv, RequestInv, TypeOK
<1>. QED
  BY <1>1, DisciplinedInvariant, LostInvariant, PTL

-----------------------------------------------------------------------------
(* Callbacks.                                                                *)

(* Each request that is being reported has one function on the stack that    *)
(* waits for its callback, and such a function reports a request.            *)
CallbacksReport ==
    \A k \in Nat: \A w: CallsBack(k, w) =>
        /\ w \in Token /\ Reporting(w)
        /\ \A j \in Nat: CallsBack(j, w) => j = k

(* The return of its callback is all that ends the report of a request.      *)
LEMMA ReportingKept ==
    ASSUME TypeOK, [Next]_vars, ~TransferCallbackReturns, NEW w \in Token, Reporting(w)
    PROVE  Reporting(w)'
<1>1. CASE UNCHANGED io
  BY <1>1 DEF Reporting
<1>2. CASE ListenStep
  BY <1>1, <1>2 DEF ListenStep, ListenFails, iokitListen, ListenStopsEarly, ListenGoesOn, ListenIsLost,
     iokitStopListen, NotifyDiscovered, NotifyTerminated, DiscoveryEnds, TerminationEnds, DiscoverHub, TerminateDevice,
     DisconnectedCallbackReturns, AppKeepsDevice, ConnectedCallbackReturns, iokitVars
<1>3. ASSUME NEW d \in Device, DeviceStep(d) PROVE Reporting(w)'
  <2>1. ASSUME NEW is \in SUBSET Interface, CloseInterfaces(d, is) PROVE io'[w] = io[w]
    BY <2>1 DEF CloseInterfaces, Outstanding, Reporting
  <2>2. CASE iokitClose(d) \/ \E index \in Interface: iokitCloseInterface(d, index)
    BY <2>1, <2>2 DEF iokitClose, iokitCloseInterface, Reporting, TypeOK
  <2>3. UNCHANGED io \/ iokitClose(d) \/ \E index \in Interface: iokitCloseInterface(d, index)
    BY <1>3 DEF DeviceStep, DiscoverDevice, Dispose, iokitOpen, DescriptorFails, SeizeFails, Seized, OpenCall,
         iokitOpenInterface, InterfaceRefused, InterfaceHalfOpen, InterfaceReady, InterfaceOpened,
         WildDeviceCall, WildSourceCall, WildSyncCall, WildPipeUse, iokitVars
  <2>. QED
    BY <1>1, <2>2, <2>3
<1>4. ASSUME NEW t \in Transfer, TransferStep(t) PROVE Reporting(w)'
  <2>1. ASSUME NEW v \in Token, iokitSubmitTransfer(t, v) PROVE io'[w] = io[w]
    BY <2>1 DEF iokitSubmitTransfer, StartIO, Reporting, TypeOK
  <2>2. CASE iokitCancelTransfer(t)
    BY <2>2 DEF iokitCancelTransfer, Reporting
  <2>. QED
    BY <1>1, <1>4, <2>1, <2>2 DEF TransferStep, AllocateTransfer, ReleaseTransfer, SetTransferInfo, WildPipeCall,
       WildPipeUse, iokitVars, Reporting
<1>5. CASE (\E v \in Token, result \in Result: IOCompletes(v, result)) \/ (\E v \in Token: iokitProcessEvents(v))
  BY <1>5 DEF IOCompletes, iokitProcessEvents, Outstanding, Reporting, TypeOK
<1>6. UNCHANGED vars => UNCHANGED io
  BY DEF vars, iokitVars
<1>. QED
  BY <1>1, <1>2, <1>3, <1>4, <1>5, <1>6 DEF Next, StaysLost

(* A step that calls no transfer back leaves the callbacks where they are.   *)
LEMMA CallbacksStay ==
    ASSUME TypeOK, [Next]_vars, ~TransferCallbackReturns, ~\E w \in Token: iokitProcessEvents(w)
    PROVE  \A k \in Nat: \A w: CallsBack(k, w)' <=> CallsBack(k, w)
<1>0. CoreTypeOK
  BY DEF TypeOK
<1>1. UNCHANGED frames \/ ListenOp \/ ConnectedReturns \/ \E d \in Device: DeviceOp(d)
  <2>1. CASE ListenStep
    <3>1. CASE ListenFails \/ iokitListen \/ ListenStopsEarly \/ ListenGoesOn \/ ListenIsLost \/ iokitStopListen
      BY <3>1 DEF ListenFails, iokitListen, ListenStopsEarly, ListenGoesOn, ListenIsLost, iokitStopListen, ListenOp,
           QuietListenOp, LosesPort, coreVars
    <3>2. CASE NotifyDiscovered \/ NotifyTerminated \/ DiscoveryEnds \/ TerminationEnds
      BY <3>2 DEF NotifyDiscovered, NotifyTerminated, DiscoveryEnds, TerminationEnds, ListenOp, QuietListenOp
    <3>3. CASE \/ \E r \in DevRef: DiscoverHub(r) \/ TerminateDevice(r)
               \/ DisconnectedCallbackReturns \/ AppKeepsDevice \/ ConnectedCallbackReturns
      BY <3>3 DEF DiscoverHub, TerminateDevice, DisconnectedCallbackReturns, AppKeepsDevice, ConnectedCallbackReturns,
           ListenOp, QuietListenOp, coreVars
    <3>. QED
      BY <2>1, <3>1, <3>2, <3>3 DEF ListenStep
  <2>2. ASSUME NEW d \in Device, DeviceStep(d) PROVE DeviceOp(d)
    BY <2>2, DeviceSteps
  <2>3. ASSUME NEW t \in Transfer, TransferStep(t) PROVE UNCHANGED frames \/ \E d \in Device: DeviceOp(d)
    BY <1>0, <2>3, TransferSteps, TransferOpTypes
  <2>4. CASE (\E w \in Token, result \in Result: IOCompletes(w, result)) \/ UNCHANGED vars
    BY <2>4 DEF IOCompletes, vars, coreVars
  <2>. QED
    BY <2>1, <2>2, <2>3, <2>4 DEF Next, StaysLost
<1>. QED
  BY <1>0, <1>1, OthersCallNoTransfer

(* The report of a request pushes one frame for it, or none. *)
LEMMA ReportFrames ==
    ASSUME TypeOK, RequestsAreOwed, NEW w \in Token, iokitProcessEvents(w)
    PROVE  /\ Outstanding(w) /\ io[w] \in Request /\ io[w].transfer \in Transfer
           /\ UNCHANGED <<mem, isOpen, transfer>>
           /\ \A v \in Token \ {w}: io'[v] = io[v]
           /\ \/ /\ Info(io[w].transfer).callback /\ io'[w] = [io[w] EXCEPT !.result = "delivered"]
                 /\ \E n \in Nat: \A k \in Nat: \A v: CallsBack(k, v)' <=> CallsBack(k, v) \/ (k = n /\ v = w)
              \/ /\ ~Info(io[w].transfer).callback /\ io'[w] = NULL
                 /\ \A k \in Nat: \A v: CallsBack(k, v)' <=> CallsBack(k, v)
<1>. DEFINE st == StatusOf(io[w].result)
            f  == TransferFrame(w, st)
<1>1. /\ Outstanding(w) /\ io[w] \in Request /\ io[w].transfer \in Transfer /\ st \in Status
  BY ReportTypes
<1>2. f \in Frame /\ f.kind = "transfer" /\ f.token = w
  BY <1>1, PushedFrames DEF TransferFrame, NewFrame
<1>3. /\ UNCHANGED <<mem, isOpen, transfer>>
      /\ frames' = IF Info(io[w].transfer).callback THEN Append(frames, f) ELSE frames
      /\ io' = IF Info(io[w].transfer).callback THEN [io EXCEPT ![w].result = "delivered"] ELSE [io EXCEPT ![w] = NULL]
  BY DEF iokitProcessEvents, usbusProcessEvents
<1>. HIDE DEF st, f
<1>4. CoreTypeOK /\ \A v \in Token \ {w}: io'[v] = io[v]
  BY <1>3 DEF TypeOK
<1>5. CASE Info(io[w].transfer).callback
  <2>1. io'[w] = [io[w] EXCEPT !.result = "delivered"]
    BY <1>3, <1>5 DEF TypeOK
  <2>2. /\ Len(frames) \in Nat
        /\ \A k \in Nat: \A v: CallsBack(k, v)' <=> CallsBack(k, v) \/ (k = Len(frames) + 1 /\ v = w)
    BY <1>2, <1>3, <1>4, <1>5, PushCallback
  <2>. QED
    BY <1>1, <1>3, <1>4, <1>5, <2>1, <2>2
<1>6. CASE ~Info(io[w].transfer).callback
  <2>1. io'[w] = NULL /\ UNCHANGED frames
    BY <1>3, <1>6 DEF TypeOK
  <2>. QED
    BY <1>1, <1>3, <1>4, <1>6, <2>1 DEF CallsBack
<1>. QED
  BY <1>5, <1>6

(* The callback that returns is that of the request on the top of the stack. *)
LEMMA ReturnFrames ==
    ASSUME TypeOK, CallbacksReport, TransferCallbackReturns
    PROVE  \E w \in Token, n \in Nat:
             /\ CallsBack(n, w) /\ Reporting(w)
             /\ io'[w] = NULL /\ \A v \in Token \ {w}: io'[v] = io[v]
             /\ UNCHANGED <<mem, isOpen, transfer>>
             /\ \A k \in Nat: \A v: CallsBack(k, v)' <=> CallsBack(k, v) /\ k # n
<1>. DEFINE w == Last(frames).token
            n == Len(frames)
<1>1. /\ Waiting("transfer") /\ frames' = Front(frames) /\ io' = [io EXCEPT ![w] = NULL]
      /\ UNCHANGED <<mem, isOpen, transfer>> /\ CoreTypeOK
  BY DEF TransferCallbackReturns, TransferReturns, TypeOK
<1>2. n \in Nat /\ n > 0 /\ Last(frames) = frames[n] /\ Last(frames).kind = "transfer"
  BY <1>1, TopFrame
<1>3. CallsBack(n, w)
  BY <1>1, <1>2, LenProperties DEF CallsBack, CoreTypeOK
<1>4. \A k \in Nat: \A v: CallsBack(k, v)' <=> CallsBack(k, v) /\ k # n
  BY <1>1, <1>2, PopCallback
<1>. HIDE DEF w, n
<1>5. w \in Token /\ Reporting(w)
  BY <1>2, <1>3 DEF CallbacksReport
<1>6. io'[w] = NULL /\ \A v \in Token \ {w}: io'[v] = io[v]
  BY <1>1, <1>5 DEF TypeOK
<1>. QED
  BY <1>1, <1>2, <1>3, <1>4, <1>5, <1>6

(* Every step keeps the stack and the reports together. *)
LEMMA CallbacksReportStep ==
    ASSUME TypeOK, RequestsAreOwed, CallbacksReport, [Next]_vars
    PROVE  CallbacksReport'
<1>1. CASE TransferCallbackReturns
  <2>1. PICK w \in Token, n \in Nat:
          /\ CallsBack(n, w) /\ \A v \in Token \ {w}: io'[v] = io[v]
          /\ \A k \in Nat: \A v: CallsBack(k, v)' <=> CallsBack(k, v) /\ k # n
    BY <1>1, ReturnFrames
  <2>2. ASSUME NEW k \in Nat, NEW v, CallsBack(k, v)'
        PROVE  v \in Token /\ Reporting(v)' /\ \A j \in Nat: CallsBack(j, v)' => j = k
    <3>1. CallsBack(k, v) /\ k # n
      BY <2>1, <2>2
    <3>2. v \in Token /\ Reporting(v) /\ v # w
      BY <2>1, <3>1 DEF CallbacksReport
    <3>3. \A j \in Nat: CallsBack(j, v)' => j = k
      BY <2>1, <3>1 DEF CallbacksReport
    <3>. QED
      BY <2>1, <3>2, <3>3 DEF Reporting
  <2>. QED
    BY <2>2 DEF CallbacksReport
<1>2. ASSUME NEW w \in Token, iokitProcessEvents(w) PROVE CallbacksReport'
  <2>1. Outstanding(w) /\ io[w] \in Request /\ \A v \in Token \ {w}: io'[v] = io[v]
    BY <1>2, ReportFrames
  <2>2. \A k \in Nat: ~CallsBack(k, w)
    BY <2>1 DEF CallbacksReport, Outstanding, Reporting
  <2>3. \A v \in Token \ {w}: Reporting(v)' <=> Reporting(v)
    BY <2>1 DEF Reporting
  <2>4. CASE \A k \in Nat: \A v: CallsBack(k, v)' <=> CallsBack(k, v)
    BY <2>2, <2>3, <2>4 DEF CallbacksReport
  <2>5. ASSUME NEW n \in Nat, \A k \in Nat: \A v: CallsBack(k, v)' <=> CallsBack(k, v) \/ (k = n /\ v = w),
               io'[w] = [io[w] EXCEPT !.result = "delivered"]
        PROVE  CallbacksReport'
    <3>1. Reporting(w)'
      <4>1. [io[w] EXCEPT !.result = "delivered"] \in Request /\ io'[w].result = "delivered"
        BY <2>1, <2>5 DEF Request
      <4>. QED
        BY <2>5, <4>1, IOKitAssumption DEF Reporting
    <3>2. ASSUME NEW k \in Nat, NEW v, CallsBack(k, v)'
          PROVE  v \in Token /\ Reporting(v)' /\ \A j \in Nat: CallsBack(j, v)' => j = k
      BY <2>2, <2>3, <2>5, <3>1, <3>2 DEF CallbacksReport
    <3>. QED
      BY <3>2 DEF CallbacksReport
  <2>. QED
    BY <1>2, <2>4, <2>5, ReportFrames
<1>3. CASE ~TransferCallbackReturns /\ ~\E w \in Token: iokitProcessEvents(w)
  BY <1>3, CallbacksStay, ReportingKept DEF CallbacksReport
<1>. QED
  BY <1>1, <1>2, <1>3

-----------------------------------------------------------------------------
(* Steps that move no request.                                               *)

(* A step that moves no request and touches no transfer only opens, closes   *)
(* or disposes devices.                                                      *)
LEMMA RequestsUntouched ==
    ASSUME UNCHANGED transfer,
           \A w \in Token: /\ Outstanding(w)' <=> Outstanding(w)
                           /\ Reporting(w)' <=> Reporting(w)
                           /\ io[w] # NULL => io'[w].transfer = io[w].transfer
    PROVE  Contract!Next
<1>1. \A w \in Token: io'[w] = NULL <=> io[w] = NULL
  BY DEF Outstanding, Reporting
<1>2. PhaseOf' = PhaseOf /\ SubjectOf' = SubjectOf
  BY <1>1 DEF PhaseOf, SubjectOf
<1>3. OpenDevices' \in SUBSET Device
  BY DEF OpenDevices
<1>4. Contract!OpenOrClose
  BY <1>2, <1>3 DEF Contract!OpenOrClose
<1>. QED
  BY <1>4 DEF Contract!Next

(* The same for steps that leave io alone. *)
LEMMA IOUntouched ==
    ASSUME UNCHANGED <<transfer, io>>
    PROVE  Contract!Next
<1>1. \A w \in Token: /\ Outstanding(w)' <=> Outstanding(w)
                      /\ Reporting(w)' <=> Reporting(w)
                      /\ io[w] # NULL => io'[w].transfer = io[w].transfer
  BY DEF Outstanding, Reporting
<1>. QED
  BY <1>1, RequestsUntouched

(* Listening. *)
LEMMA ListeningAllowed ==
    ASSUME TypeOK, ListenStep
    PROVE  Contract!Next
<1>1. UNCHANGED io
  BY DEF ListenStep, ListenFails, iokitListen, ListenStopsEarly, ListenGoesOn, ListenIsLost,
     iokitStopListen, NotifyDiscovered, NotifyTerminated, DiscoveryEnds, TerminationEnds, DiscoverHub, TerminateDevice,
     DisconnectedCallbackReturns, AppKeepsDevice, ConnectedCallbackReturns, iokitVars
<1>2. UNCHANGED transfer
  BY ListenSteps, LoopOpTypes, ConnectedReturnsTypes DEF coreVars, TypeOK
<1>. QED
  BY <1>1, <1>2, IOUntouched

(* Canceling, and what the kernel finds, change no phase. *)
LEMMA CancelAllowed ==
    ASSUME TypeOK, NEW t \in Transfer, iokitCancelTransfer(t)
    PROVE  Contract!Next
<1>1. \A w \in Token: io'[w] = io[w] \/ (io[w] # NULL /\ io'[w] = [io[w] EXCEPT !.aborting = TRUE])
  BY DEF iokitCancelTransfer
<1>2. ASSUME NEW w \in Token, io[w] # NULL, io'[w] = [io[w] EXCEPT !.aborting = TRUE]
      PROVE  io'[w] # NULL /\ io'[w].result = io[w].result /\ io'[w].transfer = io[w].transfer
  <2>1. io[w] \in Request /\ [io[w] EXCEPT !.aborting = TRUE] \in Request
    BY <1>2 DEF TypeOK, Request
  <2>. QED
    BY <1>2, <2>1, IOKitAssumption DEF Request
<1>3. \A w \in Token: /\ Outstanding(w)' <=> Outstanding(w)
                      /\ Reporting(w)' <=> Reporting(w)
                      /\ io[w] # NULL => io'[w].transfer = io[w].transfer
  BY <1>1, <1>2 DEF Outstanding, Reporting
<1>4. UNCHANGED transfer
  BY DEF iokitCancelTransfer, usbusCancelTransfer, coreVars
<1>. QED
  BY <1>3, <1>4, RequestsUntouched

(* The same for what the kernel finds. *)
LEMMA CompletionAllowed ==
    ASSUME TypeOK, NEW w \in Token, NEW result \in Result, IOCompletes(w, result)
    PROVE  Contract!Next
<1>1. /\ io[w] \in Request /\ io[w].result = "pending" /\ UNCHANGED transfer
      /\ io'[w] = [io[w] EXCEPT !.result = result] /\ \A v \in Token \ {w}: io'[v] = io[v]
  BY DEF IOCompletes, coreVars, TypeOK
<1>2. io[w] # NULL /\ [io[w] EXCEPT !.result = result] \in Request
  BY <1>1, IOKitAssumption DEF Request
<1>3. io'[w] # NULL /\ io'[w].result = result /\ result # "delivered" /\ io'[w].transfer = io[w].transfer
  BY <1>1, <1>2, IOKitAssumption DEF Request, Result
<1>4. \A v \in Token: /\ Outstanding(v)' <=> Outstanding(v)
                      /\ Reporting(v)' <=> Reporting(v)
                      /\ io[v] # NULL => io'[v].transfer = io[v].transfer
  BY <1>1, <1>2, <1>3 DEF Outstanding, Reporting
<1>. QED
  BY <1>1, <1>4, RequestsUntouched

(* The application prepares a transfer only while none of its requests is    *)
(* outstanding.                                                              *)
LEMMA PreparingAllowed ==
    ASSUME RequestInv, NEW t \in Transfer, AllocateTransfer(t) \/ ReleaseTransfer(t) \/ SetTransferInfo(t)
    PROVE  Contract!Next
<1>. USE DEF RequestInv
<1>1. /\ UNCHANGED <<mem, isOpen, io>>
      /\ \A u \in Transfer \ {t}: transfer'[u] = transfer[u]
      /\ transfer[t] = NULL \/ owed[t] = 0
  BY DEF AllocateTransfer, usbusAllocateTransfer, ReleaseTransfer, usbusReleaseTransfer, SetTransferInfo,
         usbusSetBulkTransferInfo, iokitVars, TypeOK, CoreTypeOK
<1>2. UNCHANGED <<OpenDevices, PhaseOf, SubjectOf>>
  BY <1>1 DEF OpenDevices, IsOpenDevice, PhaseOf, SubjectOf, Reporting, Outstanding
<1>3. \A w \in Token: Outstanding(w) => io[w].transfer # t
  BY <1>1, OutstandingIsOwed DEF NoReleasedInFlight
<1>4. Contract!Outstanding(t) = {}
  BY <1>3 DEF Contract!Outstanding, PhaseOf, SubjectOf, Outstanding, Reporting
<1>5. Contract!Prepare(t)
  BY <1>1, <1>2, <1>4 DEF Contract!Prepare
<1>. QED
  BY <1>5 DEF Contract!Next

-----------------------------------------------------------------------------
(* Steps that move requests.                                                 *)

(* How the phases and subjects change when only those of w do. *)
LEMMA OneRequestMoves ==
    ASSUME NEW w \in Token, NEW p, NEW s,
           PhaseOf'[w] = p, SubjectOf'[w] = s, \A v \in Token \ {w}: io'[v] = io[v]
    PROVE  /\ PhaseOf' = [PhaseOf EXCEPT ![w] = p]
           /\ SubjectOf' = [SubjectOf EXCEPT ![w] = s]
<1>1. \A v \in Token \ {w}: PhaseOf'[v] = PhaseOf[v] /\ SubjectOf'[v] = SubjectOf[v]
  BY DEF PhaseOf, SubjectOf, Outstanding, Reporting
<1>. QED
  BY <1>1 DEF PhaseOf, SubjectOf

(* An accepted request was idle and is outstanding. *)
LEMMA AcceptAllowed ==
    ASSUME RequestInv, NEW t \in Transfer, NEW w \in Token, iokitSubmitTransfer(t, w)
    PROVE  Contract!Next
<1>1. /\ IsOpenDevice(Info(t).device) /\ Info(t).device \in Device /\ transfer[t] # NULL
      /\ io[w] = NULL /\ io'[w].transfer = t /\ io'[w].result = "pending" /\ io'[w] # NULL
      /\ \A v \in Token \ {w}: io'[v] = io[v]
      /\ UNCHANGED <<mem, isOpen, transfer>>
  BY StartedRequest DEF iokitSubmitTransfer, usbusSubmitTransfer, RequestInv
<1>2. PhaseOf'[w] = "outstanding" /\ SubjectOf'[w] = t /\ PhaseOf[w] = "idle"
  BY <1>1 DEF PhaseOf, SubjectOf, Outstanding, Reporting
<1>3. /\ PhaseOf' = [PhaseOf EXCEPT ![w] = "outstanding"]
      /\ SubjectOf' = [SubjectOf EXCEPT ![w] = t]
  BY <1>1, <1>2, OneRequestMoves
<1>4. Contract!Accept(w, t)
  BY <1>1, <1>2, <1>3 DEF Contract!Accept, OpenDevices, IsOpenDevice, Info
<1>. QED
  BY <1>4 DEF Contract!Next

(* The run loop's source reports an outstanding request, or finishes it at   *)
(* once if its transfer has no callback.                                     *)
LEMMA ReportAllowed ==
    ASSUME RequestInv, NEW w \in Token, iokitProcessEvents(w)
    PROVE  Contract!Next
<1>. DEFINE t == io[w].transfer
<1>1. /\ Outstanding(w) /\ io[w] \in Request /\ UNCHANGED <<mem, isOpen, transfer>>
      /\ \A v \in Token \ {w}: io'[v] = io[v]
      /\ \/ Info(t).callback /\ io'[w] = [io[w] EXCEPT !.result = "delivered"]
         \/ ~Info(t).callback /\ io'[w] = NULL
  BY ReportFrames DEF RequestInv
<1>2. PhaseOf[w] = "outstanding" /\ SubjectOf[w] = t
  BY <1>1 DEF PhaseOf, SubjectOf, Outstanding, Reporting
<1>3. UNCHANGED OpenDevices
  BY <1>1 DEF OpenDevices, IsOpenDevice
<1>4. CASE Info(t).callback
  <2>1. io'[w] \in Request /\ io'[w].result = "delivered" /\ io'[w].transfer = t
    BY <1>1, <1>4 DEF Request
  <2>2. PhaseOf'[w] = "reporting" /\ SubjectOf'[w] = t
    BY <2>1, IOKitAssumption DEF PhaseOf, SubjectOf, Reporting
  <2>3. PhaseOf' = [PhaseOf EXCEPT ![w] = "reporting"] /\ SubjectOf' = [SubjectOf EXCEPT ![w] = t]
    BY <1>1, <2>2, OneRequestMoves
  <2>4. SubjectOf' = SubjectOf
    BY <1>2, <2>3 DEF SubjectOf
  <2>5. Contract!Report(w)
    BY <1>1, <1>2, <1>3, <1>4, <2>3, <2>4 DEF Contract!Report, Info
  <2>. QED
    BY <2>5 DEF Contract!Next
<1>5. CASE ~Info(t).callback
  <2>1. PhaseOf'[w] = "idle" /\ SubjectOf'[w] = NULL
    BY <1>1, <1>5 DEF PhaseOf, SubjectOf, Outstanding, Reporting
  <2>2. PhaseOf' = [PhaseOf EXCEPT ![w] = "idle"] /\ SubjectOf' = [SubjectOf EXCEPT ![w] = NULL]
    BY <1>1, <2>1, OneRequestMoves
  <2>3. Contract!Finish(w)
    BY <1>1, <1>2, <1>3, <1>5, <2>2 DEF Contract!Finish, Info
  <2>. QED
    BY <2>3 DEF Contract!Next
<1>. QED
  BY <1>4, <1>5

(* When its callback returns, a request is finished. *)
LEMMA FinishAllowed ==
    ASSUME TypeOK, CallbacksReport, TransferCallbackReturns
    PROVE  Contract!Next
<1>1. PICK w \in Token: /\ Reporting(w) /\ io'[w] = NULL /\ UNCHANGED <<mem, isOpen, transfer>>
                       /\ \A v \in Token \ {w}: io'[v] = io[v]
  BY ReturnFrames
<1>2. PhaseOf[w] = "reporting" /\ PhaseOf'[w] = "idle" /\ SubjectOf'[w] = NULL
  BY <1>1 DEF PhaseOf, SubjectOf, Outstanding, Reporting
<1>3. PhaseOf' = [PhaseOf EXCEPT ![w] = "idle"] /\ SubjectOf' = [SubjectOf EXCEPT ![w] = NULL]
  BY <1>1, <1>2, OneRequestMoves
<1>4. Contract!Finish(w)
  BY <1>1, <1>2, <1>3 DEF Contract!Finish, OpenDevices, IsOpenDevice
<1>. QED
  BY <1>4 DEF Contract!Next

(* No two open devices share a reference. *)
OpenDevicesApart ==
    \A d \in Device, e \in Device: d # e /\ IsOpenDevice(d) /\ IsOpenDevice(e) => dev[d] # dev[e]

(* An open device's reference has no request of another device. *)
RequestsApart ==
    \A w \in Token, d \in Device:
        Outstanding(w) /\ IsOpenDevice(d) /\ io[w].ref = dev[d] => Info(io[w].transfer).device = d

(* What the contract rests on, whatever the application does to ensure it.   *)
HomeInv == RequestInv /\ RequestsHaveDevices /\ RequestsApart

(* It is enough that requests run on open devices that are apart. *)
LEMMA ApartAtHome ==
    RequestsHaveDevices /\ RequestsOnOwnInterface /\ OpenDevicesApart => RequestsApart
BY DEF RequestsHaveDevices, RequestsOnOwnInterface, OpenDevicesApart, RequestsApart

(* Closing interfaces ends requests of that device only: no other open       *)
(* device runs requests on its reference.                                    *)
LEMMA ClosingAllowed ==
    ASSUME HomeInv, NEW d \in Device, IsOpenDevice(d), NEW is \in SUBSET Interface, CloseInterfaces(d, is),
           UNCHANGED transfer, OpenDevices' \in {OpenDevices, OpenDevices \ {d}}
    PROVE  Contract!Next
<1>. DEFINE gone == {w \in Token: Outstanding(w) /\ io[w].ref = dev[d] /\ io[w].index \in is}
<1>1. io' = [w \in Token |-> IF w \in gone THEN NULL ELSE io[w]]
  BY DEF CloseInterfaces
<1>2. \A w \in gone: /\ PhaseOf[w] = "outstanding" /\ SubjectOf[w] = io[w].transfer
                     /\ transfer[SubjectOf[w]].device = d
  <2>. SUFFICES ASSUME NEW w \in gone
                PROVE  /\ PhaseOf[w] = "outstanding" /\ SubjectOf[w] = io[w].transfer
                       /\ transfer[SubjectOf[w]].device = d
    OBVIOUS
  <2>. DEFINE e == Info(io[w].transfer).device
  <2>1. w \in Token /\ Outstanding(w) /\ io[w].ref = dev[d]
    OBVIOUS
  <2>3. e = d
    BY <2>1 DEF HomeInv, RequestsApart
  <2>4. PhaseOf[w] = "outstanding" /\ SubjectOf[w] = io[w].transfer
    BY <2>1 DEF PhaseOf, SubjectOf, Outstanding, Reporting
  <2>. QED
    BY <2>3, <2>4 DEF Info
<1>3. gone \in SUBSET {w \in Token: PhaseOf[w] = "outstanding" /\ transfer[SubjectOf[w]].device = d}
  BY <1>2
<1>. HIDE DEF gone
<1>4. gone \subseteq Token
  BY <1>3
<1>5. /\ PhaseOf' = [w \in Token |-> IF w \in gone THEN "idle" ELSE PhaseOf[w]]
      /\ SubjectOf' = [w \in Token |-> IF w \in gone THEN NULL ELSE SubjectOf[w]]
  BY <1>1, <1>4 DEF PhaseOf, SubjectOf, Outstanding, Reporting
<1>6. d \in OpenDevices
  BY DEF OpenDevices
<1>7. Contract!Forfeit(d)
  BY <1>3, <1>5, <1>6 DEF Contract!Forfeit
<1>. QED
  BY <1>7 DEF Contract!Next

(* Calls about devices. *)
LEMMA DeviceStepsAllowed ==
    ASSUME HomeInv, NEW d \in Device, DeviceStep(d)
    PROVE  Contract!Next
<1>. USE DEF HomeInv, RequestInv
<1>1. UNCHANGED transfer
  BY DeviceSteps, DeviceOpTypes DEF TypeOK
<1>2. CASE iokitClose(d)
  <2>1. IsOpenDevice(d) /\ OpenDevices' = OpenDevices \ {d}
    BY <1>2 DEF iokitClose, usbusClose, OpenDevices, IsOpenDevice, TypeOK, CoreTypeOK
  <2>. QED
    BY <1>1, <1>2, <2>1, ClosingAllowed DEF iokitClose, TypeOK
<1>3. ASSUME NEW index \in Interface, iokitCloseInterface(d, index) PROVE Contract!Next
  <2>1. IsOpenDevice(d) /\ OpenDevices' = OpenDevices
    BY <1>3 DEF iokitCloseInterface, InterfaceCall, coreVars, OpenDevices, IsOpenDevice
  <2>. QED
    BY <1>1, <1>3, <2>1, ClosingAllowed DEF iokitCloseInterface
<1>4. UNCHANGED io \/ iokitClose(d) \/ \E index \in Interface: iokitCloseInterface(d, index)
  BY DEF DeviceStep, DiscoverDevice, Dispose, iokitOpen, DescriptorFails, SeizeFails, Seized, OpenCall,
     iokitOpenInterface, InterfaceRefused, InterfaceHalfOpen, InterfaceReady, InterfaceOpened,
     WildDeviceCall, WildSourceCall, WildSyncCall, WildPipeUse, iokitVars
<1>. QED
  BY <1>1, <1>2, <1>3, <1>4, IOUntouched

-----------------------------------------------------------------------------
(* The theorem.                                                              *)

(* The library starts in the contract's initial state. *)
LEMMA InitAllowed == Init => Contract!Init /\ CallbacksReport
<1>. SUFFICES ASSUME Init PROVE Contract!Init /\ CallbacksReport
  OBVIOUS
<1>1. \A w \in Token: ~Outstanding(w) /\ ~Reporting(w) /\ io[w] = NULL
  BY DEF Init, Outstanding, Reporting
<1>2. OpenDevices = {}
  BY DEF Init, CoreInit, OpenDevices, IsOpenDevice
<1>3. PhaseOf = [w \in Token |-> "idle"] /\ SubjectOf = [w \in Token |-> NULL]
  BY <1>1 DEF PhaseOf, SubjectOf
<1>4. CallbacksReport
  BY DEF Init, CoreInit, CallbacksReport, CallsBack
<1>. QED
  BY <1>2, <1>3, <1>4 DEF Contract!Init, Init, CoreInit

(* Every step of the library is one of the contract, or a stutter. *)
LEMMA NextAllowed == HomeInv /\ CallbacksReport /\ [Next]_vars => [Contract!Next]_(Contract!vars)
<1>. SUFFICES ASSUME HomeInv, CallbacksReport, [Next]_vars PROVE [Contract!Next]_(Contract!vars)
  OBVIOUS
<1>. USE DEF HomeInv, RequestInv
<1>1. CASE ListenStep
  BY <1>1, ListeningAllowed
<1>2. ASSUME NEW d \in Device, DeviceStep(d) PROVE Contract!Next
  BY <1>2, DeviceStepsAllowed
<1>3. ASSUME NEW t \in Transfer, TransferStep(t) PROVE Contract!Next
  <2>1. CASE WildPipeCall(t)
    BY <2>1, IOUntouched DEF WildPipeCall, WildPipeUse, CallIsLost, iokitVars
  <2>. QED
    BY <1>3, <2>1, PreparingAllowed, AcceptAllowed, CancelAllowed DEF TransferStep
<1>4. ASSUME NEW w \in Token, iokitProcessEvents(w) PROVE Contract!Next
  BY <1>4, ReportAllowed
<1>5. CASE TransferCallbackReturns
  BY <1>5, FinishAllowed
<1>6. ASSUME NEW w \in Token, NEW result \in Result, IOCompletes(w, result) PROVE Contract!Next
  BY <1>6, CompletionAllowed
<1>7. CASE UNCHANGED vars
  BY <1>7 DEF vars, coreVars, iokitVars, Contract!vars, OpenDevices, IsOpenDevice, PhaseOf, SubjectOf,
              Reporting, Outstanding
<1>. QED
  BY <1>1, <1>2, <1>3, <1>4, <1>5, <1>6, <1>7 DEF Next, StaysLost

(* Asynchronous I/O on OS X keeps the contract too, for any number of        *)
(* devices if the application is disciplined: a request is accepted only for *)
(* an open device and is reported once, to its own transfer, unless its own  *)
(* device or interface is closed first.                                      *)
THEOREM KeepsContract == Disciplined => (Spec => ImplementsContract)
<1>. SUFFICES ASSUME Disciplined PROVE Spec => ImplementsContract
  OBVIOUS
<1>1. Init => Contract!Init /\ CallbacksReport
  BY InitAllowed
<1>2. DisciplinedInv /\ CallbacksReport /\ [Next]_vars => CallbacksReport'
  BY CallbacksReportStep DEF DisciplinedInv, RequestInv
<1>3. DisciplinedInv => HomeInv
  BY DEF DisciplinedInv, HomeInv, RequestsOfActive, RequestsApart, Active, IsOpenDevice
<1>4. HomeInv /\ CallbacksReport /\ [Next]_vars => [Contract!Next]_(Contract!vars)
  BY NextAllowed
<1>. QED
  BY <1>1, <1>2, <1>3, <1>4, DisciplinedInvariant, PTL DEF Spec, ImplementsContract, Contract!Spec

(* Where there is one device at a time the contract needs no rule: whatever  *)
(* the application does with it, opening it again after it failed or was     *)
(* closed, opening interfaces twice, disposing it while it is open, and      *)
(* wherever interfaces fail, up to a call that is lost every request is      *)
(* reported once to its own transfer or ended by a close.                    *)
THEOREM OneDeviceKeepsContract ==
    (\A d \in Device, e \in Device: d = e) => (Spec => ImplementsContract)
<1>. SUFFICES ASSUME \A d \in Device, e \in Device: d = e PROVE Spec => ImplementsContract
  OBVIOUS
<1>. DEFINE I == RequestInv /\ RequestsHaveDevices /\ CallbacksReport
<1>1. Init => I /\ Contract!Init
  <2>1. Init => \A w \in Token: ~Outstanding(w)
    BY DEF Init, Outstanding
  <2>. QED
    BY <2>1, RequestInvInit, InitAllowed DEF RequestsHaveDevices
<1>2. I /\ [Next]_vars => I'
  <2>. SUFFICES ASSUME I, [Next]_vars PROVE I'
    OBVIOUS
  <2>1. RequestInv'
    BY TypeStep, OpenHasReferenceStep, RequestsAreOwedStep, NoReleasedStep DEF RequestInv
  <2>2. RequestsHaveDevices'
    BY RequestsKeepDevices
  <2>3. CallbacksReport'
    BY CallbacksReportStep DEF RequestInv
  <2>. QED
    BY <2>1, <2>2, <2>3
<1>3. I => HomeInv
  BY DEF HomeInv, RequestsHaveDevices, RequestsApart
<1>4. I /\ [Next]_vars => [Contract!Next]_(Contract!vars)
  BY <1>3, NextAllowed
<1>. QED
  BY <1>1, <1>2, <1>4, PTL DEF Spec, ImplementsContract, Contract!Spec
=============================================================================
