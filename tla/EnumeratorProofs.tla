--------------------------- MODULE EnumeratorProofs ---------------------------
(* Theorems about Enumerator, for every device, configuration and failure:   *)
(* the client is an application of IOKit and a caller of the loops of        *)
(* Descriptors, it gives back what it opened, and it loses a call in one     *)
(* place only.                                                               *)
EXTENDS Enumerator, IOKitProofs, DescriptorsProofs

-----------------------------------------------------------------------------
(* The inductive invariant.                                                  *)

(* The places inside the callback where the device is open, and all of them. *)
Walking    == {"product", "manufacturer", "configs", "interfaces", "descriptor", "endpoints", "closing"}
InCallback == Walking \cup {"called", "return"}

(* Only the call that closes the device can be lost, and nothing goes on     *)
(* after it.                                                                 *)
StackInv ==
    /\ NoLostFrame \/ (place = "closing" /\ Waiting("lost source"))
    /\ place \in InCallback => Waiting("connected") \/ Waiting("lost source")

(* An interface that is set is open, one that is in the run loop has its     *)
(* source, and one that is open is set, unless it was opened again.          *)
WalkedInterface(d, i) ==
    /\ i \in intf[d] => usbIntf[dev[d]][i] # "closed"
    /\ usbIntf[dev[d]][i] = "attached" => source[d][i] = "live"
    /\ usbIntf[dev[d]][i] # "closed" => i \in intf[d] \/ <<dev[d], i>> \in reopened

HandledInv ==
    \A d \in Device: Handling(d) =>
        /\ place = "called" =>
            /\ dev[d] \in DevRef /\ devRef[dev[d]] = "idle" /\ intf[d] = {}
            /\ \A i \in Interface: usbIntf[dev[d]][i] = "closed"
        /\ place \in Walking =>
            /\ dev[d] \in DevRef /\ devRef[dev[d]] = "open"
            /\ \A i \in Interface: WalkedInterface(d, i)

WalkInv == StackInv /\ HandledInv /\ LostOnlyInHalfOpen /\ InterfacesGivenBack

EnumInv == RequestInv /\ ListeningHasPort /\ WalkInv

-----------------------------------------------------------------------------
(* The client as an application of IOKit and a caller of Descriptors.        *)

(* The client asks the library for nothing that an arbitrary application     *)
(* could not ask it for.                                                     *)
LEMMA EnumIsAnApplication ==
    ASSUME TypeOK, [EnumNext]_enumVars
    PROVE  [Next]_vars
<1>1. CASE Listens \/ ListenLoops \/ Returns \/ StopsListening
  BY <1>1 DEF Listens, ListenLoops, Returns, StopsListening, Next, ListenStep
<1>2. CASE IsCalled
  BY <1>2 DEF IsCalled, Next, DeviceStep
<1>3. ASSUME NEW d \in Device, OpenFails(d) \/ Opens(d) \/ Closes(d) PROVE [Next]_vars
  BY <1>3 DEF OpenFails, Opens, Closes, iokitOpen, Next, DeviceStep
<1>4. ASSUME NEW d \in Device, SkipsInterface(d) \/ OpensInterface(d) PROVE [Next]_vars
  BY <1>4 DEF SkipsInterface, OpensInterface, iokitOpenInterface, Next, DeviceStep
<1>5. ASSUME NEW d \in Device, ClosesInterface(d) PROVE [Next]_vars
  <2>1. iokitCloseInterface(d, intfIndex) /\ intfIndex \in Interface
    BY <1>5 DEF ClosesInterface, iokitCloseInterface, TypeOK
  <2>. QED
    BY <2>1 DEF Next, DeviceStep
<1>6. CASE \/ AsksForString \/ ConvertsString \/ HasString
           \/ HasConfiguration \/ LeavesConfigurations \/ NextConfiguration
           \/ AsksForInterface \/ Searches \/ LeavesInterfaceOpen \/ HasInterface
           \/ ReportsEndpoint
  BY <1>6 DEF AsksForString, ConvertsString, HasString, HasConfiguration, LeavesConfigurations, NextConfiguration,
     AsksForInterface, Searches, LeavesInterfaceOpen, HasInterface, ReportsEndpoint
<1>7. CASE CallbackStep
  BY <1>3, <1>4, <1>5, <1>6, <1>7 DEF CallbackStep
<1>8. CASE Finished \/ StaysLost \/ UNCHANGED enumVars
  BY <1>8 DEF Finished, StaysLost, enumVars
<1>. QED
  BY <1>1, <1>2, <1>7, <1>8 DEF EnumNext

(* Its queries run the loops of Descriptors one at a time, each to its end.  *)
LEMMA EnumCallsDescriptors == [EnumNext]_enumVars => [DescNext]_descVars
<1>. SUFFICES ASSUME [EnumNext]_enumVars PROVE [DescNext]_descVars
  OBVIOUS
<1>1. UnicodeSize \in Rooms /\ 0 \in Number
  BY EnumeratorAssumption, DescriptorsAssumption
<1>2. CASE Listens \/ ListenLoops \/ IsCalled \/ Returns \/ StopsListening
  BY <1>2 DEF Listens, ListenLoops, IsCalled, Returns, StopsListening
<1>3. ASSUME NEW d \in Device,
             OpenFails(d) \/ Opens(d) \/ Closes(d) \/ SkipsInterface(d) \/ OpensInterface(d) \/ ClosesInterface(d)
      PROVE  [DescNext]_descVars
  BY <1>3 DEF OpenFails, Opens, Closes, SkipsInterface, OpensInterface, ClosesInterface, DescNext, SearchStep
<1>4. CASE AsksForString \/ ConvertsString \/ HasString
  BY <1>1, <1>4 DEF AsksForString, ConvertsString, HasString, DescNext, StringStep
<1>5. CASE AsksForInterface
  BY <1>1, <1>5 DEF AsksForInterface, DescNext, SearchStep
<1>6. CASE Searches
  BY <1>6 DEF Searches, DescNext, SearchStep
<1>7. CASE LeavesInterfaceOpen \/ HasInterface
  <2>1. UNCHANGED descVars \/ CallReturns({"not found"}) \/ CallReturns({"found"})
    BY <1>7 DEF LeavesInterfaceOpen, HasInterface
  <2>2. CallReturns({"not found"}) \/ CallReturns({"found"}) => CallReturns({"found", "not found"})
    BY DEF CallReturns
  <2>. QED
    BY <2>1, <2>2 DEF DescNext, SearchStep
<1>8. CASE HasConfiguration \/ LeavesConfigurations \/ NextConfiguration \/ ReportsEndpoint
  BY <1>8 DEF HasConfiguration, LeavesConfigurations, NextConfiguration, ReportsEndpoint
<1>9. CASE CallbackStep
  BY <1>3, <1>4, <1>5, <1>6, <1>7, <1>8, <1>9 DEF CallbackStep
<1>10. CASE Finished \/ (StaysLost /\ UNCHANGED <<descVars, place, walkVars>>) \/ UNCHANGED enumVars
  BY <1>10 DEF Finished, enumVars
<1>. QED
  BY <1>2, <1>9, <1>10 DEF EnumNext

(* The client stops listening when usbusListen() has returned. *)
LEMMA StopsAfterwards ==
    ASSUME TypeOK, [EnumNext]_enumVars, portRef, ~portRef'
    PROVE  frames = <<>>
<1>1. portRef' # portRef
  OBVIOUS
<1>2. CASE Listens \/ ListenLoops \/ IsCalled \/ Returns
  BY <1>1, <1>2 DEF Listens, iokitListen, ListenFails, ListenLoops, ListenStopsEarly, ListenGoesOn, ListenIsLost,
     TerminationEnds, DisconnectedCallbackReturns, DiscoverHub, TerminateDevice, IsCalled, DiscoverDevice, Returns,
     ConnectedCallbackReturns, iokitVars, listenVars
<1>3. ASSUME NEW d \in Device, OpenFails(d) \/ Opens(d) \/ Closes(d) PROVE UNCHANGED portRef
  BY <1>3 DEF OpenFails, Opens, Closes, iokitOpen, DescriptorFails, SeizeFails, Seized, OpenCall, iokitClose,
     WildSourceCall, iokitVars, listenVars
<1>4. ASSUME NEW d \in Device, SkipsInterface(d) \/ OpensInterface(d) \/ ClosesInterface(d)
      PROVE  UNCHANGED portRef
  BY <1>4 DEF SkipsInterface, OpensInterface, ClosesInterface, InterfaceRefused, InterfaceHalfOpen, InterfaceReady,
     InterfaceOpened, iokitCloseInterface, vars, iokitVars, listenVars
<1>5. CASE \/ AsksForString \/ ConvertsString \/ HasString
           \/ HasConfiguration \/ LeavesConfigurations \/ NextConfiguration
           \/ AsksForInterface \/ Searches \/ LeavesInterfaceOpen \/ HasInterface
           \/ ReportsEndpoint
  BY <1>1, <1>5 DEF AsksForString, ConvertsString, HasString, HasConfiguration, LeavesConfigurations,
     NextConfiguration, AsksForInterface, Searches, LeavesInterfaceOpen, HasInterface, ReportsEndpoint,
     vars, iokitVars, listenVars
<1>6. CASE Finished \/ StaysLost \/ UNCHANGED enumVars
  BY <1>1, <1>6 DEF Finished, StaysLost, enumVars, vars, iokitVars, listenVars
<1>7. CASE StopsListening
  BY <1>7 DEF StopsListening
<1>. QED
  BY <1>1, <1>2, <1>3, <1>4, <1>5, <1>6, <1>7 DEF EnumNext, CallbackStep

-----------------------------------------------------------------------------
(* The invariant, step by step.                                              *)

(* Outside the last call of the callback nothing is lost. *)
LEMMA NothingLostYet ==
    ASSUME CoreTypeOK, StackInv, place # "closing" \/ Waiting("connected")
    PROVE  NoLostFrame
BY DEF StackInv, Waiting

(* After a step that leaves nothing lost there is nothing to explain. *)
LEMMA NothingLostThen ==
    ASSUME CoreTypeOK', NoLostFrame'
    PROVE  LostOnlyInHalfOpen'
<1>. SUFFICES ASSUME NEW kind \in Lost, Waiting(kind)' PROVE FALSE
  BY DEF LostOnlyInHalfOpen
<1>1. frames' \in Seq(Frame) /\ Len(frames') > 0 /\ Last(frames').kind = kind
  BY DEF CoreTypeOK, Waiting
<1>2. Last(frames') = frames'[Len(frames')] /\ Len(frames') \in DOMAIN frames'
  BY <1>1, LastOfSeq, LenProperties
<1>. QED
  BY <1>1, <1>2 DEF NoLostFrame, NoFrameOf

(* What a step that takes at most a fresh reference leaves given back. *)
LEMMA GivenBackStays ==
    ASSUME TypeOK, InterfacesGivenBack, UNCHANGED <<usbIntf, reopened>>,
           UNCHANGED devRef \/ \E r \in DevRef: devRef' = [devRef EXCEPT ![r] = "idle"]
    PROVE  InterfacesGivenBack'
BY DEF InterfacesGivenBack, TypeOK

(* Listening, its loops and stopping. *)
LEMMA ListeningKeeps ==
    ASSUME TypeOK, ListeningHasPort, WalkInv, Listens \/ ListenLoops \/ StopsListening
    PROVE  WalkInv'
<1>. USE DEF WalkInv
<1>1. CoreTypeOK /\ ListenStep
  BY DEF TypeOK, Listens, ListenLoops, StopsListening, ListenStep
<1>2. place' \in {"listening", "done"} /\ place # "closing" /\ UNCHANGED reopened
  BY DEF Listens, ListenLoops, StopsListening, Goes, walkVars
<1>3. NoLostFrame
  BY <1>1, <1>2, NothingLostYet
<1>4. CoreTypeOK' /\ NoLostFrame'
  <2>1. CoreTypeOK'
    <3>1. CASE UNCHANGED coreVars
      BY <1>1, <3>1 DEF coreVars, CoreTypeOK
    <3>. QED
      BY <1>1, <3>1, ListenSteps, LoopOpTypes, ConnectedReturnsTypes
  <2>2. NoFrameOf(Lost) /\ Lost \in SUBSET ({"listen"} \cup Lost)
    BY <1>3 DEF NoLostFrame
  <2>3. CASE LosesPort /\ Waiting("listen") /\ ~portRef
    BY <1>1, <2>3, WaitingIsFrame DEF ListeningHasPort
  <2>4. CASE QuietListenOp \/ TransferReturns \/ ConnectedReturns
    BY <1>1, <2>1, <2>2, <2>4, QuietKeepsOut DEF NoLostFrame
  <2>5. CASE usbusListen \/ UNCHANGED frames
    BY <1>1, <2>1, <2>2, <2>5, AnnouncedKeepsOut DEF NoLostFrame
  <2>. QED
    BY <1>1, <2>3, <2>4, <2>5, ListenFrames
<1>5. StackInv' /\ HandledInv'
  BY <1>2, <1>4 DEF StackInv, HandledInv, InCallback, Walking
<1>6. LostOnlyInHalfOpen'
  BY <1>4, NothingLostThen
<1>7. InterfacesGivenBack'
  BY <1>1, <1>2, ListenSteps, GivenBackStays DEF intfVars
<1>. QED
  BY <1>5, <1>6, <1>7


(* A device is announced: its reference is a new one, with no interface open. *)
LEMMA IsCalledKeeps ==
    ASSUME TypeOK, WalkInv, IsCalled
    PROVE  WalkInv'
<1>. USE DEF WalkInv
<1>0. CoreTypeOK
  BY DEF TypeOK
<1>1. PICK d \in Device, r \in DevRef: DiscoverDevice(d, r)
  BY DEF IsCalled
<1>2. place = "listening" /\ place' = "called" /\ UNCHANGED reopened
  BY DEF IsCalled, Goes, walkVars
<1>3. dispatchConnectedDevice(d) /\ frames' = Append(frames, ConnectedFrame(d))
  BY <1>1 DEF DiscoverDevice, dispatchConnectedDevice
<1>4. CoreTypeOK' /\ NoLostFrame'
  <2>1. NoFrameOf(Lost) /\ Lost \in SUBSET ({"listen"} \cup Lost)
    BY <1>0, <1>2, NothingLostYet DEF NoLostFrame
  <2>. QED
    BY <1>0, <1>3, <2>1, AnnouncedKeepsOut, DeviceOpTypes DEF DeviceOp, NoLostFrame
<1>5. ConnectedFrame(d).kind = "connected" /\ ConnectedFrame(d).device = d
  BY DEF ConnectedFrame, NewFrame
<1>6. Len(frames') > 0 /\ Last(frames') = ConnectedFrame(d)
  BY <1>0, <1>3, PushedFrames, LastOfAppended DEF CoreTypeOK
<1>7. StackInv'
  BY <1>4, <1>5, <1>6 DEF StackInv, Waiting
<1>8. HandledInv'
  <2>1. \A e \in Device: Handling(e)' => e = d
    BY <1>5, <1>6 DEF Handling
  <2>2. /\ dev'[d] = r /\ devRef'[r] = "idle" /\ intf'[d] = {}
        /\ \A i \in Interface: usbIntf'[r][i] = "closed"
    BY <1>1 DEF DiscoverDevice, TakeRef, Fresh, AllInterfaces, TypeOK
  <2>. QED
    BY <1>2, <2>1, <2>2 DEF HandledInv, Walking
<1>9. InterfacesGivenBack'
  BY <1>1, <1>2, GivenBackStays DEF DiscoverDevice, TakeRef
<1>. QED
  BY <1>4, <1>7, <1>8, <1>9, NothingLostThen

(* The callback returns; what is left open is left to the system. *)
LEMMA ReturnsKeeps ==
    ASSUME TypeOK, WalkInv, Returns
    PROVE  WalkInv'
<1>. USE DEF WalkInv
<1>0. CoreTypeOK
  BY DEF TypeOK
<1>1. place = "return" /\ place' = "listening" /\ ConnectedReturns /\ UNCHANGED <<iokitVars, reopened>>
  BY DEF Returns, Goes, ConnectedCallbackReturns
<1>2. CoreTypeOK' /\ NoLostFrame'
  <2>1. NoFrameOf(Lost) /\ Lost \in SUBSET ({"listen"} \cup Lost)
    BY <1>0, <1>1, NothingLostYet DEF NoLostFrame
  <2>. QED
    BY <1>0, <1>1, <2>1, ConnectedReturnsTypes, QuietKeepsOut DEF NoLostFrame
<1>3. StackInv' /\ HandledInv'
  BY <1>1, <1>2 DEF StackInv, HandledInv, InCallback, Walking
<1>4. InterfacesGivenBack'
  BY <1>1 DEF InterfacesGivenBack, iokitVars, deviceVars, intfVars
<1>. QED
  BY <1>2, <1>3, <1>4, NothingLostThen

(* The stack stays while the callback goes on. *)
LEMMA CallbackGoesOn ==
    ASSUME TypeOK, WalkInv, UNCHANGED frames, Waiting("connected"), place' \in InCallback
    PROVE  StackInv' /\ LostOnlyInHalfOpen'
<1>1. NoLostFrame /\ frames \in Seq(Frame)
  BY NothingLostYet DEF WalkInv, TypeOK, CoreTypeOK
<1>. QED
  BY <1>1 DEF StackInv, NoLostFrame, NoFrameOf, LostOnlyInHalfOpen, Waiting, Lost

(* The device is opened, or the callback gives up. *)
LEMMA OpeningKeeps ==
    ASSUME TypeOK, WalkInv, NEW d \in Device, Handling(d), OpenFails(d) \/ Opens(d)
    PROVE  WalkInv'
<1>. USE DEF WalkInv
<1>1. /\ place = "called" /\ place' \in {"return", "product"} /\ UNCHANGED <<frames, dev, intfVars, reopened>>
      /\ \/ UNCHANGED devRef
         \/ devRef' = [devRef EXCEPT ![dev[d]] = "free"]
         \/ devRef' = [devRef EXCEPT ![dev[d]] = "open"]
      /\ place' = "product" => devRef' = [devRef EXCEPT ![dev[d]] = "open"]
  BY DEF OpenFails, Opens, Goes, iokitOpen, DescriptorFails, SeizeFails, Seized, OpenCall, usbusOpen, walkVars
<1>2. /\ dev[d] \in DevRef /\ intf[d] = {} /\ \A i \in Interface: usbIntf[dev[d]][i] = "closed"
      /\ \A e \in Device: Handling(e)' => e = d
  BY <1>1 DEF HandledInv, Handling, Waiting
<1>3. StackInv' /\ LostOnlyInHalfOpen'
  BY <1>1, CallbackGoesOn DEF Handling, InCallback, Walking
<1>4. HandledInv'
  BY <1>1, <1>2 DEF HandledInv, WalkedInterface, Walking, intfVars, TypeOK
<1>5. InterfacesGivenBack'
  BY <1>1, <1>2 DEF InterfacesGivenBack, intfVars, TypeOK
<1>. QED
  BY <1>3, <1>4, <1>5

(* Closing the device gives back every interface that is set, or trips over  *)
(* one that is open without a source.                                        *)
LEMMA ClosingKeeps ==
    ASSUME TypeOK, WalkInv, NEW d \in Device, Handling(d), Closes(d)
    PROVE  WalkInv'
<1>. USE DEF WalkInv
<1>0. CoreTypeOK
  BY DEF TypeOK
<1>1. place = "closing" /\ UNCHANGED reopened
  BY DEF Closes, walkVars
<1>2. /\ dev[d] \in DevRef /\ devRef[dev[d]] = "open" /\ \A i \in Interface: WalkedInterface(d, i)
  BY <1>1 DEF HandledInv, Walking
<1>3. CASE iokitClose(d) /\ place' = "return"
  <2>1. UNCHANGED frames /\ devRef' = [devRef EXCEPT ![dev[d]] = "free"]
    BY <1>3 DEF iokitClose, usbusClose
  <2>2. \A q \in DevRef, i \in Interface:
          usbIntf'[q][i] = IF q = dev[d] /\ i \in intf[d] THEN "closed" ELSE usbIntf[q][i]
    BY <1>2, <1>3 DEF iokitClose, CloseInterfaces, TypeOK
  <2>3. StackInv' /\ LostOnlyInHalfOpen'
    BY <1>3, <2>1, CallbackGoesOn DEF Handling, InCallback
  <2>4. HandledInv'
    BY <1>3 DEF HandledInv, Walking
  <2>5. InterfacesGivenBack'
    BY <1>1, <1>2, <2>1, <2>2 DEF InterfacesGivenBack, WalkedInterface, TypeOK
  <2>. QED
    BY <2>3, <2>4, <2>5
<1>4. CASE WildSourceCall(d) /\ UNCHANGED place
  <2>1. PICK f \in Frame: f.kind = "lost source" /\ frames' = Append(frames, f)
    BY <1>4, PushedFrames DEF WildSourceCall, CallIsLost, LostFrame, NewFrame, Lost
  <2>2. UNCHANGED iokitVars
    BY <1>4 DEF WildSourceCall
  <2>3. Len(frames') > 0 /\ Last(frames').kind = "lost source"
    BY <1>0, <2>1, LastOfAppended DEF CoreTypeOK
  <2>4. PICK i \in Interface: usbIntf[dev[d]][i] = "open"
    <3>1. PICK i \in intf[d]: source[d][i] # "live"
      BY <1>4 DEF WildSourceCall
    <3>2. i \in Interface /\ usbIntf[dev[d]][i] \in {"closed", "open", "attached"}
      BY <1>2, <3>1 DEF TypeOK
    <3>. QED
      BY <1>2, <3>1, <3>2 DEF WalkedInterface
  <2>5. StackInv' /\ HandledInv' /\ LostOnlyInHalfOpen'
    BY <1>1, <1>2, <1>4, <2>2, <2>3, <2>4
       DEF StackInv, HandledInv, Handling, LostOnlyInHalfOpen, Waiting, iokitVars, deviceVars, intfVars
  <2>6. InterfacesGivenBack'
    BY <1>1, <2>2 DEF InterfacesGivenBack, iokitVars, deviceVars, intfVars
  <2>. QED
    BY <2>5, <2>6
<1>. QED
  BY <1>3, <1>4 DEF Closes


(* An interface is skipped, opened, again perhaps, or closed. *)
LEMMA InterfacesKeep ==
    ASSUME TypeOK, WalkInv, NEW d \in Device, Handling(d),
           SkipsInterface(d) \/ OpensInterface(d) \/ ClosesInterface(d)
    PROVE  WalkInv'
<1>. USE DEF WalkInv
<1>1. place \in {"interfaces", "endpoints"} /\ place' \in {"interfaces", "descriptor"}
  BY DEF SkipsInterface, OpensInterface, ClosesInterface, Goes
<1>2. /\ dev[d] \in DevRef /\ devRef[dev[d]] = "open" /\ \A i \in Interface: WalkedInterface(d, i)
      /\ \A e \in Device: Handling(e) => e = d
  BY <1>1 DEF HandledInv, Walking, Handling
<1>3. ASSUME UNCHANGED <<frames, dev, devRef>>, reopened \subseteq reopened',
             \A i \in Interface: WalkedInterface(d, i)',
             \A q \in DevRef, i \in Interface: q # dev[d] => usbIntf'[q][i] = usbIntf[q][i]
      PROVE  WalkInv'
  <2>1. StackInv' /\ LostOnlyInHalfOpen'
    BY <1>1, <1>3, CallbackGoesOn DEF Handling, InCallback, Walking
  <2>2. HandledInv'
    BY <1>1, <1>2, <1>3 DEF HandledInv, Handling, Waiting
  <2>3. InterfacesGivenBack'
    BY <1>2, <1>3 DEF InterfacesGivenBack
  <2>. QED
    BY <2>1, <2>2, <2>3
<1>. HIDE DEF WalkInv
<1>4. ASSUME UNCHANGED <<vars, reopened>> PROVE WalkInv'
  BY <1>2, <1>3, <1>4 DEF vars, coreVars, iokitVars, deviceVars, intfVars, WalkedInterface
<1>5. ASSUME NEW index \in Interface, index = intfIndex, InterfaceRefused(d, index), Reopens(d) PROVE WalkInv'
  <2>1. /\ UNCHANGED <<frames, dev, devRef, source, usbIntf>>
        /\ intf' = [intf EXCEPT ![d] = @ \ {index}]
    BY <1>5 DEF InterfaceRefused, InterfaceCall, coreVars, deviceVars
  <2>2. reopened \subseteq reopened' /\ (index \in intf[d] => <<dev[d], index>> \in reopened')
    BY <1>5 DEF Reopens
  <2>3. \A i \in Interface: WalkedInterface(d, i)'
    BY <1>2, <2>1, <2>2 DEF WalkedInterface, TypeOK
  <2>. QED
    BY <1>3, <2>1, <2>2, <2>3
<1>6. ASSUME NEW index \in Interface, index = intfIndex, Reopens(d),
             InterfaceHalfOpen(d, index) \/ InterfaceReady(d, index)
      PROVE  WalkInv'
  <2>1. /\ UNCHANGED <<frames, dev, devRef>>
        /\ intf' = [intf EXCEPT ![d] = @ \cup {index}]
        /\ \/ usbIntf' = [usbIntf EXCEPT ![dev[d]][index] = "open"] /\ UNCHANGED source
           \/ /\ usbIntf' = [usbIntf EXCEPT ![dev[d]][index] = "attached"]
              /\ source' = [source EXCEPT ![d][index] = "live"]
    BY <1>6 DEF InterfaceHalfOpen, InterfaceReady, InterfaceOpened, InterfaceCall, coreVars, deviceVars
  <2>2. reopened \subseteq reopened'
    BY <1>6 DEF Reopens
  <2>3. /\ intf'[d] = intf[d] \cup {index}
        /\ \A i \in Interface \ {index}: usbIntf'[dev[d]][i] = usbIntf[dev[d]][i] /\ source'[d][i] = source[d][i]
        /\ \A q \in DevRef, i \in Interface: q # dev[d] => usbIntf'[q][i] = usbIntf[q][i]
        /\ \/ usbIntf'[dev[d]][index] = "open"
           \/ usbIntf'[dev[d]][index] = "attached" /\ source'[d][index] = "live"
    BY <1>2, <2>1 DEF TypeOK
  <2>4. \A i \in Interface: WalkedInterface(d, i)'
    BY <1>2, <2>1, <2>2, <2>3 DEF WalkedInterface
  <2>. QED
    BY <1>3, <2>1, <2>2, <2>3, <2>4
<1>7. ASSUME iokitCloseInterface(d, intfIndex), UNCHANGED reopened PROVE WalkInv'
  <2>1. UNCHANGED <<frames, dev, devRef>> /\ intfIndex \in Interface /\ CloseInterfaces(d, {intfIndex})
    BY <1>7 DEF iokitCloseInterface, InterfaceCall, coreVars, deviceVars, TypeOK
  <2>2. /\ intf'[d] = intf[d] \ {intfIndex} /\ usbIntf'[dev[d]][intfIndex] = "closed"
        /\ \A i \in Interface \ {intfIndex}: usbIntf'[dev[d]][i] = usbIntf[dev[d]][i] /\ source'[d][i] = source[d][i]
        /\ \A q \in DevRef, i \in Interface: q # dev[d] => usbIntf'[q][i] = usbIntf[q][i]
    BY <1>2, <2>1 DEF CloseInterfaces, TypeOK
  <2>3. \A i \in Interface: WalkedInterface(d, i)'
    BY <1>2, <1>7, <2>1, <2>2 DEF WalkedInterface
  <2>. QED
    BY <1>3, <1>7, <2>1, <2>2, <2>3
<1>. QED
  BY <1>4, <1>5, <1>6, <1>7 DEF SkipsInterface, OpensInterface, ClosesInterface

(* Queries and loops over what they tell leave the library alone. *)
LEMMA WalkingKeeps ==
    ASSUME TypeOK, WalkInv, UNCHANGED <<vars, reopened>>,
           place' = place \/ (place \in Walking \ {"closing"} /\ place' \in Walking)
    PROVE  WalkInv'
<1>. USE DEF WalkInv, vars, coreVars, iokitVars, deviceVars, intfVars
<1>1. LostOnlyInHalfOpen' /\ InterfacesGivenBack'
  BY DEF LostOnlyInHalfOpen, Waiting, InterfacesGivenBack
<1>2. HandledInv'
  BY DEF HandledInv, Handling, Waiting, WalkedInterface, Walking
<1>3. StackInv'
  BY DEF StackInv, NoLostFrame, NoFrameOf, Waiting, InCallback, Walking
<1>. QED
  BY <1>1, <1>2, <1>3

(* A step between the calls of the callback is one of those. *)
LEMMA BetweenCalls ==
    ASSUME \/ AsksForString \/ ConvertsString \/ HasString
           \/ HasConfiguration \/ LeavesConfigurations \/ NextConfiguration
           \/ AsksForInterface \/ Searches \/ LeavesInterfaceOpen \/ HasInterface
           \/ ReportsEndpoint \/ Finished
           \/ StaysLost /\ UNCHANGED <<descVars, place, walkVars>>
           \/ UNCHANGED enumVars
    PROVE  /\ UNCHANGED <<vars, reopened>>
           /\ place' = place \/ (place \in Walking \ {"closing"} /\ place' \in Walking)
BY DEF AsksForString, ConvertsString, HasString, HasConfiguration, LeavesConfigurations, NextConfiguration,
   AsksForInterface, Searches, LeavesInterfaceOpen, HasInterface, ReportsEndpoint, NextInterface, Finished,
   StaysLost, enumVars, walkVars, Goes, Walking

-----------------------------------------------------------------------------
(* The theorems.                                                             *)

(* The client starts outside its callback, with nothing open. *)
LEMMA EnumInvInit == EnumInit => EnumInv
<1>. SUFFICES ASSUME EnumInit PROVE EnumInv
  OBVIOUS
<1>1. RequestInv
  BY RequestInvInit DEF EnumInit
<1>2. Len(frames) = 0 /\ NoLostFrame /\ ListeningHasPort
  BY DEF EnumInit, Init, CoreInit, NoLostFrame, NoFrameOf, ListeningHasPort
<1>3. StackInv /\ HandledInv /\ LostOnlyInHalfOpen
  BY <1>2 DEF EnumInit, StackInv, HandledInv, LostOnlyInHalfOpen, Handling, Waiting, InCallback, Walking
<1>4. InterfacesGivenBack
  BY DEF EnumInit, Init, AllInterfaces, InterfacesGivenBack
<1>. QED
  BY <1>1, <1>2, <1>3, <1>4 DEF EnumInv, WalkInv

(* Every step keeps the invariant. *)
LEMMA EnumInvStep == EnumInv /\ [EnumNext]_enumVars => EnumInv'
<1>. SUFFICES ASSUME EnumInv, [EnumNext]_enumVars PROVE EnumInv'
  OBVIOUS
<1>1. RequestInv /\ TypeOK /\ ListeningHasPort /\ WalkInv /\ [Next]_vars
  BY EnumIsAnApplication DEF EnumInv, RequestInv
<1>2. RequestInv' /\ ListeningHasPort'
  <2>1. RequestInv'
    BY <1>1, TypeStep, OpenHasReferenceStep, RequestsAreOwedStep, NoReleasedStep DEF RequestInv
  <2>2. portRef /\ ~portRef' => NoFrameOf({"listen"})
    BY <1>1, StopsAfterwards DEF NoFrameOf
  <2>3. ListeningHasPort'
    BY <1>1, <2>2, ListeningStep DEF RequestInv
  <2>. QED
    BY <2>1, <2>3
<1>3. CASE Listens \/ ListenLoops \/ StopsListening
  BY <1>1, <1>2, <1>3, ListeningKeeps DEF EnumInv
<1>4. CASE IsCalled
  BY <1>1, <1>2, <1>4, IsCalledKeeps DEF EnumInv
<1>5. CASE Returns
  BY <1>1, <1>2, <1>5, ReturnsKeeps DEF EnumInv
<1>6. ASSUME NEW d \in Device, Handling(d), OpenFails(d) \/ Opens(d) \/ Closes(d) PROVE EnumInv'
  BY <1>1, <1>2, <1>6, OpeningKeeps, ClosingKeeps DEF EnumInv
<1>7. ASSUME NEW d \in Device, Handling(d), SkipsInterface(d) \/ OpensInterface(d) \/ ClosesInterface(d)
      PROVE  EnumInv'
  BY <1>1, <1>2, <1>7, InterfacesKeep DEF EnumInv
<1>8. CASE \/ AsksForString \/ ConvertsString \/ HasString
           \/ HasConfiguration \/ LeavesConfigurations \/ NextConfiguration
           \/ AsksForInterface \/ Searches \/ LeavesInterfaceOpen \/ HasInterface
           \/ ReportsEndpoint \/ Finished
           \/ StaysLost /\ UNCHANGED <<descVars, place, walkVars>>
           \/ UNCHANGED enumVars
  BY <1>1, <1>2, <1>8, BetweenCalls, WalkingKeeps DEF EnumInv
<1>. QED
  BY <1>3, <1>4, <1>5, <1>6, <1>7, <1>8 DEF EnumNext, CallbackStep

(* The invariant holds, whatever fails. *)
THEOREM EnumInvariant == EnumSpec => []EnumInv
BY EnumInvInit, EnumInvStep, PTL DEF EnumSpec

(* The client is an application of the library on OS X. *)
THEOREM EnumIsIOKit == EnumSpec => Spec
<1>1. EnumInit => Init
  BY DEF EnumInit
<1>2. EnumInv /\ [EnumNext]_enumVars => [Next]_vars
  BY EnumIsAnApplication DEF EnumInv, RequestInv
<1>. QED
  BY <1>1, <1>2, EnumInvariant, PTL DEF EnumSpec, Spec

(* Its queries run the library's loops over descriptors as any caller may.   *)
THEOREM EnumIsDescriptors == EnumSpec => DescSpec
<1>1. EnumInit => DescInit
  BY DEF EnumInit
<1>. QED
  BY <1>1, EnumCallsDescriptors, PTL DEF EnumSpec, DescSpec

(* Whatever fails on the way, only the close of a device is ever lost, and   *)
(* only if the opening of one of its interfaces failed half way              *)
(* (iokit.c:464-472, 490, main.c:78-86).                                     *)
THEOREM OnlyHalfOpenIsLost == EnumSpec => []LostOnlyInHalfOpen
<1>1. EnumInv => LostOnlyInHalfOpen
  BY DEF EnumInv, WalkInv
<1>. QED
  BY <1>1, EnumInvariant, PTL

(* A device that was given back has no interface claimed but those that were *)
(* opened a second time (main.c:61, 84-86, 104; iokit.c:445, 572-577).       *)
THEOREM AllIsGivenBack == EnumSpec => []InterfacesGivenBack
<1>1. EnumInv => InterfacesGivenBack
  BY DEF EnumInv, WalkInv
<1>. QED
  BY <1>1, EnumInvariant, PTL

(* What the client prints of strings and interfaces is what the device says, *)
(* and its searches move on.                                                 *)
THEOREM QueriesAreExact == EnumSpec => [](ConversionIsExact /\ SearchIsExact /\ SearchAdvances)
BY EnumIsDescriptors, StringsAreConverted, InterfacesAreFound, SearchesMoveOn, PTL
=============================================================================
