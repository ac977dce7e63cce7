------------------------------ MODULE Enumerator ------------------------------
(* The enumerator client (example/enumerator/main.c) in place of an          *)
(* arbitrary application of IOKit, with the loops of Descriptors inside the  *)
(* queries it makes.  main() listens and stops; the connected callback walks *)
(* over the strings, configurations, interfaces and endpoints of the device. *)
EXTENDS IOKit, Descriptors

CONSTANTS
    QueriesMayFail,   \* can a query for a descriptor or for pipe properties fail?
    MaxConfigs,       \* bound on bNumConfigurations
    MaxInterfaces     \* bound on bNumInterfaces

ASSUME EnumeratorAssumption ==
    /\ QueriesMayFail \in BOOLEAN
    /\ MaxConfigs \in Nat /\ MaxInterfaces \in Nat
    /\ UnicodeSize \in Rooms

VARIABLES
    place,          \* where the client is: in main(), or in its connected callback
    numConfigs,     \* desc.bNumConfigurations
    numInterfaces,  \* cfgDesc.bNumInterfaces of the client
    cfgIndex, intfIndex, epIndex,   \* c, i and e
    reported,       \* the endpoints printed for the interface that is open
    reopened        \* the <<reference, interface>> opened again without a close in between

counters == <<numConfigs, numInterfaces, cfgIndex, intfIndex, epIndex>>
walkVars == <<counters, reported, reopened>>
enumVars == <<vars, descVars, place, walkVars>>

EnumInit ==
    /\ Init /\ DescInit
    /\ place = "start"
    /\ numConfigs = 0 /\ numInterfaces = 0
    /\ cfgIndex = 0 /\ intfIndex = 0 /\ epIndex = 0
    /\ reported = {} /\ reopened = {}

Goes(p, q) == place = p /\ place' = q

Handling(d) == Waiting("connected") /\ Last(frames).device = d

-----------------------------------------------------------------------------
(* main(), and the loops of usbusListen().                                   *)

Listens ==
    /\ Goes("start", "listening")
    /\ iokitListen \/ ListenFails
    /\ UNCHANGED <<descVars, walkVars>>

ListenLoops ==
    /\ place = "listening"
    /\ \/ ListenStopsEarly \/ ListenGoesOn \/ ListenIsLost
       \/ TerminationEnds \/ DisconnectedCallbackReturns
       \/ \E r \in DevRef: DiscoverHub(r) \/ TerminateDevice(r)
    /\ UNCHANGED <<descVars, place, walkVars>>

IsCalled ==
    /\ Goes("listening", "called")
    /\ \E d \in Device, r \in DevRef: DiscoverDevice(d, r)
    /\ UNCHANGED <<descVars, walkVars>>

(* The callback returns, and its locals are gone. *)
Returns ==
    /\ Goes("return", "listening")
    /\ ConnectedCallbackReturns
    /\ numConfigs' = 0 /\ numInterfaces' = 0
    /\ cfgIndex' = 0 /\ intfIndex' = 0 /\ epIndex' = 0
    /\ reported' = {}
    /\ UNCHANGED <<descVars, reopened>>

StopsListening ==
    /\ Goes("listening", "done")
    /\ frames = <<>>
    /\ iokitStopListen
    /\ UNCHANGED <<descVars, walkVars>>

Finished == place = "done" /\ UNCHANGED enumVars

-----------------------------------------------------------------------------
(* The callback: usbusOpen(), the two strings, usbusClose().                 *)

OpenFails(d) ==
    /\ Goes("called", "return")
    /\ iokitOpen(d)
    /\ ~isOpen'[d]
    /\ UNCHANGED <<descVars, walkVars>>

Opens(d) ==
    /\ Goes("called", "product")
    /\ Seized(d, UsbusOK)
    /\ \E c \in Configurations: TakeConfiguration(c)
    /\ numConfigs' \in 0..MaxConfigs
    /\ cfgIndex' = 0
    /\ UNCHANGED <<numInterfaces, intfIndex, epIndex, reported, reopened>>

AsksForString ==
    /\ place \in {"product", "manufacturer"}
    /\ \E answer \in StringAnswers: StartConversion(answer, UnicodeSize)
    /\ UNCHANGED <<vars, place, walkVars>>

ConvertsString ==
    /\ ConvertCharacter \/ Terminate
    /\ UNCHANGED <<vars, place, walkVars>>

(* The query fails, or it succeeds and its answer has been converted. *)
HasString ==
    /\ Goes("product", "manufacturer") \/ Goes("manufacturer", "configs")
    /\ \/ QueriesMayFail /\ stage = "idle" /\ UNCHANGED descVars
       \/ CallReturns({"converted", "io error"})
    /\ UNCHANGED <<vars, walkVars>>

(* usbusClose() comes to every interface that was left open; it is lost if   *)
(* one of them has no run loop source.                                       *)
Closes(d) ==
    /\ place = "closing"
    /\ \/ iokitClose(d) /\ place' = "return"
       \/ WildSourceCall(d) /\ UNCHANGED place
    /\ UNCHANGED <<descVars, walkVars>>

-----------------------------------------------------------------------------
(* The loops over configurations, interfaces and endpoints.                  *)

HasConfiguration ==
    /\ Goes("configs", "interfaces")
    /\ cfgIndex < numConfigs
    /\ numInterfaces' \in 0..MaxInterfaces
    /\ intfIndex' = 0
    /\ UNCHANGED <<vars, descVars, numConfigs, cfgIndex, epIndex, reported, reopened>>

(* The last configuration was walked, or the descriptor of one cannot be had. *)
LeavesConfigurations ==
    /\ Goes("configs", "closing")
    /\ cfgIndex = numConfigs \/ QueriesMayFail
    /\ UNCHANGED <<vars, descVars, walkVars>>

NextConfiguration ==
    /\ Goes("interfaces", "configs")
    /\ intfIndex = numInterfaces
    /\ cfgIndex' = cfgIndex + 1
    /\ UNCHANGED <<vars, descVars, numConfigs, numInterfaces, intfIndex, epIndex, reported, reopened>>

Reopens(d) ==
    reopened' = IF intfIndex \in intf[d] THEN reopened \cup {<<dev[d], intfIndex>>} ELSE reopened

NextInterface ==
    /\ intfIndex' = intfIndex + 1
    /\ UNCHANGED <<numConfigs, numInterfaces, cfgIndex, epIndex, reported>>

(* continue: usbusOpenInterface() fails, if only because the configuration   *)
(* that is set has no such interface.                                        *)
SkipsInterface(d) ==
    /\ Goes("interfaces", "interfaces")
    /\ intfIndex < numInterfaces
    /\ \/ UNCHANGED vars /\ UNCHANGED reopened
       \/ /\ intfIndex \in Interface
          /\ InterfaceRefused(d, intfIndex) \/ InterfaceHalfOpen(d, intfIndex)
          /\ Reopens(d)
    /\ NextInterface
    /\ UNCHANGED descVars

OpensInterface(d) ==
    /\ Goes("interfaces", "descriptor")
    /\ intfIndex < numInterfaces
    /\ intfIndex \in Interface
    /\ InterfaceReady(d, intfIndex)
    /\ Reopens(d)
    /\ UNCHANGED <<descVars, counters, reported>>

(* usbusGetInterfaceDescriptor(): the system knows the number of the interface. *)
AsksForInterface ==
    /\ place = "descriptor"
    /\ \E number \in Number: StartSearch(number, 0)
    /\ UNCHANGED <<vars, place, walkVars>>

Searches ==
    /\ SearchNext \/ SearchEnds
    /\ UNCHANGED <<vars, place, walkVars>>

(* continue: there is no descriptor, and the interface stays open.  The      *)
(* alternate setting is always the first.                                    *)
LeavesInterfaceOpen ==
    /\ Goes("descriptor", "interfaces")
    /\ \/ QueriesMayFail /\ stage = "idle" /\ UNCHANGED descVars
       \/ CallReturns({"not found"})
    /\ NextInterface
    /\ UNCHANGED <<vars, reopened>>

HasInterface ==
    /\ Goes("descriptor", "endpoints")
    /\ CallReturns({"found"})
    /\ epIndex' = 0
    /\ reported' = {}
    /\ UNCHANGED <<vars, numConfigs, numInterfaces, cfgIndex, intfIndex, reopened>>

(* usbusGetEndpointDescriptor() passes the index on as a pipeRef, and pipe 0 *)
(* is the control pipe of the device.                                        *)
PipeEndpoint(pipe) == IF pipe = 0 THEN 0 ELSE Endpoints[intfIndex][pipe]

MoreEndpoints == epIndex < Len(Endpoints[intfIndex])

ReportsEndpoint ==
    /\ Goes("endpoints", "endpoints")
    /\ MoreEndpoints
    /\ \/ QueriesMayFail /\ UNCHANGED reported
       \/ reported' = reported \cup {PipeEndpoint(epIndex)}
    /\ epIndex' = epIndex + 1
    /\ UNCHANGED <<vars, descVars, numConfigs, numInterfaces, cfgIndex, intfIndex, reopened>>

ClosesInterface(d) ==
    /\ Goes("endpoints", "interfaces")
    /\ ~MoreEndpoints
    /\ iokitCloseInterface(d, intfIndex)
    /\ NextInterface
    /\ UNCHANGED <<descVars, reopened>>

-----------------------------------------------------------------------------
CallbackStep ==
    \/ \E d \in Device: Handling(d) /\ (OpenFails(d) \/ Opens(d) \/ Closes(d))
    \/ \E d \in Device: Handling(d) /\ (SkipsInterface(d) \/ OpensInterface(d) \/ ClosesInterface(d))
    \/ AsksForString \/ ConvertsString \/ HasString
    \/ HasConfiguration \/ LeavesConfigurations \/ NextConfiguration
    \/ AsksForInterface \/ Searches \/ LeavesInterfaceOpen \/ HasInterface
    \/ ReportsEndpoint

EnumNext ==
    \/ Listens \/ ListenLoops \/ IsCalled \/ Returns \/ StopsListening \/ Finished
    \/ CallbackStep
    \/ StaysLost /\ UNCHANGED <<descVars, place, walkVars>>

EnumSpec == EnumInit /\ [][EnumNext]_enumVars

(* The client is one sequential program that keeps running.                  *)
FairEnumSpec == EnumSpec /\ WF_enumVars(CallbackStep)

-----------------------------------------------------------------------------
(* Properties.                                                               *)

(* Whatever fails on the way, the client calls through nothing that is not   *)
(* there, except that closing the device trips over an interface whose       *)
(* opening failed half way (iokit.c:464-472, 490, main.c:78-86).             *)
LostOnlyInHalfOpen ==
    \A kind \in Lost: Waiting(kind) =>
        /\ kind = "lost source"
        /\ \E r \in DevRef, i \in Interface: devRef[r] = "open" /\ usbIntf[r][i] = "open"

(* The client skips interfaces without closing them and relies on            *)
(* usbusClose(): once a device was given back, none of its interfaces is     *)
(* claimed, unless it was opened a second time, for a second configuration,  *)
(* when it had been left open for the first (main.c:61, 84-86, 104;          *)
(* iokit.c:445, 572-577).                                                    *)
InterfacesGivenBack ==
    \A r \in DevRef, i \in Interface:
        devRef[r] = "free" /\ usbIntf[r][i] # "closed" => <<r, i>> \in reopened

(* The callback returns, so that usbusListen() comes to the next device,     *)
(* unless it comes to search an ill-formed configuration descriptor or a     *)
(* call is lost; what an earlier device answered excuses nothing             *)
(* (main.c:18-30, iokit.c:630-642, descriptor.c:91-97).                      *)
CallbackReturns ==
    place = "called" ~> \/ place = "return"
                        \/ stage = "searching" /\ ~WellFormed(cfgDesc)
                        \/ \E kind \in Lost: Waiting(kind)

(* Refuted even if no query fails: "iterate the endpoints for each           *)
(* interface", of which the last is never reported (main.c:91-102,           *)
(* iokit.c:152-156, 660).                                                    *)
EveryEndpointReported ==
    place = "endpoints" /\ ~MoreEndpoints => ToSet(Endpoints[intfIndex]) \subseteq reported
=============================================================================
