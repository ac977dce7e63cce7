# A TLA+ model of libusbus

libusbus is a small C library that gives an application access to vendor
specific USB devices, through IOKit on OS X and WinUSB on Windows.  This
directory models it in TLA+, checks the models with TLC, and proves the main
results about both platforms and both example clients with TLAPS.  File and line references are to the
repository (`core.c` is `src/src/core.c`).

## 1. The system

### Components, their state and their operations

| component | state | operations |
|---|---|---|
| core (`core.c`, `usbus_private.h`) | one context (callbacks and the platform's part); per device: `isOpen`, its memory | `usbusListen`, `usbusStopListen`, `usbusOpen`, `usbusClose`, `usbusOpenInterface`, `usbusCloseInterface`, `usbusDispose`, configuration calls; internal `allocateDevice`, `dispatchConnectedDevice` |
| asynchronous I/O (`io.c`, `usbus.h`) | the fields of each transfer | allocate, release, set up, submit, cancel; `usbusProcessEvents` |
| synchronous I/O (`io.c`) | none | `usbusReadSync`, `usbusWriteSync` |
| WinUSB platform (`winusb.c`) | completion port; per device: file handle, array of interface handles; per request: one heap cell `WinOverlappedTransfer` | the platform's half of each call |
| IOKit platform (`iokit.c`) | notification port and run loop; per device: plug-in reference, and per interface a reference, a cache of endpoint addresses, a run loop source | the platform's half of each call, callbacks of notifications and of completed I/O |
| descriptors (`descriptor.c`, and the platforms' halves) | none; reads the device's configuration descriptor | get descriptors; convert strings to ASCII; search for an interface |
| logger (`logger.c`) | level | print |
| echo example (`example/echo/main.c`) | the device in use, endpoint addresses, a count of OUT packets in flight | listen, claim a device, echo until an error |
| enumerator example (`example/enumerator/main.c`) | none but the locals of its callback | print strings, configurations, interfaces and endpoints of every device |

### How they interact

The application calls core and io, which check `isOpen` and call the platform
through the table `gPlatform`.  The platform calls the system.  There is no
thread in the library and no lock ("no locking or other thread management",
ReadMe): everything the library does happens inside a call of the application.
The library calls the application back in three places: a device is connected
(`core.c:126`), a device has gone (`iokit.c:254`), a transfer has completed
(`iokit.c:306`, `winusb.c:400`).  A callback may call any function of the
library, so operations nest, and state read before a callback is used after it.
The two examples are the only callers of the API in the repository.
What runs concurrently with the library is the system: it finishes I/O at any
time, but the library learns of it only in `usbusProcessEvents`.

### What is hard, and what makes each component correct

* *core*: sequences of opens, failed opens, closes and disposals in and out of
  callbacks.  `isOpen` must agree with what the platform holds, and an open
  device must keep what it holds until it is closed.
* *asynchronous I/O*: an accepted request is reported exactly once, to the
  transfer it was submitted for, whatever is closed, canceled or resubmitted
  meanwhile; a request is never reported to a transfer that was released.
* *WinUSB*: ownership of the heap cells and of handle values the system
  reuses; the result of a submission must tell whether a report will come;
  failing paths must give back what they took.
* *IOKit*: references kept after they were released; a cache that is not
  cleared; interfaces whose opening failed half way; requests that end when
  their run loop source goes away; the numbering of pipes.
* *descriptors*: buffers that are full, lengths that are odd, short or zero, in
  bytes that a device made up.
* *echo*: a count that must agree with what is in flight although closing a
  device forgets requests; a device that takes the place of the one in use;
  errors inside callbacks.
* *enumerator*: loops that skip what fails and leave it to the last call to give
  everything back.

`PROJECT.json` lists each hazard at its line, with the properties that cover it.

## 2. The modules

| module | what it is |
|---|---|
| `UsbusCore` | core.c and io.c: memory, gates, callbacks. The operators of this module are one half of each operation; a platform module conjoins its own half |
| `TransferContract` | the abstract specification of asynchronous I/O, for any platform |
| `WinUsb` | `EXTENDS UsbusCore`: winusb.c and the part of Windows it drives |
| `IOKit` | `EXTENDS UsbusCore`: iokit.c and the part of IOKit it drives |
| `Descriptors` | the two loops over bytes that a device made up: strings (`descriptor.c`) and configurations (`iokit.c`) |
| `Enumerator` | `EXTENDS IOKit, Descriptors`: the enumerator client as the application |
| `Echo` | `EXTENDS IOKit`: the echo client as the application |
| `MCWinUsb`, `MCIOKit`, `MCDescriptors`, `MCEnumerator`, `MCEcho` | constants and symmetry for TLC |
| `CoreProofs` | lemmas about the call stack and the types of `UsbusCore`, for both platforms |
| `WinUsbProofs`, `WinUsbDeviceProofs` | the invariants of `WinUsb`; what open devices keep, what leaks, and the contract |
| `IOKitProofs`, `IOKitDeviceProofs` | the same for `IOKit`, and the calls that can be lost |
| `DescriptorsProofs` | both loops are exact, and the search moves on |
| `EchoProofs`, `EnumeratorProofs` | the clients: each is an application of `IOKit`, and its own invariants |

### UsbusCore

Devices and transfers are memory cells.  `mem[d]` is `"free"`, `"live"`, or
`"lost"` (allocated at `winusb.c:515` and given up at 517 without a free).
`transfer[t]` holds the device, the endpoint and whether there is a callback;
buffers, lengths and user data are left out.  `owed[t]` is not a variable of the
code: it counts, for the application, the calls of `usbusSubmitTransfer(t)` that
returned `UsbusOK` minus the completions reported for `t`.

Control is `frames`, the stack of library functions that are waiting for a
callback to return or are between two turns of a loop over devices.  The
application may act when the top of the stack is a callback (or the stack is
empty); when it is a loop, only the loop may go on.  A function that calls no
callback is one atomic action, its whole body included: nothing else runs in
the library, and the system only changes what the function does not look at.

Two assumptions on the application are part of the core: it does not release or
change a transfer while `owed[t] > 0` (the buffer and the structure are used
until completion), and it disposes only devices it was given.  A third one is a
constant: with `CarefulApp` it closes a device before the device is disposed.
Nothing in the library checks any of this.

### WinUsb

| code | model |
|---|---|
| `winusb.deviceHandle`, `winusbHandles[]` | `deviceHandle[d]`, `winusbHandles[d]` (the indices that are not NULL) |
| `completionPort` | `completionPort` |
| `struct WinOverlappedTransfer` | `wot[w]`: NULL, or the transfer it is for |
| file handles, `WINUSB_INTERFACE_HANDLE`s (external) | `file[h]`, `intf` |
| pending overlapped I/O, the queue of the port (external) | `io[w]`, `iocp` |

`CreateFile` returns any value no open file has, so values are reused, which is
what makes the stale handles of failed opens matter.  `winusbOpen` has one
operator for each way it can end.  `winusbProcessEvents` takes one packet; the
callback runs on a frame, and its return frees the cell.  `winusbListen` ends
after the first loop over devices: the code after its `return` is never reached
and is not modelled.

### IOKit

| code | model |
|---|---|
| `portRef`; registered notifications | `portRef`; `notes` |
| `iokit.dev`; the references themselves (external) | `dev[d]`; `devRef[r]` |
| `interfaces[i].intf`, `.epAddresses`, `.runLoopSourceRef` | `intf[d]`, `cached[d]` (how many slots are filled: their contents never differ), `source[d]` |
| interface references and their place in the run loop (external) | `usbIntf[r]` |
| accepted requests (external) | `io[w]` |

Where the code would call through a released, null or missing reference, the
call is lost: a frame that never returns is pushed and the model stops, since
what follows is undefined.  `Disciplined` is an application that opens each
device once, opens an interface only if it is not open, uses endpoints of
open interfaces only (`MayUse`), and does not call `usbusStopListen` in a callback
of `usbusListen` (`MayStop`), which would go on with a port that is gone
(`ListenIsLost`, `iokit.c:399-406, 424`); `PipesMayFail` lets an interface fail in the last steps of
`iokitOpenInterface`.  A call that fails before it changes anything (a refused
submission, an interface index that does not exist, a second `usbusListen`) is a
step that changes nothing and has no action.  `tried[d]` is a history variable
that `Disciplined` needs.  Synchronous transfers change no state; they have one
action, `WildSyncCall`, for the one thing they can do to the model: go through
an interface that the cache still names and that is closed.

### Descriptors

The state is the locals of one call, and `stage` says where the call is.  A
conversion (`ConvertCharacter`, `Terminate`) and a search (`SearchNext`,
`SearchEnds`) take one turn of their loop per step.  The buffer of the caller
has one byte more than the caller said, to see whether it is written.  What the
device did not send is left open: the bytes of `unicodeBuf` after the length
that arrived have any value, and `Seen(o)` is any descriptor where none starts
and anything in place of the bytes beyond the end of the configuration.

### Enumerator

`place` says where `main()` or its connected callback is; the counters are the
callback's.  Each query that can fail has a step in which it does.  The loops of
`Descriptors` run inside the queries, and the calls of the library are the
actions of `IOKit`, so that the run has the real client on the real platform
half: `Spec` of `IOKit` with an application that does what `main.c` does.
`reported` is the endpoints printed for the interface that is open; `reopened`
is a history variable: the interfaces opened again without a close in between.

### Echo

`main` says where `main()` and `doEcho()` are, `cb` where the callback is;
`gDevice` and `outstandingTx` are the globals of the program.  Any device that is found may be the one
looked for, so a second one can take the place of the first.  `filled` and
`refused` are history variables: the IN transfers that `doEcho` has submitted,
and those of which a submission was refused.  Every statement that calls the
library is a step; `usbusProcessEvents(0, 0)` handles one source if one is ready.

### TransferContract

A request is idle, outstanding or being reported.  It is accepted only for an
open device; its transfer may not be touched while it is outstanding; it is
reported once, to the callback of its own transfer.  Opening, closing and
disposing devices leaves requests alone, unless `CloseForfeits`, where a close
may end requests of that device with no report.  `WinUsb` implements it with
`CloseForfeits = FALSE`; `IOKit` needs `TRUE`, because `iokitCloseInterface`
takes the run loop source away (`iokit.c:490`) before the results arrive.
That is a difference between the platforms an application can see.

## 3. The checks

| run | instance | distinct states |
|---|---|---|
| `winusb_faults` | 2 devices, 2 handle values, 2 interfaces, 1 transfer, 2 cells, depth 3, a port that may fail | 360 574 |
| `winusb_io` | 1 device, 2 transfers, 3 cells, 2 endpoints, depth 3 | 482 938 |
| `winusb_live` | 1 device, 1 transfer, 2 cells, depth 3, fair, no symmetry | 19 740 |
| `iokit_devices` | 2 devices, 2 references, 2 interfaces, 1 transfer, 1 request, depth 2, disciplined and careful | 800 594 |
| `iokit_io` | 1 device, 1 reference, 2 transfers, 2 requests, depth 2, any application (`CarefulApp = FALSE`, `Disciplined = FALSE`), any failure | 1 139 403 |
| `iokit_live` | 1 device, 1 reference, 1 transfer, 2 requests, depth 2, fair, disciplined | 23 988 |
| `descriptors` | strings in a buffer of 8 bytes, up to three descriptors after the first | 31 798 |
| `enumerator` | 1 cell, 2 references, 2 interfaces, 2 configurations, every query may fail, fair | 298 897 |
| `echo` | 2 devices, 2 references, 1 IN and 1 OUT transfer, 3 requests, any failure, fair | 86 076 |

What they show:

* `winusb_faults`: `TypeOK`; `OpenDevicesOwnHandles`, every open device has a
  bound file of its own; `NothingLeaked`, only an open whose completion port
  failed (`winusb.c:171, 177`) leaves a file open, and on it the first interface
  handle, and nothing else outlives its use; `IOOnOwnDevice`, uncanceled requests
  run on the file of their own open device; `OpenDeviceUndisturbed`, only
  `usbusClose(d)` takes anything away from `d`.
* `winusb_io`: `WotOwnership`, one owner per cell, so one `free`;
  `AcceptedCellsAreFreed`, a cell the kernel took is freed when its owner lets
  go of it, so that refused submissions are the only leak; `CompletionLedger`,
  what the application is owed is exactly what is in flight;
  `NoReleasedInFlight`; and `ImplementsContract`.
* `winusb_live`: `CompletionIsReported`, closing or canceling strands nothing.
* `iokit_devices`: `TypeOK`; `OpenDevicesHoldReferences`; `NoWildCall`, a
  disciplined application never reaches a dead reference or a port that is gone;
  `RequestsOnOwnInterface`, its requests run on the pipe of their endpoint. The
  endpoints of the run differ, so that a stale slot of the cache is there but
  shadows none; shared endpoints are left to the theorem `RequestsAtHome`.
* `iokit_io`: `NoReleasedInFlight` and `ImplementsContract` up to the first
  lost call, for an application that keeps no rule of `Disciplined` and disposes
  the device while it is open. The run has one device: with two, reopening a device through a reference that was released
  and handed out again would make them share it.
* `iokit_live`: `CompletionIsReported`, reported or ended by a close.
* `descriptors`: `ConversionIsExact`, the longest prefix that fits is converted
  and terminated, in the byte after the buffer exactly if it is full;
  `SearchIsExact`, the first descriptor of the interface and alternate setting is
  found, if the configuration is one that USB allows; `SearchAdvances`, each turn
  of that search has a descriptor in front of it that moves it on and ends in the
  configuration.
* `enumerator`: `LostOnlyInHalfOpen`, the only lost call is a close of an
  interface that failed half way; `InterfacesGivenBack`, a device that is given
  back has no interface claimed but those opened twice; `CallbackReturns`, the
  callback returns, unless it is caught in the search of a configuration that is
  ill-formed (`stage = "searching"`).
* `echo`: `OneTxInFlight`, the count of packets is right as long as the device of
  the last one is open, and none is set up while it is in flight; `RxStayPending`, each IN completion is answered
  by one submission; `HoldsLiveDevices`, the client holds on to no device that
  the library disposed, although it leaves some open; `NoWildCall`, although it
  is not the disciplined application of `iokit_devices`; `EchoGoesOn`, a packet
  that ended is followed by the next one or the end of the program, but for the
  stall described below.

The other runs refute a statement of the code's comments or names:

* `winusb_status`: every failure on Windows is passed to the callback as
  `UsbusIoErr` (`winusb.c:393`), a number of `enum UsbusError` that is
  `UsbusCanceled` in the callback's `enum UsbusStatus`.
* `iokit_cancel`: `AbortPipe` is given the endpoint address where it takes the
  pipeRef (`iokit.c:748`), so that a cancel on endpoint 1 aborts IN 0x81's pipe.
* `enumerator_endpoints`: the enumerator asks for endpoints from 0
  (`main.c:96`), which `iokit.c:660` takes for pipes, which count from 1: the last
  endpoint of an interface is never reported, with no failure at all.

Three things that undisciplined applications meet in `iokit_io` without breaking
its properties: an interface whose opening failed half way is closed as if it
had a run loop source (`iokit.c:465, 471, 490`), the cache of endpoint
addresses outlives its interface (`iokit.c:115, 138`), and a connected callback
that stops listening leaves `usbusListen` without its port (`iokit.c:401, 424`).
All end in lost calls.

The echo client can stall, and `echo` reaches it.  Its OUT packet is in flight
on one device, another device takes its place in `gDevice` (`main.c:69`), and an
error of an IN transfer closes the first device (`main.c:126`).  On OS X the close
forgets the packet, nothing resets `outstandingTx`, and the loop turns without
sending for as long as the second device is open (`main.c:103-118`).  Neither
property forbids it: `OneTxInFlight` says nothing of the count once the device of
the last packet is closed, and `EchoGoesOn` leaves out exactly `Stalls`, that the
packet's device has been replaced and is closed.  While it is open, replaced or
not, they hold.

### Bounds

Two devices suffice for one to take the handle value or reference of another,
two transfers and two or three requests for a collective cancel, a resubmission
from a callback and a third party; two interfaces for a cache with a stale first
slot; two endpoints for a cancel that should not reach the other one.  `MaxDepth`
bounds the nesting: 3 is a callback inside a callback inside a loop, 2 a
callback inside a loop or inside another callback.  `MaxOwed` (IOKit only) bounds
`owed[t]`, which grows without limit when requests are forfeited again and
again.  Refused submissions on Windows leak their cell for ever
(`winusb.c:334`), as leaked references do on OS X, so the number of cells and
references also bounds the number of leaks in one behaviour.  Symmetry is used
where no liveness is checked.

`unicodeBuf` has 8 bytes in `descriptors` and 4 in `enumerator` instead of 256
(`UnicodeSize`, which also bounds the values of a byte): enough for strings
that are empty, fit, fill the caller's buffer, overrun it, or end in half a
character.  Of the seven descriptors a configuration is made of, one has length
0 and one is too short; the last one may be cut off anywhere it matters.
`ApartSpec` runs the conversions only before a configuration is taken, because
neither looks at the other's variables.  The enumerator walks devices one after
the other through one memory cell; two configurations (`MaxConfigs`) let it open
an interface again that it left open, two interfaces (`MaxInterfaces`) let a
later one go on after an earlier one failed.  The echo client has one IN
transfer of ten: they are treated alike, each by its own completions, and three
requests let one of each kind be pending while a forfeited one is on its way.
In `enumerator_endpoints` no query fails (`QueriesMayFail = FALSE`), every answer
to a query for a string is whole (`GoodAnswers`) and every configuration
well-formed (`GoodConfigurations`).

### Fairness

The system finishes requests it has aborted (weak fairness; requests nobody
aborts may stay pending for ever, as a read from a silent device does).  The
application calls `usbusProcessEvents` again and again: the ReadMe asks for it
("must be called at regular intervals").  Callbacks and loops return; the two
platform runs let the application leave a device open when its callback returns
(`CarefulApp = FALSE`), because otherwise it could keep the callback waiting for
a close.  These are strong fairness conditions because nested callbacks and loops
disable each other for a while.  On OS X the run loop is assumed to starve no
source.  No fairness is assumed of opening, closing, canceling or submitting.

The clients are sequential programs that keep running: weak fairness of
`CallbackStep` in `Enumerator` and of `MainStep` in `Echo`.  `Echo` adds that the
run loop starves no completion and that its loops over devices end.

## 4. The proofs

The theorems hold for all sets of devices, handles, references, transfers and
requests, for every `MaxDepth` and `MaxOwed`, and for every application and
failure that a theorem does not exclude.  They assume what the modules' `ASSUME`s
say: NULL and INVALID are no values of anything else, cells are finitely many,
interface 0 exists, endpoint addresses are not 0.

### WinUsb

The inductive invariant is

    Inv == TypeOK /\ OpenDevicesOwnHandles /\ RequestInv

* `TypeOK` is not inductive alone: `owed` stays a natural number only because a
  packet in the port is always owed, and `deviceHandle` of an open device must be
  a handle for the kernel's record of its I/O to be typed.
* `OpenDevicesOwnHandles` (theorem `HandlesAreOwned`) rests on `CreateFile`
  returning values of no open file, and on every close going through `isOpen`.
* `RequestInv` joins `WotOwnership`, `FramesHoldTokens` (the frames of transfer
  callbacks name cells), `IOIsBound` (no I/O on a file that is not bound to the
  port), `NoReleasedInFlight` and `CompletionLedger`. The ledger needs the first
  three: a request is counted once because its cell has one owner, and is not
  lost when it completes because its file was bound.  `IOIsBound` in turn needs
  `OpenDevicesOwnHandles`: I/O starts only for open devices.

Each step is shown to keep each part (`TypeStep`, `OpenDevicesOwnHandlesStep`,
`RequestStep`); most actions are shown to be quiet for requests and are handled
by one lemma, `QuietStep`.  `Invariance` is `Spec => []Inv`; `TypeCorrect`,
`HandlesAreOwned`, `CellsHaveOneOwner`, `LedgerBalances` and `NoUseAfterRelease`
follow.

`WinUsbDeviceProofs` builds on it.  With a careful application an open device
stays as it is in every step but its own (`OpenDevicesStay`), which gives
`OpenDevicesUndisturbed` and, with `OwnIO` as a further inductive part,
`IORunsOnOwnDevice`.  `NothingIsLeaked` is inductive relative to
`OpenDevicesOwnHandles`.  `CellsAreFreed` is an action property of any
application: each step that takes the last owner from a cell frees it.

`WinUsbDeviceProofs!KeepsContract`, `Spec => ImplementsContract`, uses the same
invariant.  The refinement mapping takes the open devices for `open`, a cell's
place (in flight, in a frame, neither) for its `phase`, and `wot` for `subject`.
Opening and closing maps to `OpenOrClose`, transfers being prepared to `Prepare`,
`SubmitAccepted` to `Accept`, `winusbProcessEvents` to `Report` (or to `Finish`
if there is no callback), the callback's return to `Finish`, and cancels,
refusals and the kernel's completions to stutters.

### IOKit

For any application and any failure the inductive invariant is

    RequestInv == TypeOK /\ OpenHasReference /\ RequestsAreOwed /\ NoReleasedInFlight

The ledger of `WinUsb` is an equation; here closes forfeit requests, so
`RequestsAreOwed` is the inequality that is left: a transfer has at most as many
requests under way as it is owed completions.  `TypeCorrect` and
`NoUseAfterRelease` follow.

What else holds of several devices needs an application that is `Disciplined`,
because a failed open and a close leave references that are dead or somebody
else's.  For it

    DisciplinedInv == RequestInv /\ DeviceInv /\ CacheInv /\ RequestsHaveDevices /\ RequestsOfActive

is inductive (`DisciplinedInvariant`), wherever interfaces fail and whatever is
disposed.  `DeviceInv` says what the library holds for a device that is `Active`,
one the application may still act on: a reference of its own, seized if the device
is open; a live source exactly for the interfaces in the run loop, which are all
open ones unless an interface can fail half way.  `OpenDevicesHold` is that where
none can.  `CacheInv` bounds what the cache holds.  `RequestsOfActive` ties requests
to devices: one whose reference is that of an active device names that device,
since a reference is fresh when it is announced, with no request on it, and a
request starts on the reference of the device its transfer names.

If the application also closes devices before it disposes them,

    Rules == CarefulApp /\ Disciplined
    RulesInv == DisciplinedInv /\ RequestsOnOwnInterface

is inductive (`RulesInvariant`), and `RequestsAtHome` is its second part.  It needs
the lemma `PipeIsFound`: the search of the cache finds the least slot in the order
of `pipeRefForEP`'s loops, and every slot it can find is the pipe of that endpoint
(`SlotsArePipes`), stale or not; and a request starts only where there is a live
source.

Lost calls need one hypothesis more, that no two interfaces share an endpoint
address (`DistinctEndpoints`), since otherwise a stale slot of a closed interface
is found first.  `LostInv` says that nothing is lost and that `usbusListen` has its
port while it runs (`ListeningHasPort`, which is what the rule `MayStop` is for), or
that the library's last call is a close of a device with a half open interface
(`HalfOpen`); after a lost
call nothing in the library moves (`LostForGood`).  `OnlyHalfOpenLoses` is that for
every failure, and `NoCallIsLost` the case in which no interface fails half way.

Two theorems say that asynchronous I/O keeps the contract:

* `IOKitDeviceProofs!KeepsContract` is `Disciplined => (Spec => ImplementsContract)`,
  for any number of devices.
* `OneDeviceKeepsContract` is the same with at most one device and no rule at all:
  the application may open the device again after a failure, open interfaces twice
  or dispose the device while it is open.

Both rest on `HomeInv`: `RequestInv`, that every request names a device
(`RequestsHaveDevices`), and that one on the reference of an open device names that
device (`RequestsApart`), so that a close, which maps to `Forfeit`, ends requests of
its own device only.  With one device the last follows from the second; with several
it is part of `RequestsOfActive`; the echo client, which breaks `CarefulApp`, has it
from its own invariant.  `CallbacksReport` is added to it: each request that is being
reported has one frame on the stack, and no frame reports anything else.

### Echo

The client is not the application of `Rules`: it disposes a device it has opened
when the interface cannot be claimed (`main.c:67`), so `CarefulApp` is false.  That
it does no harm with it depends on all of the program, and so does the invariant:

    EchoInv == LibraryInv /\ ClientInv

* `LibraryInv` is `RequestInv`, `CacheInv`, `RequestsOnOwnInterface` and
  `RequestsHaveDevices`: of `RulesInv` everything but `DeviceInv` and
  `RequestsOfActive`.  It also has `ListeningHasPort`, that the port is there while
  `usbusListen` runs: the client stops listening in `main()` only (`StopsInMain`),
  so that this, too, is proved and not assumed of it.
* `DevicesInv` stands in for that.  A device the client refers to
  (`KeptByClient`: through `gDevice` or a transfer) is live, is not about to be
  disposed, and has its interface if it is open (`KeptInv`); the device of the
  callback that runs is as far as the callback is (`HandledInv`); and references of
  devices that are open or may be opened next are held and apart (`ReferenceInv`).
  Devices that were disposed while open are in neither, and keep their reference
  for ever, so that no other device gets it.
* `StackInv`: only loops wait below the callback that runs, since the client's
  callbacks never call `usbusProcessEvents` or `usbusListen`; so the top of the
  stack tells which callback it is in (`CallbackInv`).
* `MainInv`: what `main()` has set up when.  In particular an IN transfer it has
  not submitted is owed nothing.
* `CountInv`: `OneTxInFlight` and `RxStayPending`, and `CompletingInv`, that a
  callback starts only for a device that is open: closing ends its requests on
  OS X, which is what keeps the count right when an error closes the device in
  the middle of a report.

The first step of the proof is `EchoIsAnApplication`, that each statement is a
step of `IOKit` or a stutter; it gives `EchoIsIOKit` (`EchoSpec => Spec`) and lets
the lemmas about `IOKit` carry `LibraryInv`, so that only the client's own part is
proved statement by statement.  `TxIsCounted`, `RxIsPending`, `HeldIsLive`,
`NoCallOfEchoIsLost` and `EchoRequestsAtHome` are parts of `EchoInv`, and
`EchoKeepsContract` follows from it with the steps of `KeepsContract`.

### Enumerator

    EnumInv == RequestInv /\ ListeningHasPort /\ WalkInv

`ListeningHasPort` is as for the echo client: this one, too, stops listening in
`main()` only (`StopsAfterwards`).  `WalkInv` joins the two properties with `HandledInv`, which ties `place` to what the
library holds for the device that is walked, and `StackInv`.  The interfaces of that
device satisfy `WalkedInterface`: set ones are open, those in the run loop have
their source, and open ones are set or were opened twice.  This is weaker than
`HoldsInterfaces` of `DeviceInv`, because the client opens an interface again for
the next configuration when its descriptor could not be had (`main.c:84-86`), and
then the library forgets it if the second open fails (`iokit.c:445`).  A close
gives back what is set, which is all but those: `AllIsGivenBack`.
`OnlyHalfOpenIsLost` needs `StackInv`: nothing is lost before the close, so
nothing goes on after it.

`EnumIsIOKit` and `EnumIsDescriptors` (`EnumSpec => DescSpec`) say that the client is
an application of the one and a caller of the other, and `QueriesAreExact` carries
the theorems about `Descriptors` over to it.

### Only model-checked

Every invariant and refinement that a passing run checks, and every action
property, is stated by a theorem.  What is left to TLC is liveness
(`CompletionIsReported` on both platforms, `CallbackReturns`, `EchoGoesOn`):
fairness and ENABLED are out of reach of the prover, as are induction over data
and any RECURSIVE operator; no module here has one.

## 5. What is not modelled

* The WinUSB descriptor queries and synchronous transfers, and
  `winusbStopListen`, whose handle is never set: they change no state that
  another step sees.
* Window messages on Windows (`winusbWndProc` and the notification code): never
  reached after the early return of `winusbListen`.
* Threads: the library has none; an application that calls it from several at
  once breaks its rule.
* Interface indices at or above `USBUS_MAX_INTERFACES`, which wrap around in 8
  bits (`iokit.c:331`) and then index beyond `interfaces[]`, and endpoint address
  0, which matches every unused slot of the cache (`iokit.c:115`).
* What `usbusSetConfiguration` does to interfaces that are open: the contents of
  the cache would then change.
* Which interface a handle of WinUSB is for: the index of
  `winusbOpenInterface` counts from the second interface, and transfers go
  through the first (`winusb.c:278`).
* The logger, the build files, and more than one context.

## 6. Plan

Done, in this order: core and the contract; WinUSB, its checks and proofs; the
refinement on Windows; IOKit and its checks; the descriptors, the two clients;
the proofs about IOKit, its devices, the refinement on OS X, the descriptors,
the devices of WinUSB; the proofs about the two clients, and the rules of IOKit
with interfaces that fail half way.  Left:

1. The clients on `WinUsb`, where closing forfeits nothing and endpoints count
   from 0.
2. Which rule of `Disciplined` each theorem needs: the contract for several devices
   should follow from opening each device once, without the rules about interfaces
   and endpoints.
