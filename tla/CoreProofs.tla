------------------------------ MODULE CoreProofs ------------------------------
(* Theorems about the operators of UsbusCore, for the proofs about the two   *)
(* platforms.                                                                *)
EXTENDS UsbusCore, TLAPS, FiniteSetTheorems, SequenceTheorems

-----------------------------------------------------------------------------
(* Stacks.                                                                   *)

(* The top of a non-empty stack is one of its elements. *)
LEMMA LastOfSeq ==
    ASSUME NEW S, NEW s \in Seq(S), Len(s) > 0
    PROVE  Last(s) = s[Len(s)] /\ Last(s) \in S
BY DEF Last

(* What is pushed is the top. *)
LEMMA LastOfAppended ==
    ASSUME NEW S, NEW s \in Seq(S), NEW x \in S
    PROVE  Len(Append(s, x)) > 0 /\ Last(Append(s, x)) = x
<1>1. /\ Len(s) \in Nat /\ Len(Append(s, x)) = Len(s) + 1
      /\ Append(s, x)[Len(s) + 1] = x
  BY AppendProperties, LenProperties
<1>. QED
  BY <1>1 DEF Last

(* Popping a stack drops exactly its top. *)
LEMMA FrontOfSeq ==
    ASSUME NEW S, NEW s \in Seq(S), Len(s) > 0
    PROVE  /\ Front(s) \in Seq(S)
           /\ Len(Front(s)) = Len(s) - 1
           /\ \A i \in 1..Len(s) - 1: Front(s)[i] = s[i]
<1>. DEFINE n == Len(s) - 1
           f == Front(s)
<1>1. Len(s) \in Nat /\ n \in Nat /\ n \in Int /\ 1 \in Int
  OBVIOUS
<1>2. \A i \in 1..n: s[i] \in S
  BY <1>1
<1>3. f = SubSeq(s, 1, n)
  BY Zenon DEF Front
<1>. HIDE DEF n, f
<1>4. /\ SubSeq(s, 1, n) \in Seq(S)
      /\ Len(SubSeq(s, 1, n)) = IF 1 <= n THEN n - 1 + 1 ELSE 0
      /\ \A i \in 1..n - 1 + 1: SubSeq(s, 1, n)[i] = s[1 + i - 1]
  BY <1>1, <1>2, SubSeqProperties
<1>5. /\ f \in Seq(S)
      /\ Len(f) = IF 1 <= n THEN n - 1 + 1 ELSE 0
      /\ \A i \in 1..n - 1 + 1: f[i] = s[1 + i - 1]
  BY <1>3, <1>4, Zenon
<1>6. Len(f) = n /\ \A i \in 1..n: f[i] = s[i]
  BY <1>1, <1>5
<1>. QED
  BY <1>5, <1>6 DEF n, f

(* A function that waits for a callback is on the top of the stack. *)
LEMMA TopFrame ==
    ASSUME CoreTypeOK, NEW kind, Waiting(kind)
    PROVE  /\ Len(frames) \in Nat /\ Len(frames) > 0
           /\ Last(frames) \in Frame
           /\ Last(frames) = frames[Len(frames)]
           /\ Last(frames).kind = kind
           /\ Front(frames) \in Seq(Frame)
BY LastOfSeq, FrontOfSeq, LenProperties DEF CoreTypeOK, Waiting

(* What the library pushes on the call stack are frames. *)
LEMMA PushedFrames ==
    /\ \A kind \in Loop \cup Lost: NewFrame(kind, NULL, NULL, UsbusComplete) \in Frame
    /\ \A d \in Device: ConnectedFrame(d) \in Frame
    /\ DisconnectedFrame \in Frame
    /\ \A w \in Token, s \in Status: TransferFrame(w, s) \in Frame
BY DEF Frame, NewFrame, ConnectedFrame, DisconnectedFrame, TransferFrame, Status, UsbusComplete

-----------------------------------------------------------------------------
(* The operators by what they are about.                                     *)

(* Listening, notifications, and callbacks that return: what starts          *)
(* usbusListen(), what loses it, and the rest.                               *)
LosesPort ==
    /\ frames' = Append(frames, LostFrame("lost port"))
    /\ UNCHANGED <<mem, isOpen, transfer, owed>>

QuietListenOp ==
    \/ ListenReturns \/ ListenContinues
    \/ \E kind \in {"discovered", "terminated"}: LoopStarts(kind) \/ LoopEnds(kind)
    \/ DisconnectedCall \/ DisconnectedReturns \/ KeepDevice

ListenOp == usbusListen \/ LosesPort \/ QuietListenOp

LoopOp == ListenOp \/ TransferReturns

DeviceOp(d) ==
    \/ dispatchConnectedDevice(d) \/ usbusDispose(d)
    \/ \E r \in Int: usbusOpen(d, r)
    \/ usbusClose(d) \/ InterfaceCall(d)
    \/ \E kind \in Lost: CallIsLost(d, kind)

TransferOp(t) ==
    \/ usbusAllocateTransfer(t) \/ usbusReleaseTransfer(t)
    \/ \E d \in Device, ep \in Endpoint, cb \in BOOLEAN: usbusSetBulkTransferInfo(t, d, ep, cb)
    \/ \E r \in Int: usbusSubmitTransfer(t, r)
    \/ usbusCancelTransfer(t)

(* Loops and callbacks change only the stack, except that a connected        *)
(* callback that returns may dispose its device.                             *)
LEMMA LoopOpTypes ==
    ASSUME CoreTypeOK, LoopOp
    PROVE  CoreTypeOK' /\ UNCHANGED <<mem, isOpen, transfer, owed>>
<1>1. UNCHANGED <<mem, isOpen, transfer, owed>>
  BY DEF LoopOp, ListenOp, LosesPort, QuietListenOp, usbusListen, ListenReturns, ListenContinues, LoopStarts, LoopEnds,
         DisconnectedCall, DisconnectedReturns, KeepDevice, TransferReturns
<1>2. frames' \in Seq(Frame)
  <2>0. frames \in Seq(Frame)
    BY DEF CoreTypeOK
  <2>1. CASE usbusListen
    BY <2>0, <2>1, PushedFrames, AppendProperties DEF usbusListen, ListenFrame, Loop
  <2>2. CASE ListenReturns \/ DisconnectedReturns \/ TransferReturns \/ \E kind \in Loop: LoopEnds(kind)
    BY <2>2, TopFrame DEF ListenReturns, DisconnectedReturns, TransferReturns, LoopEnds
  <2>3. CASE ListenContinues
    <3>1. Front(frames) \in Seq(Frame) /\ LoopFrame("terminated") \in Frame
      BY <2>3, TopFrame, PushedFrames DEF ListenContinues, LoopFrame, Loop
    <3>. QED
      BY <2>3, <3>1, AppendProperties DEF ListenContinues
  <2>4. ASSUME NEW kind \in Loop, LoopStarts(kind) PROVE frames' \in Seq(Frame)
    BY <2>0, <2>4, PushedFrames, AppendProperties DEF LoopStarts, LoopFrame
  <2>5. CASE DisconnectedCall
    BY <2>0, <2>5, PushedFrames, AppendProperties DEF DisconnectedCall
  <2>6. CASE KeepDevice
    <3>1. Len(frames) \in 1..Len(frames) /\ Last(frames) \in Frame /\ Last(frames) = frames[Len(frames)]
      BY <2>6, TopFrame DEF KeepDevice
    <3>2. [Last(frames) EXCEPT !.keep = TRUE] \in Frame
      BY <3>1 DEF Frame
    <3>. QED
      BY <2>0, <2>6, <3>1, <3>2, ExceptSeq DEF KeepDevice
  <2>7. CASE LosesPort
    BY <2>0, <2>7, PushedFrames, AppendProperties DEF LosesPort, LostFrame, Lost
  <2>. QED
    BY <2>1, <2>2, <2>3, <2>4, <2>5, <2>6, <2>7 DEF LoopOp, ListenOp, QuietListenOp, Loop
<1>. QED
  BY <1>1, <1>2 DEF CoreTypeOK

(* A connected callback that returns disposes its device or nothing. *)
LEMMA ConnectedReturnsTypes ==
    ASSUME CoreTypeOK, ConnectedReturns
    PROVE  /\ CoreTypeOK'
           /\ UNCHANGED <<isOpen, transfer, owed>>
           /\ \A d \in Device: mem'[d] # mem[d] => mem'[d] = "free" /\ (CarefulApp => ~isOpen[d])
<1>1. Front(frames) \in Seq(Frame) /\ Last(frames) \in Frame
  BY TopFrame DEF ConnectedReturns
<1>2. Last(frames).keep \in BOOLEAN
  BY <1>1 DEF Frame
<1>. QED
  BY <1>1, <1>2 DEF ConnectedReturns, CoreTypeOK

(* An operation on a device changes no transfer and no other device. *)
LEMMA DeviceOpTypes ==
    ASSUME CoreTypeOK, NEW d \in Device, DeviceOp(d)
    PROVE  /\ CoreTypeOK'
           /\ UNCHANGED <<transfer, owed>>
           /\ \A e \in Device \ {d}: mem'[e] = mem[e] /\ isOpen'[e] = isOpen[e]
<1>1. frames' \in Seq(Frame)
  <2>0. frames \in Seq(Frame)
    BY DEF CoreTypeOK
  <2>1. CASE dispatchConnectedDevice(d)
    BY <2>0, <2>1, PushedFrames, AppendProperties DEF dispatchConnectedDevice
  <2>2. ASSUME NEW kind \in Lost, CallIsLost(d, kind) PROVE frames' \in Seq(Frame)
    BY <2>0, <2>2, PushedFrames, AppendProperties DEF CallIsLost, LostFrame
  <2>3. CASE UNCHANGED frames
    BY <2>0, <2>3
  <2>. QED
    BY <2>1, <2>2, <2>3 DEF DeviceOp, usbusDispose, usbusOpen, usbusClose, InterfaceCall, coreVars
<1>2. /\ UNCHANGED <<transfer, owed>>
      /\ mem' \in [Device -> {"free", "live", "lost"}]
      /\ isOpen' \in [Device -> BOOLEAN]
      /\ \A e \in Device \ {d}: mem'[e] = mem[e] /\ isOpen'[e] = isOpen[e]
  BY DEF DeviceOp, dispatchConnectedDevice, usbusDispose, usbusOpen, usbusClose, InterfaceCall,
         CallIsLost, coreVars, CoreTypeOK
<1>. QED
  BY <1>1, <1>2 DEF CoreTypeOK

(* An operation on a transfer changes no device and no other transfer, and   *)
(* a transfer that is owed a completion keeps its fields.                    *)
LEMMA TransferOpTypes ==
    ASSUME CoreTypeOK, NEW t \in Transfer, TransferOp(t)
    PROVE  /\ CoreTypeOK'
           /\ UNCHANGED <<mem, isOpen, frames>>
           /\ \A u \in Transfer \ {t}: transfer'[u] = transfer[u] /\ owed'[u] = owed[u]
           /\ owed'[t] >= owed[t]
           /\ transfer'[t] = transfer[t] \/ transfer[t] = NULL \/ owed[t] = 0
<1>1. owed[t] \in Nat /\ transfer[t] \in {NULL} \cup TransferInfo
  BY DEF CoreTypeOK
<1>2. CASE usbusAllocateTransfer(t) \/ usbusReleaseTransfer(t)
  BY <1>1, <1>2 DEF usbusAllocateTransfer, usbusReleaseTransfer, CoreTypeOK, TransferInfo
<1>3. ASSUME NEW d \in Device, NEW ep \in Endpoint, NEW cb \in BOOLEAN, usbusSetBulkTransferInfo(t, d, ep, cb)
      PROVE  /\ CoreTypeOK'
             /\ UNCHANGED <<mem, isOpen, frames>>
             /\ \A u \in Transfer \ {t}: transfer'[u] = transfer[u] /\ owed'[u] = owed[u]
             /\ owed'[t] >= owed[t]
             /\ transfer'[t] = transfer[t] \/ transfer[t] = NULL \/ owed[t] = 0
  BY <1>1, <1>3 DEF usbusSetBulkTransferInfo, CoreTypeOK, TransferInfo
<1>4. CASE \E r \in Int: usbusSubmitTransfer(t, r)
  BY <1>1, <1>4 DEF usbusSubmitTransfer, CoreTypeOK
<1>5. CASE usbusCancelTransfer(t)
  BY <1>1, <1>5 DEF usbusCancelTransfer, coreVars, CoreTypeOK
<1>. QED
  BY <1>2, <1>3, <1>4, <1>5 DEF TransferOp

(* A report takes one completion off what its transfer is owed. *)
LEMMA ProcessEventsTypes ==
    ASSUME CoreTypeOK, NEW t \in Transfer, NEW w \in Token, NEW s \in Status,
           owed[t] > 0, usbusProcessEvents(t, w, s)
    PROVE  /\ CoreTypeOK'
           /\ UNCHANGED <<mem, isOpen, transfer>>
           /\ owed'[t] = owed[t] - 1
           /\ \A u \in Transfer \ {t}: owed'[u] = owed[u]
<1>1. frames' \in Seq(Frame)
  BY PushedFrames, AppendProperties DEF usbusProcessEvents, CoreTypeOK
<1>2. owed[t] \in Nat /\ owed[t] - 1 \in Nat
  BY DEF CoreTypeOK
<1>. QED
  BY <1>1, <1>2 DEF usbusProcessEvents, CoreTypeOK

-----------------------------------------------------------------------------
(* Kinds of frames that are not on the stack.                                *)

(* No function on the stack is of a kind in K; none is lost. *)
NoFrameOf(K) == \A k \in DOMAIN frames: frames[k].kind \notin K

NoLostFrame == NoFrameOf(Lost)

(* The function on the top is of a kind that is on the stack. *)
LEMMA WaitingIsFrame ==
    ASSUME CoreTypeOK, NEW K, NoFrameOf(K), NEW kind \in K
    PROVE  ~Waiting(kind)
<1>. SUFFICES ASSUME Waiting(kind) PROVE FALSE
  OBVIOUS
<1>1. /\ Len(frames) \in Nat /\ Len(frames) > 0
      /\ Last(frames) = frames[Len(frames)] /\ Last(frames).kind = kind
  BY TopFrame
<1>2. DOMAIN frames = 1..Len(frames)
  BY LenProperties DEF CoreTypeOK
<1>. QED
  BY <1>1, <1>2 DEF NoFrameOf

(* Pushing a frame of another kind brings none of K, nor does popping one.   *)
LEMMA PushKeepsOut ==
    ASSUME CoreTypeOK, NEW K, NoFrameOf(K), NEW f \in Frame, f.kind \notin K, frames' = Append(frames, f)
    PROVE  NoFrameOf(K)'
<1>1. frames \in Seq(Frame) /\ frames' \in Seq(Frame)
  BY AppendProperties DEF CoreTypeOK
<1>2. /\ Len(frames') = Len(frames) + 1
      /\ \A i \in 1..Len(frames): frames'[i] = frames[i]
      /\ frames'[Len(frames) + 1] = f
  BY <1>1, AppendProperties
<1>3. DOMAIN frames = 1..Len(frames) /\ DOMAIN frames' = 1..Len(frames') /\ Len(frames) \in Nat
  BY <1>1, LenProperties
<1>. QED
  BY <1>2, <1>3 DEF NoFrameOf

(* The same for popping one. *)
LEMMA PopKeepsOut ==
    ASSUME CoreTypeOK, NEW K, NoFrameOf(K), Len(frames) > 0
    PROVE  /\ Front(frames) \in Seq(Frame)
           /\ \A k \in DOMAIN Front(frames): Front(frames)[k].kind \notin K
<1>1. frames \in Seq(Frame) /\ Front(frames) \in Seq(Frame) /\ Len(Front(frames)) = Len(frames) - 1
  BY FrontOfSeq DEF CoreTypeOK
<1>2. \A i \in 1..Len(frames) - 1: Front(frames)[i] = frames[i]
  BY FrontOfSeq DEF CoreTypeOK
<1>3. DOMAIN frames = 1..Len(frames) /\ DOMAIN Front(frames) = 1..Len(frames) - 1 /\ Len(frames) \in Nat
  BY <1>1, LenProperties
<1>. QED
  BY <1>1, <1>2, <1>3 DEF NoFrameOf

(* The kinds of what is pushed. *)
LEMMA PushedKinds ==
    /\ \A kind \in Loop \cup Lost: NewFrame(kind, NULL, NULL, UsbusComplete).kind = kind
    /\ \A d \in Device: ConnectedFrame(d).kind = "connected"
    /\ DisconnectedFrame.kind = "disconnected"
    /\ \A w \in Token, s \in Status: TransferFrame(w, s).kind = "transfer"
BY DEF NewFrame, ConnectedFrame, DisconnectedFrame, TransferFrame

(* usbusListen() and lost calls apart, no loop and no callback brings either. *)
LEMMA QuietKeepsOut ==
    ASSUME CoreTypeOK, NEW K \in SUBSET ({"listen"} \cup Lost), NoFrameOf(K),
           QuietListenOp \/ TransferReturns \/ ConnectedReturns
    PROVE  NoFrameOf(K)'
<1>0. /\ "connected" \notin K /\ "disconnected" \notin K /\ "transfer" \notin K
      /\ "discovered" \notin K /\ "terminated" \notin K
  BY DEF Lost
<1>1. CASE DisconnectedCall \/ \E kind \in {"discovered", "terminated"}: LoopStarts(kind)
  <2>1. \E f \in Frame: f.kind \notin K /\ frames' = Append(frames, f)
    <3>2. CASE DisconnectedCall
      BY <1>0, <3>2, PushedFrames, PushedKinds DEF DisconnectedCall
    <3>3. ASSUME NEW kind \in {"discovered", "terminated"}, LoopStarts(kind)
          PROVE  \E f \in Frame: f.kind \notin K /\ frames' = Append(frames, f)
      BY <1>0, <3>3, PushedFrames, PushedKinds DEF LoopStarts, LoopFrame, Loop
    <3>. QED
      BY <1>1, <3>2, <3>3
  <2>. QED
    BY <2>1, PushKeepsOut
<1>2. CASE \/ ListenReturns \/ DisconnectedReturns \/ TransferReturns \/ ConnectedReturns
           \/ \E kind \in {"discovered", "terminated"}: LoopEnds(kind)
  BY <1>2, PopKeepsOut
     DEF ListenReturns, DisconnectedReturns, TransferReturns, ConnectedReturns, LoopEnds, Waiting, NoFrameOf
<1>3. CASE ListenContinues
  <2>. DEFINE s == Front(frames)
              f == LoopFrame("terminated")
  <2>1. s \in Seq(Frame) /\ \A k \in DOMAIN s: s[k].kind \notin K
    BY <1>3, PopKeepsOut DEF ListenContinues, Waiting
  <2>2. f \in Frame /\ f.kind \notin K
    BY <1>0, PushedFrames, PushedKinds DEF LoopFrame, Loop
  <2>3. frames' = Append(s, f)
    BY <1>3 DEF ListenContinues
  <2>. HIDE DEF s, f
  <2>4. /\ frames' \in Seq(Frame) /\ Len(frames') = Len(s) + 1
        /\ \A i \in 1..Len(s): frames'[i] = s[i]
        /\ frames'[Len(s) + 1] = f
    BY <2>1, <2>2, <2>3, AppendProperties
  <2>5. DOMAIN s = 1..Len(s) /\ DOMAIN frames' = 1..Len(frames') /\ Len(s) \in Nat
    BY <2>1, <2>4, LenProperties
  <2>. QED
    BY <2>1, <2>2, <2>4, <2>5 DEF NoFrameOf
<1>4. CASE KeepDevice
  <2>1. Len(frames) \in 1..Len(frames) /\ Last(frames) = frames[Len(frames)] /\ frames \in Seq(Frame)
    BY <1>4, TopFrame DEF KeepDevice, CoreTypeOK
  <2>2. frames' = [frames EXCEPT ![Len(frames)].keep = TRUE]
    BY <1>4 DEF KeepDevice
  <2>3. DOMAIN frames' = DOMAIN frames /\ \A k \in DOMAIN frames: frames'[k].kind = frames[k].kind
    BY <2>1, <2>2 DEF Frame
  <2>. QED
    BY <2>3 DEF NoFrameOf
<1>. QED
  BY <1>1, <1>2, <1>3, <1>4 DEF QuietListenOp

(* Nor does a device that is announced, or what calls nothing back; and a    *)
(* call that is lost is no usbusListen().                                    *)
LEMMA AnnouncedKeepsOut ==
    ASSUME CoreTypeOK, NEW K \in SUBSET ({"listen"} \cup Lost), NoFrameOf(K),
           \/ UNCHANGED frames
           \/ \E d \in Device: dispatchConnectedDevice(d)
           \/ K = Lost /\ usbusListen
           \/ K = {"listen"} /\ \E kind \in Lost: frames' = Append(frames, LostFrame(kind))
    PROVE  NoFrameOf(K)'
<1>1. ASSUME NEW d \in Device, dispatchConnectedDevice(d) PROVE NoFrameOf(K)'
  <2>1. ConnectedFrame(d) \in Frame /\ ConnectedFrame(d).kind \notin K
    BY PushedFrames, PushedKinds DEF Lost
  <2>. QED
    BY <1>1, <2>1, PushKeepsOut DEF dispatchConnectedDevice
<1>2. CASE UNCHANGED frames
  BY <1>2 DEF NoFrameOf
<1>3. CASE K = Lost /\ usbusListen
  <2>1. ListenFrame \in Frame /\ ListenFrame.kind \notin K
    BY <1>3, PushedFrames, PushedKinds DEF ListenFrame, Loop, Lost
  <2>. QED
    BY <1>3, <2>1, PushKeepsOut DEF usbusListen
<1>4. ASSUME K = {"listen"}, NEW kind \in Lost, frames' = Append(frames, LostFrame(kind)) PROVE NoFrameOf(K)'
  <2>1. LostFrame(kind) \in Frame /\ LostFrame(kind).kind \notin K
    BY <1>4, PushedFrames, PushedKinds DEF LostFrame, Lost
  <2>. QED
    BY <1>4, <2>1, PushKeepsOut
<1>. QED
  BY <1>1, <1>2, <1>3, <1>4

(* Nor does a report. *)
LEMMA ProcessEventsKeepsOut ==
    ASSUME CoreTypeOK, NEW K \in SUBSET ({"listen"} \cup Lost), NoFrameOf(K),
           NEW t \in Transfer, NEW w \in Token, NEW s \in Status, usbusProcessEvents(t, w, s)
    PROVE  NoFrameOf(K)'
<1>1. CASE frames' = Append(frames, TransferFrame(w, s))
  <2>1. TransferFrame(w, s) \in Frame /\ TransferFrame(w, s).kind \notin K
    BY PushedFrames, PushedKinds DEF Lost
  <2>. QED
    BY <1>1, <2>1, PushKeepsOut
<1>2. CASE UNCHANGED frames
  BY <1>2 DEF NoFrameOf
<1>. QED
  BY <1>1, <1>2 DEF usbusProcessEvents

-----------------------------------------------------------------------------
(* Callbacks of transfers.                                                   *)

(* frames[k] waits for a callback of a transfer, and will free token w. *)
CallsBack(k, w) == k \in DOMAIN frames /\ frames[k].kind = "transfer" /\ frames[k].token = w

(* Pushing a frame adds the callback it waits for, if any. *)
LEMMA PushCallback ==
    ASSUME CoreTypeOK, NEW f \in Frame, frames' = Append(frames, f)
    PROVE  /\ Len(frames) \in Nat
           /\ \A k \in Nat: \A w:
                CallsBack(k, w)' <=> CallsBack(k, w) \/ (k = Len(frames) + 1 /\ f.kind = "transfer" /\ f.token = w)
<1>1. frames \in Seq(Frame) /\ frames' \in Seq(Frame)
  BY AppendProperties DEF CoreTypeOK
<1>2. /\ Len(frames') = Len(frames) + 1
      /\ \A i \in 1..Len(frames): frames'[i] = frames[i]
      /\ frames'[Len(frames) + 1] = f
  BY <1>1, AppendProperties
<1>3. DOMAIN frames = 1..Len(frames) /\ DOMAIN frames' = 1..Len(frames') /\ Len(frames) \in Nat
  BY <1>1, LenProperties
<1>. QED
  BY <1>2, <1>3 DEF CallsBack

(* Popping a frame takes away its callback only. *)
LEMMA PopCallback ==
    ASSUME CoreTypeOK, Len(frames) > 0, frames' = Front(frames)
    PROVE  \A k \in Nat: \A w: CallsBack(k, w)' <=> CallsBack(k, w) /\ k # Len(frames)
<1>1. /\ frames \in Seq(Frame) /\ frames' \in Seq(Frame) /\ Len(frames') = Len(frames) - 1
      /\ \A i \in 1..Len(frames) - 1: frames'[i] = frames[i]
  BY FrontOfSeq DEF CoreTypeOK
<1>2. DOMAIN frames = 1..Len(frames) /\ DOMAIN frames' = 1..Len(frames) - 1 /\ Len(frames) \in Nat
  BY <1>1, LenProperties
<1>. QED
  BY <1>1, <1>2 DEF CallsBack

(* Listening and the callbacks of devices leave the callbacks of transfers   *)
(* where they are.                                                           *)
LEMMA OthersCallNoTransfer ==
    ASSUME CoreTypeOK,
           \/ ListenOp
           \/ ConnectedReturns
           \/ \E d \in Device: DeviceOp(d)
           \/ UNCHANGED frames
    PROVE  \A k \in Nat: \A w: CallsBack(k, w)' <=> CallsBack(k, w)
<1>1. ASSUME NEW f \in Frame, f.kind # "transfer", frames' = Append(frames, f)
      PROVE  \A k \in Nat: \A w: CallsBack(k, w)' <=> CallsBack(k, w)
  BY <1>1, PushCallback
<1>2. ASSUME NEW kind, kind # "transfer", Waiting(kind), frames' = Front(frames)
      PROVE  \A k \in Nat: \A w: CallsBack(k, w)' <=> CallsBack(k, w)
  <2>1. Len(frames) > 0 /\ Last(frames) = frames[Len(frames)] /\ Last(frames).kind = kind
    BY <1>2, TopFrame
  <2>2. \A k \in Nat: \A w: CallsBack(k, w)' <=> CallsBack(k, w) /\ k # Len(frames)
    BY <1>2, <2>1, PopCallback
  <2>3. \A w: ~CallsBack(Len(frames), w)
    BY <1>2, <2>1 DEF CallsBack
  <2>. QED
    BY <2>2, <2>3
<1>3. CASE UNCHANGED frames
  BY <1>3 DEF CallsBack
<1>4. ASSUME NEW kind \in Loop \cup Lost, frames' = Append(frames, NewFrame(kind, NULL, NULL, UsbusComplete))
      PROVE  \A k \in Nat: \A w: CallsBack(k, w)' <=> CallsBack(k, w)
  <2>. DEFINE f == NewFrame(kind, NULL, NULL, UsbusComplete)
  <2>1. f \in Frame /\ f.kind # "transfer"
    BY PushedFrames DEF NewFrame, Loop, Lost
  <2>. HIDE DEF f
  <2>. QED
    BY <1>1, <1>4, <2>1 DEF f
<1>5. CASE usbusListen \/ LosesPort \/ DisconnectedCall \/ \E kind \in Loop: LoopStarts(kind)
  <2>1. CASE usbusListen
    BY <1>4, <2>1 DEF usbusListen, ListenFrame, Loop
  <2>2. CASE DisconnectedCall
    <3>1. DisconnectedFrame \in Frame /\ DisconnectedFrame.kind # "transfer"
      BY PushedFrames DEF DisconnectedFrame, NewFrame
    <3>. QED
      BY <1>1, <2>2, <3>1 DEF DisconnectedCall
  <2>3. CASE \E kind \in Loop: LoopStarts(kind)
    BY <1>4, <2>3 DEF LoopStarts, LoopFrame
  <2>4. CASE LosesPort
    BY <1>4, <2>4 DEF LosesPort, LostFrame, Lost
  <2>. QED
    BY <1>5, <2>1, <2>2, <2>3, <2>4
<1>6. CASE ListenReturns \/ DisconnectedReturns \/ ConnectedReturns \/ \E kind \in Loop: LoopEnds(kind)
  BY <1>2, <1>6 DEF ListenReturns, DisconnectedReturns, ConnectedReturns, LoopEnds, Loop
<1>7. CASE ListenContinues
  <2>. DEFINE s == Front(frames)
              f == LoopFrame("terminated")
  <2>1. /\ Len(frames) \in Nat /\ Len(frames) > 0 /\ frames[Len(frames)].kind = "listen"
        /\ DOMAIN frames = 1..Len(frames)
    BY <1>7, TopFrame, LenProperties DEF ListenContinues, CoreTypeOK
  <2>2. /\ s \in Seq(Frame) /\ Len(s) = Len(frames) - 1
        /\ \A i \in 1..Len(frames) - 1: s[i] = frames[i]
    BY <2>1, FrontOfSeq DEF CoreTypeOK
  <2>3. f \in Frame /\ f.kind # "transfer"
    BY PushedFrames DEF LoopFrame, NewFrame, Loop
  <2>4. frames' = Append(s, f)
    BY <1>7 DEF ListenContinues
  <2>. HIDE DEF s, f
  <2>5. /\ frames' \in Seq(Frame) /\ Len(frames') = Len(s) + 1
        /\ \A i \in 1..Len(s): frames'[i] = s[i]
        /\ frames'[Len(s) + 1] = f
    BY <2>2, <2>3, <2>4, AppendProperties
  <2>6. DOMAIN frames' = 1..Len(frames')
    BY <2>5, LenProperties
  <2>7. DOMAIN frames' = DOMAIN frames /\ \A i \in DOMAIN frames: i = Len(frames) \/ frames'[i] = frames[i]
    BY <2>1, <2>2, <2>5, <2>6
  <2>8. frames'[Len(frames)].kind # "transfer"
    BY <2>1, <2>2, <2>3, <2>5
  <2>. QED
    BY <2>1, <2>7, <2>8 DEF CallsBack
<1>8. CASE KeepDevice
  <2>1. Len(frames) \in 1..Len(frames) /\ frames \in Seq(Frame)
    BY <1>8, TopFrame DEF KeepDevice, CoreTypeOK
  <2>2. frames' = [frames EXCEPT ![Len(frames)].keep = TRUE]
    BY <1>8 DEF KeepDevice
  <2>3. /\ DOMAIN frames' = DOMAIN frames
        /\ \A k \in DOMAIN frames: frames'[k].kind = frames[k].kind /\ frames'[k].token = frames[k].token
    BY <2>1, <2>2 DEF Frame
  <2>. QED
    BY <2>3 DEF CallsBack
<1>9. ASSUME NEW d \in Device, DeviceOp(d) PROVE \A k \in Nat: \A w: CallsBack(k, w)' <=> CallsBack(k, w)
  <2>1. CASE dispatchConnectedDevice(d)
    <3>1. ConnectedFrame(d) \in Frame /\ ConnectedFrame(d).kind # "transfer"
      BY PushedFrames DEF ConnectedFrame, NewFrame
    <3>. QED
      BY <1>1, <2>1, <3>1 DEF dispatchConnectedDevice
  <2>2. CASE \E kind \in Lost: CallIsLost(d, kind)
    BY <1>4, <2>2 DEF CallIsLost, LostFrame
  <2>. QED
    BY <1>3, <1>9, <2>1, <2>2 DEF DeviceOp, usbusDispose, usbusOpen, usbusClose, InterfaceCall, coreVars
<1>. QED
  BY <1>3, <1>5, <1>6, <1>7, <1>8, <1>9 DEF ListenOp, QuietListenOp, Loop

=============================================================================
