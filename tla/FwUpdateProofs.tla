-------------------------- MODULE FwUpdateProofs --------------------------
(***************************************************************************)
(* Proofs about FwUpdate, for all images, attempts and room for requests.  *)
(*                                                                         *)
(* That the flash receives one image in order rests on two things.  While  *)
(* a request is under way there is one trace of it and nothing of an       *)
(* earlier update (Fresh).  During the update the segments asked for are   *)
(* in ascending order, the one that has come is behind none of them, and   *)
(* the one in the shared buffer is behind neither nor behind the location  *)
(* stored beside it (Running).  Both need that a command is alone, and of  *)
(* the present session, unless updates overlap (Alone): a session may end  *)
(* in the middle of one.                                                   *)
(***************************************************************************)
EXTENDS FwUpdate, TLAPS

USE ImagesAssumption DEF ImagesAssumption

Tasks == {"rsp", "ctrl"}

HostTyped ==
  /\ hostUp \in BOOLEAN /\ hostImage \in Images \union {NoImage} /\ via \in CmdTasks
  /\ gets \in Seq(Nat) /\ Len(gets) <= MaxGets
CmdTyped ==
  /\ cmdPc \in [CmdTasks -> {"idle", "request", "notifyReq", "segment", "setInfo", "notifySeg"}]
  /\ cmdSeg \in [CmdTasks -> Segments] /\ segBuffer \in Segments
  /\ reqImage \in Images \union {0} /\ segStart \in Nat
BitsTyped == note \in [Tasks -> SUBSET Bits] /\ todo \in [Tasks -> SUBSET Bits]
FwTyped ==
  /\ rspPc \in {"take", "handle", "deadline"} /\ connected \in BOOLEAN /\ handleOpen \in BOOLEAN
  /\ fwState \in {"IDLE", "REQUEST", "PROCESS"} /\ curLoc \in Nat /\ attempt \in 0..MaxAttempts
  /\ expImage \in Images \union {NoImage} /\ written \in Seq(Segments)
CtrlTyped ==
  /\ ctrlState \in {"READY", "FAULT", "REQUEST", "PROCESS"}
  /\ preState \in {"READY", "FAULT", "REQUEST", "PROCESS"}
SeenTyped ==
  overlap \in BOOLEAN /\ count \in [requests : Nat, drops : Nat, presses : Nat, starts : Nat]
Typed == HostTyped /\ CmdTyped /\ BitsTyped /\ FwTyped /\ CtrlTyped /\ SeenTyped

\* A press is one notification, until it has started an update.
Pressed(bits) == IF "EN" \in bits THEN 1 ELSE 0
Credited == count.starts + Pressed(note["rsp"]) + Pressed(todo["rsp"]) <= count.presses

\* What the deadline and the writer rely on during an update.
Ready == ReadyToWrite /\ (fwState = "PROCESS" => attempt < MaxAttempts)

\* A command is under way.  As long as no update overlaps another there is one
\* at most, and it is the session's own if the host has offered an image.
Serving(t) == cmdPc[t] # "idle"
Alone ==
  /\ ~hostUp => hostImage = NoImage
  /\ ~overlap => \A t \in CmdTasks : Serving(t) =>
       (hostImage # NoImage => t = via) /\ \A u \in CmdTasks : Serving(u) => u = t

\* A fw_segment has come, and once decoded is the one in the shared buffer.
Answering(t) == cmdPc[t] \in {"segment", "setInfo", "notifySeg"}
InBuffer(t) == cmdPc[t] \in {"setInfo", "notifySeg"}
Decoded == ~overlap => \A t \in CmdTasks : InBuffer(t) => segBuffer = cmdSeg[t]
Commands == Alone /\ Decoded

\* Where the one trace of a request may be.
Received(t) == cmdPc[t] = "request"
Announced(t) == Received(t) \/ cmdPc[t] = "notifyReq"
Noted == "REQ" \in note["rsp"]
Taken == "REQ" \in todo["rsp"]
Waits == fwState = "REQUEST"
Asked == Noted \/ Taken \/ Waits \/ \E t \in CmdTasks : Announced(t)
Named ==
  /\ Noted \/ Taken \/ Waits => reqImage \in Images
  /\ \A t \in CmdTasks : /\ Received(t) => cmdSeg[t][1] \in Images
                         /\ cmdPc[t] = "notifyReq" => reqImage \in Images
Fresh ==
  ~overlap /\ Asked =>
    /\ gets = <<>> /\ fwState # "PROCESS"
    /\ \A t \in CmdTasks :
         /\ ~Answering(t)
         /\ Received(t) => hostImage \in {NoImage, cmdSeg[t][1]}
         /\ Announced(t) => ~Noted /\ ~Taken /\ ~Waits
    /\ (\A t \in CmdTasks : ~Received(t)) => hostImage \in {NoImage, reqImage}
    /\ Noted => ~Taken /\ ~Waits
    /\ Taken => ~Waits

Ascending(q, max) ==
  \A i \in 1..Len(q) : q[i] <= max /\ \A j \in 1..i : q[j] <= q[i]
Behind(segment, q) == segment[1] = expImage /\ segment[2] <= curLoc
                      /\ \A i \in 1..Len(q) : segment[2] <= q[i]
Before(q) == Behind(segBuffer, q)
Coming(t, q) == Behind(cmdSeg[t], q) /\ (curLoc > 0 => segBuffer[2] <= cmdSeg[t][2])
Running ==
  ~overlap /\ fwState = "PROCESS" =>
    /\ hostImage \in {NoImage, expImage} /\ Ascending(gets, curLoc)
    /\ \A t \in CmdTasks : /\ cmdPc[t] = "segment" => Coming(t, gets)
                           /\ InBuffer(t) => Before(gets)
    /\ curLoc > 0 => Before(gets) /\ segStart <= segBuffer[2]

Invariance == Typed /\ Credited /\ Ready /\ Commands /\ Named /\ Fresh /\ Running /\ ImageInOrder

\* A task that takes its bits had none left.
LEMMA BitsTaken ==
  ASSUME BitsTyped, NEW t \in Tasks, TakeBits(t)
  PROVE  /\ BitsTyped' /\ todo[t] = {} /\ todo'[t] = note[t] /\ note'[t] = {}
         /\ \A u \in Tasks : u # t => todo'[u] = todo[u] /\ note'[u] = note[u]
BY DEF BitsTyped, TakeBits, Tasks

\* A notification adds bits, and handling one removes it.
LEMMA BitsNotified ==
  ASSUME BitsTyped, NEW t \in Tasks, NEW b \in SUBSET Bits, Notify(t, b)
  PROVE  /\ note' \in [Tasks -> SUBSET Bits] /\ note'[t] = note[t] \union b
         /\ \A u \in Tasks : u # t => note'[u] = note[u]
BY DEF BitsTyped, Notify

\* A handled bit is gone, the others are left.
LEMMA BitHandled ==
  ASSUME BitsTyped, NEW t \in Tasks, NEW b, Handled(t, b)
  PROVE  /\ todo' \in [Tasks -> SUBSET Bits] /\ todo'[t] = todo[t] \ {b}
         /\ \A u \in Tasks : u # t => todo'[u] = todo[u]
BY DEF BitsTyped, Handled

\* send_get_fw keeps the order, if what it asks for is behind nothing.
LEMMA GetSent ==
  ASSUME HostTyped, NEW n \in Nat, SendGet(n)
  PROVE  /\ gets' \in Seq(Nat) /\ Len(gets') <= MaxGets
         /\ \A k \in Nat : k <= n /\ Ascending(gets, k) => Ascending(gets', n)
         /\ \A m \in Nat : m <= n /\ (\A i \in 1..Len(gets) : m <= gets[i])
                             => \A i \in 1..Len(gets') : m <= gets'[i]
<1> USE DEF HostTyped
<1>1. CASE Len(gets) < MaxGets
  <2>1. /\ gets' = Append(gets, n) /\ gets' \in Seq(Nat) /\ Len(gets') = Len(gets) + 1
        /\ gets'[Len(gets) + 1] = n /\ \A i \in 1..Len(gets) : gets'[i] = gets[i]
    BY <1>1 DEF SendGet
  <2>2. ASSUME NEW k \in Nat, k <= n, Ascending(gets, k) PROVE Ascending(gets', n)
    <3> SUFFICES ASSUME NEW i \in 1..(Len(gets) + 1)
                 PROVE  gets'[i] <= n /\ \A j \in 1..i : gets'[j] <= gets'[i]
      BY <2>1 DEF Ascending
    <3>1. CASE i \in 1..Len(gets)
      BY <3>1, <2>1, <2>2 DEF Ascending
    <3>2. CASE i = Len(gets) + 1
      BY <3>2, <2>1, <2>2 DEF Ascending
    <3> QED BY <3>1, <3>2
  <2> QED BY <2>1, <2>2, <1>1
<1>2. CASE ~(Len(gets) < MaxGets)
  BY <1>2 DEF SendGet, Ascending
<1> QED BY <1>1, <1>2

\* The oldest of the segments asked for is behind none of the others.
LEMMA GetTaken ==
  ASSUME HostTyped, gets # <<>>, NEW max \in Nat, Ascending(gets, max)
  PROVE  /\ Tail(gets) \in Seq(Nat) /\ Len(Tail(gets)) <= MaxGets
         /\ Ascending(Tail(gets), max) /\ Head(gets) \in Nat /\ Head(gets) <= max
         /\ \A i \in 1..Len(Tail(gets)) : Head(gets) <= Tail(gets)[i]
         /\ \A m \in Nat : (\A i \in 1..Len(gets) : m <= gets[i])
              => m <= Head(gets) /\ \A i \in 1..Len(Tail(gets)) : m <= Tail(gets)[i]
<1>1. /\ Tail(gets) \in Seq(Nat) /\ Len(Tail(gets)) = Len(gets) - 1 /\ Len(gets) \in Nat
      /\ Len(gets) > 0 /\ Head(gets) = gets[1]
      /\ \A i \in 1..(Len(gets) - 1) : Tail(gets)[i] = gets[i + 1]
  BY DEF HostTyped
<1>2. Ascending(Tail(gets), max)
  BY <1>1 DEF Ascending, HostTyped
<1>3. \A i \in 1..(Len(gets) - 1) : 1 \in 1..(i + 1) /\ i + 1 \in 1..Len(gets)
  BY <1>1
<1>4. 1 \in 1..Len(gets) /\ \A i \in 1..(Len(gets) - 1) : gets[1] <= gets[i + 1]
  BY <1>1, <1>3 DEF Ascending
<1>5. Head(gets) \in Nat /\ Head(gets) <= max
  BY <1>1, <1>4 DEF Ascending, HostTyped
<1> QED BY <1>1, <1>2, <1>3, <1>4, <1>5 DEF HostTyped

\* It holds at the start.
LEMMA InitInvariance == ASSUME Init PROVE Invariance
<1> USE DEF Init
<1>1. HostTyped /\ SeenTyped
  <2>1. hostUp \in BOOLEAN /\ overlap \in BOOLEAN
    BY Zenon
  <2>2. gets \in Seq(Nat) /\ Len(gets) = 0
    OBVIOUS
  <2>3. via \in CmdTasks
    BY DEF CmdTasks
  <2> QED BY <2>1, <2>2, <2>3 DEF HostTyped, SeenTyped
<1>2. CtrlTyped /\ BitsTyped
  BY DEF CtrlTyped, BitsTyped, Tasks
<1>3. CmdTyped
  BY DEF CmdTyped, Segments
<1>4. FwTyped
  <2>1. connected \in BOOLEAN /\ handleOpen \in BOOLEAN
    BY Zenon
  <2>2. written \in Seq(Segments)
    OBVIOUS
  <2> QED BY <2>1, <2>2 DEF FwTyped
<1>5. \A t \in CmdTasks : cmdPc[t] = "idle"
  OBVIOUS
<1>6. Commands /\ Named /\ Fresh
  BY <1>5 DEF Commands, Alone, Serving, Decoded, InBuffer, Named, Fresh, Asked,
     Announced,
     Received, Noted, Taken, Waits
<1>7. Credited /\ Ready /\ Running /\ ImageInOrder
  BY DEF Credited, Pressed, Ready, ReadyToWrite, Running, ImageInOrder
<1> QED BY <1>1, <1>2, <1>3, <1>4, <1>6, <1>7 DEF Invariance, Typed

\* A host comes; it has offered nothing yet.
LEMMA KeptByHostConnect == ASSUME Invariance, NEW t \in CmdTasks, HostConnect(t) PROVE Invariance'
<1> USE DEF Invariance, Typed, HostConnect, hostVars, cmdVars, loopVars, fwVars,
   updVars, ctrlVars, seenVars
<1>1. HostTyped' /\ CtrlTyped' /\ SeenTyped'
  <2>1. HostTyped'
    BY DEF HostTyped, FwTyped, CmdTyped
  <2>2. CtrlTyped'
    BY DEF CtrlTyped
  <2>3. SeenTyped'
    BY DEF SeenTyped
  <2> QED BY <2>1, <2>2, <2>3
<1>2. BitsTyped'
  BY DEF BitsTyped, Tasks, Bits
<1>3. CmdTyped' /\ FwTyped'
  <2>1. CmdTyped'
    BY DEF CmdTyped, HostTyped, Segments
  <2>2. FwTyped'
    BY DEF FwTyped, CmdTyped, HostTyped, Ready
  <2> QED BY <2>1, <2>2
<1>4. Credited'
  BY DEF Credited, Pressed, BitsTyped, SeenTyped, Tasks, Bits
<1>5. Ready' /\ Commands'
  BY DEF Ready, ReadyToWrite, Commands, Alone, Serving, Decoded, InBuffer, CmdTyped,
     FwTyped
<1>6. Fresh' /\ Named'
  BY DEF Fresh, Named, Asked, Announced, Received, Noted, Taken, Waits, Answering,
     BitsTyped,
     HostTyped, CmdTyped, FwTyped, SeenTyped, Tasks, Bits
<1>7. Running'
  BY DEF Running, Ascending, Before, Behind, Coming, InBuffer, Fresh, Asked, Waits,
     Announced, Received, Answering, HostTyped,
     CmdTyped, FwTyped, SeenTyped
<1>8. ImageInOrder'
  BY DEF ImageInOrder, Running, Before, Behind, HostTyped, CmdTyped, FwTyped, SeenTyped
<1> QED BY <1>1, <1>2, <1>3, <1>4, <1>5, <1>6, <1>7, <1>8

\* A host leaves, and with it what it offered.
LEMMA KeptByHostDrop == ASSUME Invariance, HostDrop PROVE Invariance'
<1> USE DEF Invariance, Typed, HostDrop, hostVars, cmdVars, loopVars, fwVars, updVars,
   ctrlVars, seenVars, Counted
<1>1. HostTyped' /\ CtrlTyped' /\ SeenTyped'
  <2>1. HostTyped'
    BY DEF HostTyped, FwTyped, CmdTyped, CmdTasks
  <2>2. CtrlTyped'
    BY DEF CtrlTyped
  <2>3. SeenTyped'
    BY DEF SeenTyped
  <2> QED BY <2>1, <2>2, <2>3
<1>2. BitsTyped'
  BY DEF BitsTyped, Tasks, Bits
<1>3. CmdTyped' /\ FwTyped'
  <2>1. CmdTyped'
    BY DEF CmdTyped, HostTyped, Segments
  <2>2. FwTyped'
    BY DEF FwTyped, CmdTyped, HostTyped, Ready
  <2> QED BY <2>1, <2>2
<1>4. Credited'
  BY DEF Credited, Pressed, BitsTyped, SeenTyped, Tasks, Bits
<1>5. Ready' /\ Commands'
  BY DEF Ready, ReadyToWrite, Commands, Alone, Serving, Decoded, InBuffer, CmdTyped,
     FwTyped
<1>6. Fresh' /\ Named'
  BY DEF Fresh, Named, Asked, Announced, Received, Noted, Taken, Waits, Answering,
     BitsTyped,
     HostTyped, CmdTyped, FwTyped, SeenTyped, Tasks, Bits
<1>7. Running'
  BY DEF Running, Ascending, Before, Behind, Coming, InBuffer, Fresh, Asked, Waits,
     Announced, Received, Answering, HostTyped,
     CmdTyped, FwTyped, SeenTyped
<1>8. ImageInOrder'
  BY DEF ImageInOrder, Running, Before, Behind, HostTyped, CmdTyped, FwTyped, SeenTyped
<1> QED BY <1>1, <1>2, <1>3, <1>4, <1>5, <1>6, <1>7, <1>8

\* A request: the first trace of it, if nothing of an earlier update is left.
LEMMA KeptByHostRequest ==
  ASSUME Invariance, NEW image \in Images, HostRequest(image) PROVE Invariance'
<1> USE DEF Invariance, Typed, HostRequest, Receive, CmdGoto, Idle, hostVars, cmdVars,
   loopVars, fwVars,
   updVars, ctrlVars, seenVars, Counted, Quiet
<1>1. HostTyped' /\ CtrlTyped' /\ SeenTyped'
  <2>1. HostTyped'
    BY DEF HostTyped, FwTyped, CmdTyped
  <2>2. CtrlTyped'
    BY DEF CtrlTyped
  <2>3. SeenTyped'
    BY DEF SeenTyped
  <2> QED BY <2>1, <2>2, <2>3
<1>2. BitsTyped'
  BY DEF BitsTyped, Tasks, Bits
<1>3. CmdTyped' /\ FwTyped'
  <2>1. CmdTyped'
    BY DEF CmdTyped, HostTyped, Segments
  <2>2. FwTyped'
    BY DEF FwTyped, CmdTyped, HostTyped, Ready
  <2> QED BY <2>1, <2>2
<1>4. Credited'
  BY DEF Credited, Pressed, BitsTyped, SeenTyped, Tasks, Bits
<1>5. Ready' /\ Commands'
  BY DEF Ready, ReadyToWrite, Commands, Alone, Serving, Decoded, InBuffer, CmdTyped,
     FwTyped
<1>6. Fresh' /\ Named'
  BY DEF Fresh, Named, Asked, Announced, Received, Noted, Taken, Waits, Answering,
     BitsTyped,
     HostTyped, CmdTyped, FwTyped, SeenTyped, Tasks, Bits
<1>7. Running'
  BY DEF Running, Ascending, Before, Behind, Coming, InBuffer, Fresh, Asked, Waits,
     Announced, Received, Answering, HostTyped,
     CmdTyped, FwTyped, SeenTyped
<1>8. ImageInOrder'
  BY DEF ImageInOrder, Running, Before, Behind, HostTyped, CmdTyped, FwTyped, SeenTyped
<1> QED BY <1>1, <1>2, <1>3, <1>4, <1>5, <1>6, <1>7, <1>8

\* The trace moves on to the image announced.
LEMMA KeptByCmdSetReq == ASSUME Invariance, NEW t \in CmdTasks, CmdSetReq(t) PROVE Invariance'
<1> USE DEF Invariance, Typed, CmdSetReq, CmdStep, CmdGoto, hostVars, cmdVars,
   loopVars, fwVars,
   updVars, ctrlVars, seenVars
<1>1. HostTyped' /\ CtrlTyped' /\ SeenTyped'
  <2>1. HostTyped'
    BY DEF HostTyped, FwTyped, CmdTyped
  <2>2. CtrlTyped'
    BY DEF CtrlTyped
  <2>3. SeenTyped'
    BY DEF SeenTyped
  <2> QED BY <2>1, <2>2, <2>3
<1>2. BitsTyped'
  BY DEF BitsTyped, Tasks, Bits
<1>3. CmdTyped' /\ FwTyped'
  <2>1. reqImage' \in Images
    BY DEF Named, Received
  <2>2. CmdTyped'
    BY <2>1 DEF CmdTyped, HostTyped, Segments
  <2>3. FwTyped'
    BY DEF FwTyped, CmdTyped, HostTyped, Ready
  <2> QED BY <2>2, <2>3
<1>4. Credited'
  BY DEF Credited, Pressed, BitsTyped, SeenTyped, Tasks, Bits
<1>5. Ready' /\ Commands'
  BY DEF Ready, ReadyToWrite, Commands, Alone, Serving, Decoded, InBuffer, CmdTyped,
     FwTyped
<1>6. Fresh' /\ Named'
  BY DEF Fresh, Named, Asked, Announced, Received, Noted, Taken, Waits, Answering,
     BitsTyped, HostTyped, CmdTyped, FwTyped, SeenTyped, Tasks, Bits
<1>7. Running'
  BY DEF Running, Ascending, Before, Behind, Coming, InBuffer, Fresh, Asked, Waits,
     Announced, Received, Answering, HostTyped,
     CmdTyped, FwTyped, SeenTyped
<1>8. ImageInOrder'
  BY DEF ImageInOrder, Running, Before, Behind, HostTyped, CmdTyped, FwTyped, SeenTyped
<1> QED BY <1>1, <1>2, <1>3, <1>4, <1>5, <1>6, <1>7, <1>8

\* The trace moves on to the notification.
LEMMA KeptByCmdNotifyReq == ASSUME Invariance, NEW t \in CmdTasks, CmdNotifyReq(t) PROVE Invariance'
<1> USE DEF Invariance, Typed, CmdNotifyReq, CmdStep, CmdGoto, hostVars, cmdVars,
   loopVars, fwVars,
   updVars, ctrlVars, seenVars, Notify
<1>1. HostTyped' /\ CtrlTyped' /\ SeenTyped'
  <2>1. HostTyped'
    BY DEF HostTyped, FwTyped, CmdTyped
  <2>2. CtrlTyped'
    BY DEF CtrlTyped
  <2>3. SeenTyped'
    BY DEF SeenTyped
  <2> QED BY <2>1, <2>2, <2>3
<1>2. BitsTyped'
  BY BitsNotified DEF BitsTyped, Tasks, Bits
<1>3. CmdTyped' /\ FwTyped'
  <2>1. CmdTyped'
    BY DEF CmdTyped, HostTyped, Segments
  <2>2. FwTyped'
    BY DEF FwTyped, CmdTyped, HostTyped, Ready
  <2> QED BY <2>1, <2>2
<1>4. Credited'
  BY BitsNotified DEF Credited, Pressed, BitsTyped, SeenTyped, Tasks, Bits
<1>5. Ready' /\ Commands'
  BY DEF Ready, ReadyToWrite, Commands, Alone, Serving, Decoded, InBuffer, CmdTyped,
     FwTyped
<1>6. Fresh' /\ Named'
  <2>1. /\ todo' = todo /\ note'["rsp"] = note["rsp"] \union {"REQ"}
        /\ cmdPc'[t] = "idle" /\ \A u \in CmdTasks : u # t => cmdPc'[u] = cmdPc[u]
        /\ \A u \in CmdTasks : u # t => cmdSeg'[u] = cmdSeg[u]
    BY BitsNotified DEF Tasks, Bits, CmdTyped
  <2>2. reqImage \in Images
    BY DEF Named
  <2>3. Named'
    BY <2>1, <2>2 DEF Named, Received
  <2>4. ~overlap => /\ gets = <<>> /\ fwState # "PROCESS" /\ ~Noted /\ ~Taken /\ ~Waits
                    /\ \A u \in CmdTasks : ~Answering(u)
    BY DEF Fresh, Asked, Announced
  <2>5. ~overlap => \A u \in CmdTasks : u # t => cmdPc[u] = "idle"
    BY DEF Commands, Alone, Serving
  <2>6. ~overlap => hostImage \in {NoImage, reqImage}
    BY <2>5 DEF Fresh, Asked, Announced, Received
  <2>7. Fresh'
    BY <2>1, <2>4, <2>5, <2>6 DEF Fresh, Announced, Received, Answering, Noted, Taken,
       Waits
  <2> QED BY <2>3, <2>7
<1>7. Running'
  BY DEF Running, Ascending, Before, Behind, Coming, InBuffer, Fresh, Asked, Waits,
     Announced, Received, Answering, HostTyped,
     CmdTyped, FwTyped, SeenTyped
<1>8. ImageInOrder'
  BY DEF ImageInOrder, Running, Before, Behind, HostTyped, CmdTyped, FwTyped, SeenTyped
<1> QED BY <1>1, <1>2, <1>3, <1>4, <1>5, <1>6, <1>7, <1>8

\* The oldest segment asked for is decoded: it is behind none of the others.
LEMMA KeptByHostAnswer == ASSUME Invariance, HostAnswer PROVE Invariance'
<1> USE DEF Invariance, Typed, HostAnswer, Receive, CmdGoto, Idle, hostVars, cmdVars,
   loopVars, fwVars,
   updVars, ctrlVars, seenVars, Store
<1>1. HostTyped' /\ CtrlTyped' /\ SeenTyped'
  <2>1. HostTyped'
    BY DEF HostTyped, FwTyped, CmdTyped
  <2>2. CtrlTyped'
    BY DEF CtrlTyped
  <2>3. SeenTyped'
    BY DEF SeenTyped
  <2> QED BY <2>1, <2>2, <2>3
<1>2. BitsTyped'
  BY DEF BitsTyped, Tasks, Bits
<1>3. CmdTyped' /\ FwTyped'
  <2>1. CmdTyped'
    BY DEF CmdTyped, HostTyped, Segments
  <2>2. FwTyped'
    BY DEF FwTyped, CmdTyped, HostTyped, Ready
  <2> QED BY <2>1, <2>2
<1>4. Credited'
  BY DEF Credited, Pressed, BitsTyped, SeenTyped, Tasks, Bits
<1>5. Ready' /\ Commands'
  BY DEF Ready, ReadyToWrite, Commands, Alone, Serving, Decoded, InBuffer, CmdTyped,
     FwTyped
<1>6. Fresh' /\ Named'
  BY DEF Fresh, Named, Asked, Announced, Received, Noted, Taken, Waits, Answering,
     BitsTyped,
     HostTyped, CmdTyped, FwTyped, SeenTyped, Tasks, Bits
<1>7. Running'
  <2> SUFFICES ASSUME ~overlap, fwState = "PROCESS"
               PROVE  /\ hostImage' \in {NoImage, expImage'} /\ Ascending(gets', curLoc')
                      /\ \A t \in CmdTasks : /\ cmdPc'[t] = "segment" => Coming(t, gets)'
                                             /\ InBuffer(t)' => Before(gets)'
                      /\ curLoc > 0 => Before(gets)' /\ segStart <= segBuffer[2]
    BY DEF Running
  <2>1. /\ hostImage = expImage /\ Ascending(gets, curLoc) /\ curLoc \in Nat
        /\ curLoc > 0 => Before(gets) /\ segStart <= segBuffer[2]
        /\ segBuffer[2] \in Nat
    BY DEF Running, FwTyped, CmdTyped, Segments
  <2>2. /\ Ascending(gets', curLoc) /\ Head(gets) \in Nat /\ Head(gets) <= curLoc
        /\ \A i \in 1..Len(gets') : Head(gets) <= gets'[i]
    BY <2>1, GetTaken
  <2>3. Before(gets) => segBuffer[2] <= Head(gets) /\ Before(gets)'
    BY <2>1, GetTaken DEF Before, Behind
  <2>4. via \in CmdTasks /\ \A t \in CmdTasks : Serving(t)' => t = via
    BY DEF Alone, Commands, Serving, HostTyped, CmdTyped
  <2>5. Coming(via, gets)'
    <3>1. cmdSeg'[via] = <<expImage, Head(gets)>>
      BY <2>1, <2>4 DEF CmdTyped
    <3>2. curLoc' = curLoc /\ segBuffer' = segBuffer /\ expImage' = expImage /\ via' = via
      OBVIOUS
    <3>3. cmdSeg'[via][1] = expImage /\ cmdSeg'[via][2] = Head(gets)
      BY <3>1
    <3>4. curLoc > 0 => segBuffer[2] <= Head(gets)
      BY <2>1, <2>3
    <3> QED BY ONLY <3>2, <3>3, <3>4, <2>2 DEF Coming, Behind
  <2>6. cmdPc'[via] = "segment"
    BY <2>4 DEF CmdTyped
  <2> QED BY <2>1, <2>2, <2>3, <2>4, <2>5, <2>6 DEF Serving, InBuffer
<1>8. ImageInOrder'
  BY DEF ImageInOrder, Running, Before, Behind, HostTyped, CmdTyped, FwTyped, SeenTyped
<1> QED BY <1>1, <1>2, <1>3, <1>4, <1>5, <1>6, <1>7, <1>8

\* The oldest segment asked for is forgotten.
LEMMA KeptByHostIgnore == ASSUME Invariance, HostIgnore PROVE Invariance'
<1> USE DEF Invariance, Typed, HostIgnore, hostVars, cmdVars, loopVars, fwVars,
   updVars, ctrlVars, seenVars
<1>1. HostTyped' /\ CtrlTyped' /\ SeenTyped'
  <2>1. HostTyped'
    BY DEF HostTyped, FwTyped, CmdTyped
  <2>2. CtrlTyped'
    BY DEF CtrlTyped
  <2>3. SeenTyped'
    BY DEF SeenTyped
  <2> QED BY <2>1, <2>2, <2>3
<1>2. BitsTyped'
  BY DEF BitsTyped, Tasks, Bits
<1>3. CmdTyped' /\ FwTyped'
  <2>1. CmdTyped'
    BY DEF CmdTyped, HostTyped, Segments
  <2>2. FwTyped'
    BY DEF FwTyped, CmdTyped, HostTyped, Ready
  <2> QED BY <2>1, <2>2
<1>4. Credited'
  BY DEF Credited, Pressed, BitsTyped, SeenTyped, Tasks, Bits
<1>5. Ready' /\ Commands'
  BY DEF Ready, ReadyToWrite, Commands, Alone, Serving, Decoded, InBuffer, CmdTyped,
     FwTyped
<1>6. Fresh' /\ Named'
  BY DEF Fresh, Named, Asked, Announced, Received, Noted, Taken, Waits, Answering,
     BitsTyped,
     HostTyped, CmdTyped, FwTyped, SeenTyped, Tasks, Bits
<1>7. Running'
  <2> SUFFICES ASSUME ~overlap, fwState = "PROCESS"
               PROVE  /\ Ascending(gets', curLoc)
                      /\ \A segment \in Segments :
                           Behind(segment, gets) => Behind(segment, gets')
    BY DEF Running, Before, Behind, Coming, InBuffer, CmdTyped
  <2>1. /\ Ascending(gets, curLoc) /\ curLoc \in Nat
        /\ \A segment \in Segments : segment[2] \in Nat
    BY DEF Running, FwTyped, Segments
  <2> QED BY <2>1, GetTaken DEF Behind
<1>8. ImageInOrder'
  BY DEF ImageInOrder, Running, Before, Behind, HostTyped, CmdTyped, FwTyped, SeenTyped
<1> QED BY <1>1, <1>2, <1>3, <1>4, <1>5, <1>6, <1>7, <1>8

\* The segment that has come is decoded: it is behind none of those asked for.
LEMMA KeptByCmdDecode == ASSUME Invariance, NEW t \in CmdTasks, CmdDecode(t) PROVE Invariance'
<1> USE DEF Invariance, Typed, CmdDecode, CmdStep, CmdGoto, hostVars, cmdVars,
   loopVars, fwVars,
   updVars, ctrlVars, seenVars, Store
<1>1. HostTyped' /\ CtrlTyped' /\ SeenTyped'
  <2>1. HostTyped'
    BY DEF HostTyped, FwTyped, CmdTyped
  <2>2. CtrlTyped'
    BY DEF CtrlTyped
  <2>3. SeenTyped'
    BY DEF SeenTyped
  <2> QED BY <2>1, <2>2, <2>3
<1>2. BitsTyped'
  BY DEF BitsTyped, Tasks, Bits
<1>3. CmdTyped' /\ FwTyped'
  <2>1. CmdTyped'
    BY DEF CmdTyped, HostTyped, Segments
  <2>2. FwTyped'
    BY DEF FwTyped, CmdTyped, HostTyped, Ready
  <2> QED BY <2>1, <2>2
<1>4. Credited'
  BY DEF Credited, Pressed, BitsTyped, SeenTyped, Tasks, Bits
<1>5. Ready' /\ Commands'
  BY DEF Ready, ReadyToWrite, Commands, Alone, Serving, Decoded, InBuffer, CmdTyped,
     FwTyped
<1>6. Fresh' /\ Named'
  BY DEF Fresh, Named, Asked, Announced, Received, Noted, Taken, Waits, Answering,
     BitsTyped,
     HostTyped, CmdTyped, FwTyped, SeenTyped, Tasks, Bits
<1>7. Running'
  <2> SUFFICES ASSUME ~overlap, fwState = "PROCESS"
               PROVE  /\ \A u \in CmdTasks : cmdPc'[u] # "segment"
                      /\ Before(gets)' /\ (curLoc > 0 => segStart <= segBuffer'[2])
    BY DEF Running
  <2>1. Coming(t, gets) /\ segBuffer' = cmdSeg[t]
    BY DEF Running
  <2>2. \A u \in CmdTasks : cmdPc'[u] # "segment"
    BY DEF Commands, Alone, Serving, CmdTyped
  <2>3. curLoc > 0 => segStart <= segBuffer'[2]
    <3> HAVE curLoc > 0
    <3>1. segStart <= segBuffer[2] /\ segBuffer[2] <= cmdSeg[t][2]
      BY <2>1 DEF Running, Coming
    <3>2. segStart \in Nat /\ segBuffer[2] \in Nat /\ cmdSeg[t][2] \in Nat
      BY DEF CmdTyped, Segments
    <3> QED BY <3>1, <3>2, <2>1
  <2> QED BY <2>1, <2>2, <2>3 DEF Coming, Before, Behind
<1>8. ImageInOrder'
  BY DEF ImageInOrder, Running, Before, Behind, HostTyped, CmdTyped, FwTyped, SeenTyped
<1> QED BY <1>1, <1>2, <1>3, <1>4, <1>5, <1>6, <1>7, <1>8

\* The location stored is the one in the shared buffer.
LEMMA KeptByCmdSetInfo == ASSUME Invariance, NEW t \in CmdTasks, CmdSetInfo(t) PROVE Invariance'
<1> USE DEF Invariance, Typed, CmdSetInfo, CmdStep, CmdGoto, hostVars, cmdVars,
   loopVars, fwVars,
   updVars, ctrlVars, seenVars, Store
<1>1. HostTyped' /\ CtrlTyped' /\ SeenTyped'
  <2>1. HostTyped'
    BY DEF HostTyped, FwTyped, CmdTyped
  <2>2. CtrlTyped'
    BY DEF CtrlTyped
  <2>3. SeenTyped'
    BY DEF SeenTyped
  <2> QED BY <2>1, <2>2, <2>3
<1>2. BitsTyped'
  BY DEF BitsTyped, Tasks, Bits
<1>3. CmdTyped' /\ FwTyped'
  <2>1. CmdTyped'
    BY DEF CmdTyped, HostTyped, Segments
  <2>2. FwTyped'
    BY DEF FwTyped, CmdTyped, HostTyped, Ready
  <2> QED BY <2>1, <2>2
<1>4. Credited'
  BY DEF Credited, Pressed, BitsTyped, SeenTyped, Tasks, Bits
<1>5. Ready' /\ Commands'
  BY DEF Ready, ReadyToWrite, Commands, Alone, Serving, Decoded, InBuffer, CmdTyped,
     FwTyped
<1>6. Fresh' /\ Named'
  BY DEF Fresh, Named, Asked, Announced, Received, Noted, Taken, Waits, Answering,
     BitsTyped,
     HostTyped, CmdTyped, FwTyped, SeenTyped, Tasks, Bits
<1>7. Running'
  <2> SUFFICES ASSUME ~overlap, fwState = "PROCESS"
               PROVE  /\ \A u \in CmdTasks : cmdPc'[u] # "segment"
                      /\ Before(gets) /\ segStart' <= segBuffer[2]
    BY DEF Running, Before, Behind
  <2>1. segStart' = segBuffer[2] /\ segBuffer[2] \in Nat
    BY DEF Commands, Decoded, InBuffer, CmdTyped, Segments
  <2>2. Before(gets)
    BY DEF Running, InBuffer
  <2>3. \A u \in CmdTasks : cmdPc'[u] # "segment"
    BY DEF Commands, Alone, Serving, CmdTyped
  <2> QED BY <2>1, <2>2, <2>3
<1>8. ImageInOrder'
  BY DEF ImageInOrder, Running, Before, Behind, HostTyped, CmdTyped, FwTyped, SeenTyped
<1> QED BY <1>1, <1>2, <1>3, <1>4, <1>5, <1>6, <1>7, <1>8

\* The answer is complete.
LEMMA KeptByCmdNotifySeg == ASSUME Invariance, NEW t \in CmdTasks, CmdNotifySeg(t) PROVE Invariance'
<1> USE DEF Invariance, Typed, CmdNotifySeg, CmdStep, CmdGoto, hostVars, cmdVars,
   loopVars, fwVars,
   updVars, ctrlVars, seenVars, Notify
<1>1. HostTyped' /\ CtrlTyped' /\ SeenTyped'
  <2>1. HostTyped'
    BY DEF HostTyped, FwTyped, CmdTyped
  <2>2. CtrlTyped'
    BY DEF CtrlTyped
  <2>3. SeenTyped'
    BY DEF SeenTyped
  <2> QED BY <2>1, <2>2, <2>3
<1>2. BitsTyped'
  BY BitsNotified DEF BitsTyped, Tasks, Bits
<1>3. CmdTyped' /\ FwTyped'
  <2>1. CmdTyped'
    BY DEF CmdTyped, HostTyped, Segments
  <2>2. FwTyped'
    BY DEF FwTyped, CmdTyped, HostTyped, Ready
  <2> QED BY <2>1, <2>2
<1>4. Credited'
  BY BitsNotified DEF Credited, Pressed, BitsTyped, SeenTyped, Tasks, Bits
<1>5. Ready' /\ Commands'
  BY DEF Ready, ReadyToWrite, Commands, Alone, Serving, Decoded, InBuffer, CmdTyped,
     FwTyped
<1>6. Fresh' /\ Named'
  BY BitsNotified DEF Fresh, Named, Asked, Announced, Received, Noted, Taken, Waits,
     Answering,
     BitsTyped, HostTyped, CmdTyped, FwTyped, SeenTyped, Tasks, Bits
<1>7. Running'
  BY DEF Running, Ascending, Before, Behind, Coming, InBuffer, Fresh, Asked, Waits,
     Announced, Received, Answering, HostTyped,
     CmdTyped, FwTyped, SeenTyped
<1>8. ImageInOrder'
  BY DEF ImageInOrder, Running, Before, Behind, HostTyped, CmdTyped, FwTyped, SeenTyped
<1> QED BY <1>1, <1>2, <1>3, <1>4, <1>5, <1>6, <1>7, <1>8

\* Bits are taken when none is left.
LEMMA KeptByRspTake == ASSUME Invariance, RspTake PROVE Invariance'
<1> USE DEF Invariance, Typed, RspTake, hostVars, cmdVars, loopVars, fwVars, updVars,
   ctrlVars, seenVars
<1>1. HostTyped' /\ CtrlTyped' /\ SeenTyped'
  <2>1. HostTyped'
    BY DEF HostTyped, FwTyped, CmdTyped
  <2>2. CtrlTyped'
    BY DEF CtrlTyped
  <2>3. SeenTyped'
    BY DEF SeenTyped
  <2> QED BY <2>1, <2>2, <2>3
<1>2. BitsTyped'
  BY BitsTaken DEF BitsTyped, Tasks, Bits
<1>3. CmdTyped' /\ FwTyped'
  <2>1. CmdTyped'
    BY DEF CmdTyped, HostTyped, Segments
  <2>2. FwTyped'
    BY DEF FwTyped, CmdTyped, HostTyped, Ready
  <2> QED BY <2>1, <2>2
<1>4. Credited'
  BY BitsTaken DEF Credited, Pressed, BitsTyped, SeenTyped, Tasks, Bits
<1>5. Ready' /\ Commands'
  BY DEF Ready, ReadyToWrite, Commands, Alone, Serving, Decoded, InBuffer, CmdTyped,
     FwTyped
<1>6. Fresh' /\ Named'
  BY BitsTaken DEF Fresh, Named, Asked, Announced, Received, Noted, Taken, Waits,
     Answering,
     BitsTyped, HostTyped, CmdTyped, FwTyped, SeenTyped, Tasks, Bits
<1>7. Running'
  BY DEF Running, Ascending, Before, Behind, Coming, InBuffer, Fresh, Asked, Waits,
     Announced, Received, Answering, HostTyped,
     CmdTyped, FwTyped, SeenTyped
<1>8. ImageInOrder'
  BY DEF ImageInOrder, Running, Before, Behind, HostTyped, CmdTyped, FwTyped, SeenTyped
<1> QED BY <1>1, <1>2, <1>3, <1>4, <1>5, <1>6, <1>7, <1>8

\* The trace moves on to the state.
LEMMA KeptByRspRequest == ASSUME Invariance, RspRequest PROVE Invariance'
<1> USE DEF Invariance, Typed, RspRequest, hostVars, cmdVars, loopVars, fwVars,
   updVars, ctrlVars, seenVars, RspHandles, Handles
<1>1. HostTyped' /\ CtrlTyped' /\ SeenTyped'
  <2>1. HostTyped'
    BY DEF HostTyped, FwTyped, CmdTyped
  <2>2. CtrlTyped'
    BY DEF CtrlTyped
  <2>3. SeenTyped'
    BY DEF SeenTyped
  <2> QED BY <2>1, <2>2, <2>3
<1>2. BitsTyped'
  BY BitsNotified, BitHandled DEF BitsTyped, Tasks, Bits
<1>3. CmdTyped' /\ FwTyped'
  <2>1. CmdTyped'
    BY DEF CmdTyped, HostTyped, Segments
  <2>2. FwTyped'
    BY DEF FwTyped, CmdTyped, HostTyped, Ready
  <2> QED BY <2>1, <2>2
<1>4. Credited'
  BY BitsNotified, BitHandled DEF Credited, Pressed, BitsTyped, SeenTyped, Tasks, Bits
<1>5. Ready' /\ Commands'
  BY DEF Ready, ReadyToWrite, Commands, Alone, Serving, Decoded, InBuffer, CmdTyped,
     FwTyped
<1>6. Fresh' /\ Named'
  BY BitsNotified, BitHandled DEF Fresh, Named, Asked, Announced, Received, Noted,
     Taken, Waits,
     Answering, BitsTyped, HostTyped, CmdTyped, FwTyped, SeenTyped, Tasks, Bits
<1>7. Running'
  BY DEF Running, Ascending, Before, Behind, Coming, InBuffer, Fresh, Asked, Waits,
     Announced, Received, Answering, HostTyped,
     CmdTyped, FwTyped, SeenTyped
<1>8. ImageInOrder'
  BY DEF ImageInOrder, Running, Before, Behind, HostTyped, CmdTyped, FwTyped, SeenTyped
<1> QED BY <1>1, <1>2, <1>3, <1>4, <1>5, <1>6, <1>7, <1>8

\* A segment that was not expected.
LEMMA KeptByRspSegmentIgnored == ASSUME Invariance, RspSegmentIgnored PROVE Invariance'
<1> USE DEF Invariance, Typed, RspSegmentIgnored, hostVars, cmdVars, loopVars, fwVars,
   updVars, ctrlVars, seenVars, RspHandles, Handles
<1>1. HostTyped' /\ CtrlTyped' /\ SeenTyped'
  <2>1. HostTyped'
    BY DEF HostTyped, FwTyped, CmdTyped
  <2>2. CtrlTyped'
    BY DEF CtrlTyped
  <2>3. SeenTyped'
    BY DEF SeenTyped
  <2> QED BY <2>1, <2>2, <2>3
<1>2. BitsTyped'
  BY BitHandled DEF BitsTyped, Tasks, Bits
<1>3. CmdTyped' /\ FwTyped'
  <2>1. CmdTyped'
    BY DEF CmdTyped, HostTyped, Segments
  <2>2. FwTyped'
    BY DEF FwTyped, CmdTyped, HostTyped, Ready
  <2> QED BY <2>1, <2>2
<1>4. Credited'
  BY BitHandled DEF Credited, Pressed, BitsTyped, SeenTyped, Tasks, Bits
<1>5. Ready' /\ Commands'
  BY DEF Ready, ReadyToWrite, Commands, Alone, Serving, Decoded, InBuffer, CmdTyped,
     FwTyped
<1>6. Fresh' /\ Named'
  BY BitHandled DEF Fresh, Named, Asked, Announced, Received, Noted, Taken, Waits,
     Answering,
     BitsTyped, HostTyped, CmdTyped, FwTyped, SeenTyped, Tasks, Bits
<1>7. Running'
  BY DEF Running, Ascending, Before, Behind, Coming, InBuffer, Fresh, Asked, Waits,
     Announced, Received, Answering, HostTyped,
     CmdTyped, FwTyped, SeenTyped
<1>8. ImageInOrder'
  BY DEF ImageInOrder, Running, Before, Behind, HostTyped, CmdTyped, FwTyped, SeenTyped
<1> QED BY <1>1, <1>2, <1>3, <1>4, <1>5, <1>6, <1>7, <1>8

\* The expected segment is in the buffer, or else its location would be behind.
LEMMA KeptByRspSegmentWritten == ASSUME Invariance, RspSegmentWritten PROVE Invariance'
<1> USE DEF Invariance, Typed, RspSegmentWritten, hostVars, cmdVars, loopVars, fwVars,
   updVars, ctrlVars, seenVars, RspHandles, Handles, Acceptable, WriteSegment,
   SendGet, NoFault
<1>1. ~overlap => segBuffer = <<expImage, curLoc>>
  <2>1. CASE curLoc = 0
    BY <2>1 DEF Acceptable, Ready, ReadyToWrite
  <2>2. CASE curLoc > 0 /\ ~overlap
    <3>1. segBuffer[1] = expImage /\ segBuffer[2] <= curLoc /\ segStart <= segBuffer[2]
      BY <2>2 DEF Running, Before, Behind
    <3>2. segBuffer[2] = curLoc /\ segBuffer = <<segBuffer[1], segBuffer[2]>>
      BY <3>1 DEF CmdTyped, FwTyped, Segments
    <3> QED BY <3>1, <3>2
  <2> QED BY <2>1, <2>2 DEF FwTyped
<1>2. written' \in Seq(Segments) /\ Len(written') = Len(written) + 1 /\ Len(written) \in Nat
      /\ written'[Len(written) + 1] = segBuffer
      /\ \A k \in 1..Len(written) : written'[k] = written[k]
  BY DEF CmdTyped, FwTyped, WriteSegment
<1>3. note'["rsp"] = note["rsp"] /\ todo'["rsp"] = todo["rsp"] \ {"SEG"}
  BY BitsNotified, BitHandled DEF Tasks, Bits
<1>4. curLoc \in Nat /\ curLoc' = curLoc + 1 /\ curLoc' \in Nat
  <2>1. curLoc \in Nat
    BY Zenon DEF FwTyped
  <2>2. curLoc' = curLoc + 1
    BY Zenon
  <2> QED BY ONLY <2>1, <2>2
<1>5. HostTyped /\ (SendGet(curLoc') \/ gets' = gets) /\ UNCHANGED hostVars
  OBVIOUS
<1>6. HostTyped' /\ CtrlTyped' /\ SeenTyped'
  <2>1. gets' \in Seq(Nat) /\ Len(gets') <= MaxGets
    <3>1. CASE SendGet(curLoc')
      BY ONLY <3>1, <1>4, <1>5, GetSent
    <3>2. CASE gets' = gets
      BY ONLY <3>2, <1>5 DEF HostTyped
    <3> QED BY <1>5, <3>1, <3>2
  <2>2. HostTyped'
    BY ONLY <1>5, <2>1 DEF HostTyped, hostVars
  <2> QED BY <2>2 DEF CtrlTyped, SeenTyped
<1>7. BitsTyped'
  BY BitsNotified, BitHandled DEF BitsTyped, Tasks, Bits
<1>8. CmdTyped' /\ FwTyped'
  <2>1. CmdTyped'
    BY DEF CmdTyped
  <2>2. handleOpen' \in BOOLEAN /\ connected' \in BOOLEAN
    BY Zenon DEF FwTyped
  <2>3. attempt' \in {0, attempt} /\ fwState' \in {"IDLE", fwState} /\ rspPc' = rspPc
    BY Zenon
  <2>4. FwTyped'
    BY <2>2, <2>3, <1>2, <1>4 DEF FwTyped
  <2> QED BY <2>1, <2>4
<1>9. Credited'
  BY <1>3 DEF Credited, Pressed, SeenTyped
<1>10. Ready' /\ Commands'
  <2>1. fwState' = "PROCESS" => attempt' = 0 /\ handleOpen'
    OBVIOUS
  <2>2. Commands'
    BY DEF Commands, Alone, Serving, Decoded, InBuffer
  <2>3. Ready'
    BY ONLY <2>1, <1>2, <1>4, Ready, fwState = "PROCESS", ImagesAssumption DEF Ready,
       ReadyToWrite, ImagesAssumption
  <2> QED BY <2>2, <2>3
<1>11. Fresh' /\ Named'
  BY <1>3 DEF Fresh, Named, Asked, Announced, Received, Noted, Taken, Waits, FwTyped
<1>12. Running'
  <2> SUFFICES ASSUME ~overlap, fwState' = "PROCESS"
               PROVE  /\ hostImage' \in {NoImage, expImage'} /\ Ascending(gets', curLoc')
                      /\ \A t \in CmdTasks : cmdPc[t] = "segment" => Coming(t, gets)'
                      /\ Before(gets)' /\ segStart' <= segBuffer'[2]
    BY DEF Running, InBuffer
  <2>1. /\ hostImage \in {NoImage, expImage} /\ Ascending(gets, curLoc) /\ curLoc \in Nat
        /\ segBuffer = <<expImage, curLoc>>
    BY <1>1 DEF Running, FwTyped
  <2>2. SendGet(curLoc + 1) /\ curLoc' = curLoc + 1 /\ expImage' = expImage
    OBVIOUS
  <2>3. \A i \in 1..Len(gets) : curLoc <= gets[i]
    <3>1. CASE curLoc > 0
      BY <3>1, <2>1 DEF Running, Before, Behind
    <3>2. CASE curLoc = 0
      <4>1. \A i \in 1..Len(gets) : gets[i] \in Nat
        BY DEF HostTyped
      <4> QED BY ONLY <3>2, <4>1
    <3> QED BY <2>1, <3>1, <3>2
  <2>4. /\ Ascending(gets', curLoc + 1)
        /\ \A m \in Nat : m <= curLoc /\ (\A i \in 1..Len(gets) : m <= gets[i])
             => \A i \in 1..Len(gets') : m <= gets'[i]
    <3>1. curLoc + 1 \in Nat /\ \A m \in Nat : m <= curLoc => m <= curLoc + 1
      BY <2>1
    <3>2. curLoc <= curLoc + 1
      BY <2>1
    <3> QED BY ONLY <3>1, <3>2, <2>1, <2>2, <1>5, GetSent
  <2>5. Ascending(gets', curLoc') /\ segBuffer' = <<expImage, curLoc>> /\ segStart' = curLoc
    BY <2>1, <2>2, <2>4
  <2>6. \A i \in 1..Len(gets') : curLoc <= gets'[i]
    BY <2>1, <2>3, <2>4
  <2>7. Before(gets)'
    BY ONLY <2>1, <2>2, <2>5, <2>6 DEF Before, Behind
  <2>8. ASSUME NEW t \in CmdTasks, cmdPc[t] = "segment" PROVE Coming(t, gets)'
    <3>1. /\ cmdSeg[t][1] = expImage /\ cmdSeg[t][2] \in Nat /\ cmdSeg[t][2] <= curLoc
          /\ \A i \in 1..Len(gets) : cmdSeg[t][2] <= gets[i]
      BY <2>8 DEF Running, Coming, Behind, CmdTyped, Segments
    <3>2. curLoc <= cmdSeg[t][2]
      <4>1. CASE curLoc > 0
        BY <4>1, <2>1, <2>8 DEF Running, Coming
      <4>2. CASE curLoc = 0
        BY ONLY <4>2, <3>1
      <4> QED BY <2>1, <4>1, <4>2
    <3>3. cmdSeg[t][2] = curLoc /\ cmdSeg' = cmdSeg
      BY <3>1, <3>2, <2>1
    <3> QED BY ONLY <3>1, <3>3, <2>1, <2>2, <2>5, <2>6 DEF Coming, Behind
  <2> QED BY <2>1, <2>2, <2>5, <2>7, <2>8
<1>13. ImageInOrder'
  BY <1>1, <1>2 DEF ImageInOrder, Ready, ReadyToWrite
<1> QED BY <1>6, <1>7, <1>8, <1>9, <1>10, <1>11, <1>12, <1>13

\* A failing segment ends the update; the last one may be in the flash.
LEMMA KeptByRspSegmentFailed == ASSUME Invariance, RspSegmentFailed PROVE Invariance'
<1> USE DEF Invariance, Typed, RspSegmentFailed, hostVars, cmdVars, loopVars, fwVars,
   updVars, ctrlVars, seenVars, RspHandles, Handles, SetFault, Acceptable, WriteSegment
<1>1. \/ written' = written /\ curLoc' = curLoc
      \/ WriteSegment /\ Acceptable /\ curLoc' = curLoc + 1
  OBVIOUS
<1>2. Acceptable /\ ~overlap => segBuffer = <<expImage, curLoc>>
  <2>1. CASE Acceptable /\ curLoc = 0
    BY <2>1 DEF Acceptable, Ready, ReadyToWrite
  <2>2. CASE curLoc > 0 /\ ~overlap
    <3>1. segBuffer[1] = expImage /\ segBuffer[2] <= curLoc /\ segStart <= segBuffer[2]
      BY <2>2 DEF Running, Before, Behind
    <3>2. segBuffer[2] = curLoc /\ segBuffer = <<segBuffer[1], segBuffer[2]>>
      BY <3>1 DEF CmdTyped, FwTyped, Segments
    <3> QED BY <3>1, <3>2
  <2> QED BY <2>1, <2>2 DEF FwTyped
<1>3. WriteSegment =>
        /\ written' \in Seq(Segments) /\ Len(written') = Len(written) + 1 /\ Len(written) \in Nat
        /\ written'[Len(written) + 1] = segBuffer
        /\ \A k \in 1..Len(written) : written'[k] = written[k]
  BY DEF CmdTyped, FwTyped, WriteSegment
<1>4. HostTyped' /\ CtrlTyped' /\ SeenTyped'
  <2>1. HostTyped'
    BY DEF HostTyped, FwTyped, CmdTyped
  <2>2. CtrlTyped'
    BY DEF CtrlTyped
  <2>3. SeenTyped'
    BY DEF SeenTyped
  <2> QED BY <2>1, <2>2, <2>3
<1>5. BitsTyped'
  BY BitsNotified, BitHandled DEF BitsTyped, Tasks, Bits
<1>6. CmdTyped' /\ FwTyped'
  <2>1. CmdTyped'
    BY DEF CmdTyped
  <2>2. handleOpen' \in BOOLEAN /\ connected' \in BOOLEAN
    BY Zenon DEF FwTyped
  <2>3. FwTyped'
    BY <2>2, <1>1, <1>3 DEF FwTyped
  <2> QED BY <2>1, <2>3
<1>7. Credited'
  BY BitsNotified, BitHandled DEF Credited, Pressed, BitsTyped, SeenTyped, Tasks, Bits
<1>8. Ready' /\ Commands'
  BY DEF Ready, ReadyToWrite, Commands, Alone, Serving, Decoded, InBuffer, CmdTyped,
     FwTyped
<1>9. Fresh' /\ Named'
  BY BitsNotified, BitHandled DEF Fresh, Named, Asked, Announced, Received, Noted,
     Taken, Waits,
     Answering, BitsTyped, HostTyped, CmdTyped, FwTyped, SeenTyped, Tasks, Bits
<1>10. Running'
  BY DEF Running, Ascending, Before, Behind, Coming, InBuffer, Fresh, Asked, Waits,
     Announced, Received, Answering, HostTyped,
     CmdTyped, FwTyped, SeenTyped
<1>11. ImageInOrder'
  BY <1>1, <1>2, <1>3 DEF ImageInOrder, Ready, ReadyToWrite
<1> QED BY <1>4, <1>5, <1>6, <1>7, <1>8, <1>9, <1>10, <1>11

\* The press is used up, and the update starts with nothing asked for.
LEMMA KeptByRspEnable == ASSUME Invariance, RspEnable PROVE Invariance'
<1> USE DEF Invariance, Typed, RspEnable, hostVars, cmdVars, loopVars, fwVars,
   updVars, ctrlVars, seenVars, RspHandles, Handles, EnableExpected, UpdInit, SendGet
<1>1. HostTyped' /\ CtrlTyped' /\ SeenTyped'
  <2>1. HostTyped'
    BY GetSent DEF HostTyped, FwTyped, CmdTyped
  <2>2. CtrlTyped'
    BY DEF CtrlTyped
  <2>3. SeenTyped'
    BY DEF SeenTyped
  <2> QED BY <2>1, <2>2, <2>3
<1>2. BitsTyped'
  BY BitsNotified, BitHandled DEF BitsTyped, Tasks, Bits
<1>3. CmdTyped' /\ FwTyped'
  <2>1. CmdTyped' /\ reqImage \in Images
    BY DEF CmdTyped, Named, Asked, Waits
  <2>2. handleOpen' \in BOOLEAN /\ connected' \in BOOLEAN
    BY Zenon DEF FwTyped
  <2>3. FwTyped'
    BY <2>1, <2>2 DEF FwTyped
  <2> QED BY <2>1, <2>3
<1>4. Credited'
  BY BitsNotified, BitHandled DEF Credited, Pressed, BitsTyped, SeenTyped, Tasks, Bits
<1>5. Ready' /\ Commands'
  BY DEF Ready, ReadyToWrite, Commands, Alone, Serving, Decoded, InBuffer, CmdTyped,
     FwTyped
<1>6. Fresh' /\ Named'
  BY BitsNotified, BitHandled DEF Fresh, Named, Asked, Announced, Received, Noted,
     Taken, Waits,
     Answering, BitsTyped, HostTyped, CmdTyped, FwTyped, SeenTyped, Tasks, Bits
<1>7. Running'
  BY DEF Running, Ascending, Before, Behind, Coming, InBuffer, Fresh, Asked, Waits,
     Announced, Received, Answering, HostTyped,
     CmdTyped, FwTyped, SeenTyped
<1>8. ImageInOrder'
  BY DEF ImageInOrder, Running, Before, Behind, HostTyped, CmdTyped, FwTyped, SeenTyped
<1> QED BY <1>1, <1>2, <1>3, <1>4, <1>5, <1>6, <1>7, <1>8

\* An update that does not start.
LEMMA KeptByRspEnableFailed == ASSUME Invariance, RspEnableFailed PROVE Invariance'
<1> USE DEF Invariance, Typed, RspEnableFailed, hostVars, cmdVars, loopVars, fwVars,
   updVars, ctrlVars, seenVars, RspHandles, Handles, EnableExpected, SetFault
<1>1. HostTyped' /\ CtrlTyped' /\ SeenTyped'
  <2>1. HostTyped'
    BY DEF HostTyped, FwTyped, CmdTyped
  <2>2. CtrlTyped'
    BY DEF CtrlTyped
  <2>3. SeenTyped'
    BY DEF SeenTyped
  <2> QED BY <2>1, <2>2, <2>3
<1>2. BitsTyped'
  BY BitsNotified, BitHandled DEF BitsTyped, Tasks, Bits
<1>3. CmdTyped' /\ FwTyped'
  <2>1. CmdTyped'
    BY DEF CmdTyped, HostTyped, Segments
  <2>2. FwTyped'
    BY DEF FwTyped, CmdTyped, HostTyped, Ready
  <2> QED BY <2>1, <2>2
<1>4. Credited'
  BY BitsNotified, BitHandled DEF Credited, Pressed, BitsTyped, SeenTyped, Tasks, Bits
<1>5. Ready' /\ Commands'
  BY DEF Ready, ReadyToWrite, Commands, Alone, Serving, Decoded, InBuffer, CmdTyped,
     FwTyped
<1>6. Fresh' /\ Named'
  BY BitsNotified, BitHandled DEF Fresh, Named, Asked, Announced, Received, Noted,
     Taken, Waits,
     Answering, BitsTyped, HostTyped, CmdTyped, FwTyped, SeenTyped, Tasks, Bits
<1>7. Running'
  BY DEF Running, Ascending, Before, Behind, Coming, InBuffer, Fresh, Asked, Waits,
     Announced, Received, Answering, HostTyped,
     CmdTyped, FwTyped, SeenTyped
<1>8. ImageInOrder'
  BY DEF ImageInOrder, Running, Before, Behind, HostTyped, CmdTyped, FwTyped, SeenTyped
<1> QED BY <1>1, <1>2, <1>3, <1>4, <1>5, <1>6, <1>7, <1>8

\* A press nobody waits for.
LEMMA KeptByRspEnableIgnored == ASSUME Invariance, RspEnableIgnored PROVE Invariance'
<1> USE DEF Invariance, Typed, RspEnableIgnored, hostVars, cmdVars, loopVars, fwVars,
   updVars, ctrlVars, seenVars, RspHandles, Handles, EnableExpected
<1>1. HostTyped' /\ CtrlTyped' /\ SeenTyped'
  <2>1. HostTyped'
    BY DEF HostTyped, FwTyped, CmdTyped
  <2>2. CtrlTyped'
    BY DEF CtrlTyped
  <2>3. SeenTyped'
    BY DEF SeenTyped
  <2> QED BY <2>1, <2>2, <2>3
<1>2. BitsTyped'
  BY BitHandled DEF BitsTyped, Tasks, Bits
<1>3. CmdTyped' /\ FwTyped'
  <2>1. CmdTyped'
    BY DEF CmdTyped, HostTyped, Segments
  <2>2. FwTyped'
    BY DEF FwTyped, CmdTyped, HostTyped, Ready
  <2> QED BY <2>1, <2>2
<1>4. Credited'
  BY BitHandled DEF Credited, Pressed, BitsTyped, SeenTyped, Tasks, Bits
<1>5. Ready' /\ Commands'
  BY DEF Ready, ReadyToWrite, Commands, Alone, Serving, Decoded, InBuffer, CmdTyped,
     FwTyped
<1>6. Fresh' /\ Named'
  BY BitHandled DEF Fresh, Named, Asked, Announced, Received, Noted, Taken, Waits,
     Answering,
     BitsTyped, HostTyped, CmdTyped, FwTyped, SeenTyped, Tasks, Bits
<1>7. Running'
  BY DEF Running, Ascending, Before, Behind, Coming, InBuffer, Fresh, Asked, Waits,
     Announced, Received, Answering, HostTyped,
     CmdTyped, FwTyped, SeenTyped
<1>8. ImageInOrder'
  BY DEF ImageInOrder, Running, Before, Behind, HostTyped, CmdTyped, FwTyped, SeenTyped
<1> QED BY <1>1, <1>2, <1>3, <1>4, <1>5, <1>6, <1>7, <1>8

\* The update is ended.
LEMMA KeptByRspEnd == ASSUME Invariance, RspEnd PROVE Invariance'
<1> USE DEF Invariance, Typed, RspEnd, hostVars, cmdVars, loopVars, fwVars, updVars,
   ctrlVars, seenVars, RspHandles, Handles, EarlyTerminate
<1>1. HostTyped' /\ CtrlTyped' /\ SeenTyped'
  <2>1. HostTyped'
    BY DEF HostTyped, FwTyped, CmdTyped
  <2>2. CtrlTyped'
    BY DEF CtrlTyped
  <2>3. SeenTyped'
    BY DEF SeenTyped
  <2> QED BY <2>1, <2>2, <2>3
<1>2. BitsTyped'
  BY BitsNotified, BitHandled DEF BitsTyped, Tasks, Bits
<1>3. CmdTyped' /\ FwTyped'
  <2>1. CmdTyped'
    BY DEF CmdTyped, HostTyped, Segments
  <2>2. FwTyped'
    BY DEF FwTyped, CmdTyped, HostTyped, Ready
  <2> QED BY <2>1, <2>2
<1>4. Credited'
  BY BitsNotified, BitHandled DEF Credited, Pressed, BitsTyped, SeenTyped, Tasks, Bits
<1>5. Ready' /\ Commands'
  BY DEF Ready, ReadyToWrite, Commands, Alone, Serving, Decoded, InBuffer, CmdTyped,
     FwTyped
<1>6. Fresh' /\ Named'
  BY BitsNotified, BitHandled DEF Fresh, Named, Asked, Announced, Received, Noted,
     Taken, Waits,
     Answering, BitsTyped, HostTyped, CmdTyped, FwTyped, SeenTyped, Tasks, Bits
<1>7. Running'
  BY DEF Running, Ascending, Before, Behind, Coming, InBuffer, Fresh, Asked, Waits,
     Announced, Received, Answering, HostTyped,
     CmdTyped, FwTyped, SeenTyped
<1>8. ImageInOrder'
  BY DEF ImageInOrder, Running, Before, Behind, HostTyped, CmdTyped, FwTyped, SeenTyped
<1> QED BY <1>1, <1>2, <1>3, <1>4, <1>5, <1>6, <1>7, <1>8

\* The host is found gone, and what was asked for is forgotten.
LEMMA KeptByRspConnection == ASSUME Invariance, RspConnection PROVE Invariance'
<1> USE DEF Invariance, Typed, RspConnection, hostVars, cmdVars, loopVars, fwVars,
   updVars, ctrlVars, seenVars
<1>1. HostTyped' /\ CtrlTyped' /\ SeenTyped'
  <2>1. gets' = <<>> \/ gets' = gets
    OBVIOUS
  <2>2. gets' \in Seq(Nat) /\ Len(gets') <= MaxGets
    <3>1. CASE gets' = <<>>
      BY ONLY <3>1, ImagesAssumption DEF ImagesAssumption
    <3>2. CASE gets' = gets
      BY ONLY <3>2, HostTyped DEF HostTyped
    <3> QED BY <2>1, <3>1, <3>2
  <2>3. HostTyped'
    BY ONLY HostTyped, UNCHANGED hostVars, <2>2 DEF HostTyped, hostVars
  <2>4. CtrlTyped' /\ SeenTyped'
    BY ONLY CtrlTyped, SeenTyped, UNCHANGED <<ctrlVars, seenVars>>
    DEF CtrlTyped, SeenTyped, ctrlVars, seenVars
  <2> QED BY ONLY <2>3, <2>4
<1>2. BitsTyped'
  BY DEF BitsTyped, Tasks, Bits
<1>3. CmdTyped' /\ FwTyped'
  <2>1. CmdTyped'
    BY DEF CmdTyped, HostTyped, Segments
  <2>2. FwTyped'
    BY DEF FwTyped, CmdTyped, HostTyped, Ready
  <2> QED BY <2>1, <2>2
<1>4. Credited'
  BY DEF Credited, Pressed, BitsTyped, SeenTyped, Tasks, Bits
<1>5. Ready' /\ Commands'
  BY DEF Ready, ReadyToWrite, Commands, Alone, Serving, Decoded, InBuffer, CmdTyped,
     FwTyped
<1>6. Fresh' /\ Named'
  BY DEF Fresh, Named, Asked, Announced, Received, Noted, Taken, Waits, Answering,
     BitsTyped,
     HostTyped, CmdTyped, FwTyped, SeenTyped, Tasks, Bits
<1>7. Running'
  BY DEF Running, Ascending, Before, Behind, Coming, InBuffer, Fresh, Asked, Waits,
     Announced, Received, Answering, HostTyped,
     CmdTyped, FwTyped, SeenTyped
<1>8. ImageInOrder'
  BY DEF ImageInOrder, Running, Before, Behind, HostTyped, CmdTyped, FwTyped, SeenTyped
<1> QED BY <1>1, <1>2, <1>3, <1>4, <1>5, <1>6, <1>7, <1>8

\* Nobody pressed the button.
LEMMA KeptByRspRequestTimeout == ASSUME Invariance, RspRequestTimeout PROVE Invariance'
<1> USE DEF Invariance, Typed, RspRequestTimeout, hostVars, cmdVars, loopVars, fwVars,
   updVars, ctrlVars, seenVars, Expired
<1>1. HostTyped' /\ CtrlTyped' /\ SeenTyped'
  <2>1. HostTyped'
    BY DEF HostTyped, FwTyped, CmdTyped
  <2>2. CtrlTyped'
    BY DEF CtrlTyped
  <2>3. SeenTyped'
    BY DEF SeenTyped
  <2> QED BY <2>1, <2>2, <2>3
<1>2. BitsTyped'
  BY BitsNotified DEF BitsTyped, Tasks, Bits
<1>3. CmdTyped' /\ FwTyped'
  <2>1. CmdTyped'
    BY DEF CmdTyped, HostTyped, Segments
  <2>2. FwTyped'
    BY DEF FwTyped, CmdTyped, HostTyped, Ready
  <2> QED BY <2>1, <2>2
<1>4. Credited'
  BY BitsNotified DEF Credited, Pressed, BitsTyped, SeenTyped, Tasks, Bits
<1>5. Ready' /\ Commands'
  BY DEF Ready, ReadyToWrite, Commands, Alone, Serving, Decoded, InBuffer, CmdTyped,
     FwTyped
<1>6. Fresh' /\ Named'
  BY BitsNotified DEF Fresh, Named, Asked, Announced, Received, Noted, Taken, Waits,
     Answering,
     BitsTyped, HostTyped, CmdTyped, FwTyped, SeenTyped, Tasks, Bits
<1>7. Running'
  BY DEF Running, Ascending, Before, Behind, Coming, InBuffer, Fresh, Asked, Waits,
     Announced, Received, Answering, HostTyped,
     CmdTyped, FwTyped, SeenTyped
<1>8. ImageInOrder'
  BY DEF ImageInOrder, Running, Before, Behind, HostTyped, CmdTyped, FwTyped, SeenTyped
<1> QED BY <1>1, <1>2, <1>3, <1>4, <1>5, <1>6, <1>7, <1>8

\* The segment is asked for once more, which is in order, or the update ends.
LEMMA KeptByRspSegmentTimeout == ASSUME Invariance, RspSegmentTimeout PROVE Invariance'
<1> USE DEF Invariance, Typed, RspSegmentTimeout, hostVars, cmdVars, loopVars, fwVars,
   updVars, ctrlVars, seenVars, Expired, Attempts, SendGet, EarlyTerminate
<1>1. HostTyped' /\ CtrlTyped' /\ SeenTyped'
  <2>1. HostTyped'
    BY GetSent DEF HostTyped, FwTyped, CmdTyped
  <2>2. CtrlTyped'
    BY DEF CtrlTyped
  <2>3. SeenTyped'
    BY DEF SeenTyped
  <2> QED BY <2>1, <2>2, <2>3
<1>2. BitsTyped'
  BY BitsNotified DEF BitsTyped, Tasks, Bits
<1>3. CmdTyped' /\ FwTyped'
  <2>1. CmdTyped'
    BY DEF CmdTyped
  <2>2. handleOpen' \in BOOLEAN /\ connected' \in BOOLEAN
    BY Zenon DEF FwTyped
  <2>3. attempt' \in 0..MaxAttempts
    BY DEF FwTyped, Ready
  <2>4. fwState' \in {"IDLE", "PROCESS"} /\ expImage' = expImage /\ written' = written
    OBVIOUS
  <2>5. FwTyped'
    BY <2>2, <2>3, <2>4 DEF FwTyped
  <2> QED BY <2>1, <2>5
<1>4. Credited'
  BY BitsNotified DEF Credited, Pressed, BitsTyped, SeenTyped, Tasks, Bits
<1>5. Ready' /\ Commands'
  BY DEF Ready, ReadyToWrite, Commands, Alone, Serving, Decoded, InBuffer, CmdTyped,
     FwTyped
<1>6. Fresh' /\ Named'
  BY BitsNotified DEF Fresh, Named, Asked, Announced, Received, Noted, Taken, Waits,
     Answering,
     BitsTyped, HostTyped, CmdTyped, FwTyped, SeenTyped, Tasks, Bits
<1>7. Running'
  <2> SUFFICES ASSUME ~overlap, fwState' = "PROCESS"
               PROVE  /\ Ascending(gets', curLoc)
                      /\ \A segment \in Segments :
                           Behind(segment, gets) => Behind(segment, gets')
    BY DEF Running, Before, Behind, Coming, InBuffer, CmdTyped
  <2>1. /\ Ascending(gets, curLoc) /\ curLoc \in Nat /\ SendGet(curLoc)
        /\ \A segment \in Segments : segment[2] \in Nat
    BY DEF Running, FwTyped, Segments
  <2> QED BY <2>1, GetSent DEF Behind
<1>8. ImageInOrder'
  BY DEF ImageInOrder, Running, Before, Behind, HostTyped, CmdTyped, FwTyped, SeenTyped
<1> QED BY <1>1, <1>2, <1>3, <1>4, <1>5, <1>6, <1>7, <1>8

\* ctrl_task takes its bits.
LEMMA KeptByCtrlTake == ASSUME Invariance, CtrlTake PROVE Invariance'
<1> USE DEF Invariance, Typed, CtrlTake, hostVars, cmdVars, loopVars, fwVars, updVars,
   ctrlVars, seenVars
<1>1. HostTyped' /\ CtrlTyped' /\ SeenTyped'
  <2>1. HostTyped'
    BY DEF HostTyped, FwTyped, CmdTyped
  <2>2. CtrlTyped'
    BY DEF CtrlTyped
  <2>3. SeenTyped'
    BY DEF SeenTyped
  <2> QED BY <2>1, <2>2, <2>3
<1>2. BitsTyped'
  BY BitsTaken DEF BitsTyped, Tasks, Bits
<1>3. CmdTyped' /\ FwTyped'
  <2>1. CmdTyped'
    BY DEF CmdTyped, HostTyped, Segments
  <2>2. FwTyped'
    BY DEF FwTyped, CmdTyped, HostTyped, Ready
  <2> QED BY <2>1, <2>2
<1>4. Credited'
  BY BitsTaken DEF Credited, Pressed, BitsTyped, SeenTyped, Tasks, Bits
<1>5. Ready' /\ Commands'
  BY DEF Ready, ReadyToWrite, Commands, Alone, Serving, Decoded, InBuffer, CmdTyped,
     FwTyped
<1>6. Fresh' /\ Named'
  BY BitsTaken DEF Fresh, Named, Asked, Announced, Received, Noted, Taken, Waits,
     Answering,
     BitsTyped, HostTyped, CmdTyped, FwTyped, SeenTyped, Tasks, Bits
<1>7. Running'
  BY DEF Running, Ascending, Before, Behind, Coming, InBuffer, Fresh, Asked, Waits,
     Announced, Received, Answering, HostTyped,
     CmdTyped, FwTyped, SeenTyped
<1>8. ImageInOrder'
  BY DEF ImageInOrder, Running, Before, Behind, HostTyped, CmdTyped, FwTyped, SeenTyped
<1> QED BY <1>1, <1>2, <1>3, <1>4, <1>5, <1>6, <1>7, <1>8

\* ctrl_task handles one.
LEMMA KeptByCtrlHandle == ASSUME Invariance, NEW b \in CtrlBits, CtrlHandle(b) PROVE Invariance'
<1> USE DEF Invariance, Typed, CtrlHandle, hostVars, cmdVars, loopVars, fwVars,
   updVars, ctrlVars, seenVars, Handles, CtrlNext
<1>1. HostTyped' /\ CtrlTyped' /\ SeenTyped'
  <2>1. b \in {"FAULT", "REQ", "PROCESS", "DONE"}
    BY DEF CtrlBits
  <2>2. CtrlNext(b) \in {"READY", "FAULT", "REQUEST", "PROCESS"}
    BY <2>1 DEF CtrlTyped
  <2> QED BY <2>2 DEF HostTyped, CtrlTyped, SeenTyped
<1>2. BitsTyped'
  BY BitHandled DEF BitsTyped, Tasks, Bits
<1>3. CmdTyped' /\ FwTyped'
  <2>1. CmdTyped'
    BY DEF CmdTyped, HostTyped, Segments
  <2>2. FwTyped'
    BY DEF FwTyped, CmdTyped, HostTyped, Ready
  <2> QED BY <2>1, <2>2
<1>4. Credited'
  BY BitHandled DEF Credited, Pressed, BitsTyped, SeenTyped, Tasks, Bits
<1>5. Ready' /\ Commands'
  BY DEF Ready, ReadyToWrite, Commands, Alone, Serving, Decoded, InBuffer, CmdTyped,
     FwTyped
<1>6. Fresh' /\ Named'
  BY BitHandled DEF Fresh, Named, Asked, Announced, Received, Noted, Taken, Waits,
     Answering,
     BitsTyped, HostTyped, CmdTyped, FwTyped, SeenTyped, Tasks, Bits
<1>7. Running'
  BY DEF Running, Ascending, Before, Behind, Coming, InBuffer, Fresh, Asked, Waits,
     Announced, Received, Answering, HostTyped,
     CmdTyped, FwTyped, SeenTyped
<1>8. ImageInOrder'
  BY DEF ImageInOrder, Running, Before, Behind, HostTyped, CmdTyped, FwTyped, SeenTyped
<1> QED BY <1>1, <1>2, <1>3, <1>4, <1>5, <1>6, <1>7, <1>8

\* A press is counted before it is notified.
LEMMA KeptByCtrlButton == ASSUME Invariance, CtrlButton PROVE Invariance'
<1> USE DEF Invariance, Typed, CtrlButton, hostVars, cmdVars, loopVars, fwVars,
   updVars, ctrlVars, seenVars, Counted
<1>1. HostTyped' /\ CtrlTyped' /\ SeenTyped'
  <2>1. HostTyped'
    BY DEF HostTyped, FwTyped, CmdTyped
  <2>2. CtrlTyped'
    BY DEF CtrlTyped
  <2>3. SeenTyped'
    BY DEF SeenTyped
  <2> QED BY <2>1, <2>2, <2>3
<1>2. BitsTyped'
  BY BitsNotified DEF BitsTyped, Tasks, Bits
<1>3. CmdTyped' /\ FwTyped'
  <2>1. CmdTyped'
    BY DEF CmdTyped, HostTyped, Segments
  <2>2. FwTyped'
    BY DEF FwTyped, CmdTyped, HostTyped, Ready
  <2> QED BY <2>1, <2>2
<1>4. Credited'
  BY BitsNotified DEF Credited, Pressed, BitsTyped, SeenTyped, Tasks, Bits
<1>5. Ready' /\ Commands'
  BY DEF Ready, ReadyToWrite, Commands, Alone, Serving, Decoded, InBuffer, CmdTyped,
     FwTyped
<1>6. Fresh' /\ Named'
  <2>1. Noted' <=> Noted
    BY BitsNotified DEF Noted, Tasks, Bits
  <2> QED BY <2>1 DEF Fresh, Named, Asked, Announced, Received, Taken, Waits, Answering
<1>7. Running'
  BY DEF Running, Ascending, Before, Behind, Coming, InBuffer, Fresh, Asked, Waits,
     Announced, Received, Answering, HostTyped,
     CmdTyped, FwTyped, SeenTyped
<1>8. ImageInOrder'
  BY DEF ImageInOrder, Running, Before, Behind, HostTyped, CmdTyped, FwTyped, SeenTyped
<1> QED BY <1>1, <1>2, <1>3, <1>4, <1>5, <1>6, <1>7, <1>8

\* Nothing is left after a restart.
LEMMA KeptByCtrlReboot == ASSUME Invariance, CtrlReboot PROVE Invariance'
<1> USE DEF Invariance, Typed, CtrlReboot, hostVars, cmdVars, loopVars, fwVars,
   updVars, ctrlVars, seenVars
<1>1. HostTyped' /\ CtrlTyped' /\ SeenTyped'
  <2>1. hostUp' \in BOOLEAN
    BY Zenon
  <2>2. gets' \in Seq(Nat) /\ Len(gets') = 0
    OBVIOUS
  <2>3. via' \in CmdTasks
    BY DEF CmdTasks
  <2> QED BY <2>1, <2>2, <2>3 DEF HostTyped, CtrlTyped, SeenTyped
<1>2. BitsTyped'
  BY DEF BitsTyped, Tasks, Bits
<1>3. CmdTyped' /\ FwTyped'
  <2>1. CmdTyped'
    BY DEF CmdTyped, Segments
  <2>2. handleOpen' \in BOOLEAN /\ connected' \in BOOLEAN
    BY Zenon
  <2>3. written' \in Seq(Segments)
    OBVIOUS
  <2>4. FwTyped'
    BY <2>2, <2>3 DEF FwTyped
  <2> QED BY <2>1, <2>4
<1>4. Credited'
  BY DEF Credited, Pressed, BitsTyped, SeenTyped, Tasks, Bits
<1>5. Ready' /\ Commands'
  BY DEF Ready, ReadyToWrite, Commands, Alone, Serving, Decoded, InBuffer, CmdTyped,
     FwTyped
<1>6. Fresh' /\ Named'
  BY DEF Fresh, Named, Asked, Announced, Received, Noted, Taken, Waits, Answering,
     BitsTyped,
     HostTyped, CmdTyped, FwTyped, SeenTyped, Tasks, Bits
<1>7. Running'
  BY DEF Running, Ascending, Before, Behind, Coming, InBuffer, Fresh, Asked, Waits,
     Announced, Received, Answering, HostTyped,
     CmdTyped, FwTyped, SeenTyped
<1>8. ImageInOrder'
  BY DEF ImageInOrder, Running, Before, Behind, HostTyped, CmdTyped, FwTyped, SeenTyped
<1> QED BY <1>1, <1>2, <1>3, <1>4, <1>5, <1>6, <1>7, <1>8

\* Every step keeps it.
LEMMA StepInvariance == ASSUME Invariance, [Next]_vars PROVE Invariance'
<1>1. CASE UNCHANGED vars
  BY <1>1 DEF vars, hostVars, cmdVars, loopVars, fwVars, updVars, ctrlVars, seenVars,
     Invariance,
     Typed, HostTyped, CmdTyped, BitsTyped, FwTyped, CtrlTyped, SeenTyped, Credited, Ready,
     ReadyToWrite, Commands, Alone, Serving, Decoded, InBuffer, Answering, Fresh, Named,
     Asked, Announced, Received, Noted, Taken, Waits,
     Running, Before, Behind, Coming, ImageInOrder
<1>2. CASE Host \/ \E t \in CmdTasks : Cmd(t)
  BY <1>2, KeptByHostConnect, KeptByHostDrop, KeptByHostRequest, KeptByHostAnswer,
     KeptByHostIgnore, KeptByCmdSetReq, KeptByCmdNotifyReq, KeptByCmdDecode, KeptByCmdSetInfo,
     KeptByCmdNotifySeg DEF Host, Cmd
<1>3. CASE Rsp
  BY <1>3, KeptByRspTake, KeptByRspRequest, KeptByRspSegmentIgnored,
     KeptByRspSegmentWritten,
     KeptByRspSegmentFailed, KeptByRspEnable, KeptByRspEnableFailed, KeptByRspEnableIgnored,
     KeptByRspEnd, KeptByRspConnection, KeptByRspRequestTimeout, KeptByRspSegmentTimeout
     DEF Rsp, Expire
<1>4. CASE Ctrl \/ CtrlButton
  BY <1>4, KeptByCtrlTake, KeptByCtrlHandle, KeptByCtrlReboot, KeptByCtrlButton DEF Ctrl
<1> QED BY <1>1, <1>2, <1>3, <1>4 DEF Next

LEMMA AlwaysInvariance == Spec => []Invariance
<1> QED BY InitInvariance, StepInvariance, PTL DEF Spec

-----------------------------------------------------------------------------
(* The properties.                                                         *)

\* Every variable keeps its type: no more get_fw packets are pushed than there
\* is room for, and no more attempts are made than FW_REQ_MAX_ATTEMPTS.
THEOREM TypeCorrect == Spec => []TypeOK
<1>1. Invariance => TypeOK
  BY DEF Invariance, Typed, HostTyped, CmdTyped, BitsTyped, FwTyped, CtrlTyped,
     SeenTyped, Tasks, TypeOK
<1> QED BY <1>1, AlwaysInvariance, PTL

\* While segments are asked for a handle is open, and fw_cur_loc and cur_len of
\* upd_utilities agree.
THEOREM HandleIsReady == Spec => []ReadyToWrite
<1>1. Invariance => ReadyToWrite
  BY DEF Invariance, Ready
<1> QED BY <1>1, AlwaysInvariance, PTL

\* What reaches the flash is the announced image, in order, without gap or
\* repetition, unless a request overlapped an earlier update.
THEOREM FlashInOrder == Spec => []ImageInOrder
<1>1. Invariance => ImageInOrder
  BY DEF Invariance
<1> QED BY <1>1, AlwaysInvariance, PTL

\* No update starts without a press of its own.
THEOREM PressesBound == Spec => []OnePressOneUpdate
<1>1. Invariance => OnePressOneUpdate
  BY DEF Invariance, Typed, SeenTyped, Credited, Pressed, OnePressOneUpdate
<1> QED BY <1>1, AlwaysInvariance, PTL

=============================================================================
