------------------------------ MODULE FwUpdate ------------------------------
(***************************************************************************)
(* The firmware update over the json protocol: the commands fw_update_      *)
(* request and fw_segment (components/cmd/cmd_utilities.c), the update      *)
(* state of main/rsp_task.c, the flash writer components/cmd/               *)
(* upd_utilities.c, and the LED and button of main/ctrl_task.c.             *)
(*                                                                         *)
(* Three tasks tell each other what happened with notification bits, which  *)
(* coalesce, and pass the rest in variables nothing protects.  A task takes *)
(* all its bits at once and handles them in a fixed order; every handler is *)
(* a step, and so is each store of a command that another task can run      *)
(* before.  An image is its length in segments, and the segment k of image  *)
(* i is <<i, k>>.                                                           *)
(*                                                                         *)
(* There are two tasks that run commands, net_cmd_task those of the TCP     *)
(* client and httpd those of the browsers, and one session at a time.  The  *)
(* session of the browsers may end, and a TCP client get one, while httpd   *)
(* is still in a command.                                                   *)
(***************************************************************************)
EXTENDS Naturals, Sequences

CONSTANTS
  Images,       \* the images hosts offer
  NoImage,      \* a host that has offered none
  MaxAttempts,  \* FW_REQ_MAX_ATTEMPTS
  MaxGets,      \* get_fw packets the response buffer has room for
  MaxRequests, MaxDrops, MaxPresses, MaxEvents
                \* bounds: fw_update_requests, sessions that end, button presses,
                \* and of all three together

ASSUME ImagesAssumption ==
  /\ Images \subseteq Nat \ {0} /\ NoImage \notin Images
  /\ MaxAttempts \in Nat \ {0} /\ MaxGets \in Nat

VARIABLES
  hostUp,     \* a client holds the session
  hostImage,  \* the image it offered
  gets,       \* get_fw packets pushed and not answered: the segments asked for
  via,        \* the task that runs the commands of the session
  cmdPc,      \* next statement of each task that runs commands
  cmdSeg,     \* the segment of the fw_segment it parses; <<image, 0>> of a request
  reqImage,   \* fw_req_length, fw_update_version
  segBuffer,  \* fw_upd_segment
  segStart,   \* fw_seg_start
  note,       \* notification bits of each task
  todo,       \* the bits each task has taken and not handled yet
  rspPc,      \* where rsp_task is in its loop
  connected,  \* connected of rsp_task.c
  fwState,    \* fw_update_state
  curLoc,     \* fw_cur_loc
  attempt,    \* fw_req_attempt_num
  handleOpen, \* update_handle is an update begun and not ended
  expImage,   \* exp_version
  written,    \* the segments written through it; cur_len is its length
  ctrlState,  \* ctrl_state; READY is every state without an update or fault
  preState,   \* ctrl_pre_activity_state
  count,      \* history: requests, drops, presses, updates started
  overlap     \* history: a request came before all that belongs to an earlier
              \* one was over

hostVars == <<hostUp, hostImage, via>>
cmdVars  == <<cmdPc, cmdSeg, reqImage, segBuffer, segStart>>
loopVars == <<rspPc, connected>>
fwVars   == <<fwState, curLoc, attempt>>
updVars  == <<handleOpen, expImage, written>>
ctrlVars == <<ctrlState, preState>>
seenVars == <<count, overlap>>
vars == <<hostVars, gets, cmdVars, note, todo, loopVars, fwVars, updVars,
          ctrlVars, seenVars>>

\* The order in which each task looks at its bits.
Order == [rsp  |-> <<"REQ", "SEG", "EN", "END">>,
          ctrl |-> <<"FAULT", "REQ", "PROCESS", "DONE", "REBOOT">>]

\* Task t is about to handle bit b: it is the first one set.
Handles(t, b) ==
  b \in todo[t] /\ SelectSeq(Order[t], LAMBDA x : x \in todo[t])[1] = b
Handled(t, b) == todo' = [todo EXCEPT ![t] = @ \ {b}]

\* xTaskNotify(t, bits, eSetBits).
Notify(t, bits) == note' = [note EXCEPT ![t] = @ \union bits]

\* Plausible bug: xTaskNotifyWait is told to clear no bits.
TakeBitsKept(t) ==
  /\ todo[t] = {}
  /\ todo' = [todo EXCEPT ![t] = note[t]]
  /\ UNCHANGED note

\* xTaskNotifyWait: t takes its bits and clears them.
TakeBits(t) ==
  /\ todo[t] = {}
  /\ todo' = [todo EXCEPT ![t] = note[t]]
  /\ note' = [note EXCEPT ![t] = {}]

Counted(field, max) ==
  /\ count[field] < max /\ count.requests + count.drops + count.presses < MaxEvents
  /\ count' = [count EXCEPT ![field] = @ + 1]

-----------------------------------------------------------------------------
(* The host, and the tasks that run its commands.                          *)

CmdTasks == {"net", "httpd"}

Idle(t) == cmdPc[t] = "idle"
CmdGoto(t, l) == cmdPc' = [cmdPc EXCEPT ![t] = l]

\* Nothing of an earlier update, and no command, is still going on anywhere.
Quiet == /\ fwState = "IDLE" /\ ctrlState = "READY" /\ gets = <<>>
         /\ \A t \in {"rsp", "ctrl"} : note[t] = {} /\ todo[t] = {}
         /\ \A t \in CmdTasks : Idle(t)

\* A client takes the session: by accept, or by the first frame of a browser.
HostConnect(t) ==
  /\ ~hostUp /\ Idle(t)
  /\ hostUp' = TRUE /\ via' = t
  /\ UNCHANGED <<hostImage, gets, cmdVars, note, todo, loopVars, fwVars, updVars,
                 ctrlVars, seenVars>>

\* rsp_task is where it sends images and responses.
RspSends == connected /\ rspPc # "handle"

\* The session ends: its task sees that between two commands, or else a send of
\* rsp_task to the last browser fails.
HostDrop ==
  /\ hostUp /\ hostUp' = FALSE
  /\ Idle(via) \/ (via = "httpd" /\ RspSends)
  /\ Counted("drops", MaxDrops)
  /\ hostImage' = NoImage /\ via' = "net"
  /\ UNCHANGED <<gets, cmdVars, note, todo, loopVars, fwVars, updVars, ctrlVars,
                 overlap>>

\* A command is received; whether the session is still there when it is run the
\* task does not look.
Receive(l, segment) ==
  /\ hostUp /\ Idle(via) /\ CmdGoto(via, l)
  /\ cmdSeg' = [cmdSeg EXCEPT ![via] = segment]
  /\ UNCHANGED <<hostUp, via, reqImage, segBuffer, segStart, note, todo, loopVars,
                 fwVars, updVars, ctrlVars>>

\* The host sends fw_update_request.
HostRequest(image) ==
  /\ Receive("request", <<image, 0>>)
  /\ Counted("requests", MaxRequests)
  /\ hostImage' = image
  /\ overlap' = (overlap \/ ~Quiet)
  /\ UNCHANGED gets

\* It answers a get_fw with a fw_segment of its image.
HostAnswer ==
  /\ hostImage # NoImage /\ gets # <<>> /\ Head(gets) < hostImage
  /\ Receive("segment", <<hostImage, Head(gets)>>)
  /\ gets' = Tail(gets)
  /\ UNCHANGED <<hostImage, seenVars>>

\* A get_fw is lost, or meets a host that has no such segment.
HostIgnore ==
  /\ gets # <<>> /\ gets' = Tail(gets)
  /\ UNCHANGED <<hostVars, cmdVars, note, todo, loopVars, fwVars, updVars,
                 ctrlVars, seenVars>>

\* Task t goes on in its command from the statement l to m.
CmdStep(t, l, m) ==
  /\ cmdPc[t] = l /\ CmdGoto(t, m)
  /\ UNCHANGED <<hostVars, gets, todo, loopVars, fwVars, updVars, ctrlVars, seenVars>>

\* fw_update_request: rsp_set_fw_upd_req_info ...
CmdSetReq(t) ==
  /\ CmdStep(t, "request", "notifyReq")
  /\ reqImage' = cmdSeg[t][1]
  /\ UNCHANGED <<cmdSeg, segBuffer, segStart, note>>

\* ... and the notification.
CmdNotifyReq(t) ==
  /\ CmdStep(t, "notifyReq", "idle")
  /\ cmdSeg' = [cmdSeg EXCEPT ![t] = <<NoImage, 0>>]
  /\ Notify("rsp", {"REQ"})
  /\ UNCHANGED <<reqImage, segBuffer, segStart>>

\* Plausible bug: the location is published before the data is decoded.
StoreLocationFirst(step, segment) ==
  IF step = 1 THEN segStart' = segment[2] /\ UNCHANGED segBuffer
              ELSE segBuffer' = segment /\ UNCHANGED segStart

\* process_fw_segment: json_parse_fw_segment decodes into the shared buffer,
\* then rsp_set_fw_upd_seg_info stores the location.
Store(step, segment) ==
  IF step = 1 THEN segBuffer' = segment /\ UNCHANGED segStart
              ELSE segStart' = segment[2] /\ UNCHANGED segBuffer

\* fw_segment: it is decoded ...
CmdDecode(t) ==
  /\ CmdStep(t, "segment", "setInfo")
  /\ Store(1, cmdSeg[t])
  /\ UNCHANGED <<cmdSeg, reqImage, note>>

\* ... its location is stored ...
CmdSetInfo(t) ==
  /\ CmdStep(t, "setInfo", "notifySeg")
  /\ Store(2, cmdSeg[t])
  /\ UNCHANGED <<cmdSeg, reqImage, note>>

\* ... and rsp_task is notified.
CmdNotifySeg(t) ==
  /\ CmdStep(t, "notifySeg", "idle")
  /\ cmdSeg' = [cmdSeg EXCEPT ![t] = <<NoImage, 0>>]
  /\ Notify("rsp", {"SEG"})
  /\ UNCHANGED <<reqImage, segBuffer, segStart>>

-----------------------------------------------------------------------------
(* rsp_task.  Its loop takes notifications, handles them, looks at the      *)
(* connection, and at the deadline of the update.                           *)

\* send_get_fw(loc): pushed if there is room in the response buffer.
SendGet(loc) == gets' = IF Len(gets) < MaxGets THEN Append(gets, loc) ELSE gets

\* ctrl_set_fault_type, and CTRL_NOTIFY_FAULT: the state to return to is
\* written here, in the caller's task.
SetFault ==
  /\ preState' = IF ctrlState # "PROCESS" THEN ctrlState ELSE preState
  /\ Notify("ctrl", {"FAULT"})
  /\ UNCHANGED <<ctrlState, count, overlap>>

NoFault == UNCHANGED <<ctrlVars, seenVars>>

\* The wait for notifications, whether or not the deadline has passed.
RspTake ==
  /\ rspPc \in {"deadline", "take"} /\ rspPc' = "handle"
  /\ TakeBits("rsp")
  /\ UNCHANGED <<hostVars, gets, cmdVars, connected, fwVars, updVars, ctrlVars, seenVars>>

RspHandles(b) == rspPc = "handle" /\ Handles("rsp", b) /\ Handled("rsp", b)

\* RSP_NOTIFY_FW_UPD_REQ_MASK
RspRequest ==
  /\ RspHandles("REQ")
  /\ Notify("ctrl", {"REQ"})
  /\ fwState' = "REQUEST"
  /\ UNCHANGED <<curLoc, attempt>>
  /\ UNCHANGED <<hostVars, gets, cmdVars, loopVars, updVars, ctrlVars, seenVars>>

\* RSP_NOTIFY_FW_UPD_SEG_MASK, anything but the expected segment.
RspSegmentIgnored ==
  /\ RspHandles("SEG")
  /\ fwState # "PROCESS" \/ segStart # curLoc
  /\ UNCHANGED <<hostVars, gets, cmdVars, note, loopVars, fwVars, updVars, ctrlVars, seenVars>>

\* What upd_process_bytes accepts: the next location, and at the first one the
\* segment that describes the image, of the version expected.
Acceptable == /\ segStart = Len(written)
              /\ segStart = 0 => segBuffer = <<expImage, 0>>

\* esp_ota_end validates the image in flash: with this segment it is whole.
Whole == LET image == Append(written, segBuffer)
         IN /\ Len(image) = expImage
            /\ \A k \in 1..expImage : image[k] = <<expImage, k - 1>>

\* upd_process_bytes writes the segment.
WriteSegment == written' = Append(written, segBuffer)

\* The expected segment is written.  After the last one upd_complete ends the
\* update and the camera restarts; before it the next one is asked for.
RspSegmentWritten ==
  /\ RspHandles("SEG")
  /\ fwState = "PROCESS" /\ segStart = curLoc
  /\ handleOpen /\ Acceptable
  /\ WriteSegment
  /\ curLoc' = curLoc + 1
  /\ IF curLoc' >= reqImage
     THEN /\ Whole
          /\ handleOpen' = FALSE /\ fwState' = "IDLE"
          /\ Notify("ctrl", {"DONE", "REBOOT"})
          /\ UNCHANGED <<gets, attempt>>
     ELSE /\ attempt' = 0
          /\ SendGet(curLoc')
          /\ UNCHANGED <<handleOpen, fwState, note>>
  /\ NoFault
  /\ UNCHANGED <<hostVars, cmdVars, loopVars, expImage>>

\* The write is refused or fails, or the image fails the validation of
\* esp_ota_end: the handle is closed and the fault raised.
RspSegmentFailed ==
  /\ RspHandles("SEG")
  /\ fwState = "PROCESS" /\ segStart = curLoc
  /\ handleOpen' = FALSE /\ fwState' = "IDLE"
  /\ \/ UNCHANGED <<written, curLoc>>
     \/ /\ Acceptable /\ curLoc + 1 >= reqImage
        /\ WriteSegment
        /\ curLoc' = curLoc + 1
  /\ SetFault
  /\ UNCHANGED <<hostVars, gets, cmdVars, loopVars, attempt, expImage>>

\* An enable is obeyed only while a request waits for it.
EnableExpected == fwState = "REQUEST"

\* upd_init: an earlier handle that is still open is forgotten.
UpdInit == handleOpen' = TRUE /\ expImage' = reqImage /\ written' = <<>>

\* RSP_NOTIFY_FW_UPD_EN_MASK while waiting for it: upd_init, first get_fw.
RspEnable ==
  /\ RspHandles("EN")
  /\ EnableExpected
  /\ UpdInit
  /\ fwState' = "PROCESS" /\ curLoc' = 0 /\ attempt' = 0
  /\ SendGet(0)
  /\ Notify("ctrl", {"PROCESS"})
  /\ count' = [count EXCEPT !.starts = @ + 1]
  /\ UNCHANGED overlap
  /\ UNCHANGED <<hostVars, cmdVars, loopVars, ctrlVars>>

\* upd_init fails.
RspEnableFailed ==
  /\ RspHandles("EN")
  /\ EnableExpected
  /\ fwState' = "IDLE"
  /\ SetFault
  /\ UNCHANGED <<hostVars, gets, cmdVars, loopVars, curLoc, attempt, updVars>>

RspEnableIgnored ==
  /\ RspHandles("EN")
  /\ ~EnableExpected
  /\ UNCHANGED <<hostVars, gets, cmdVars, note, loopVars, fwVars, updVars, ctrlVars, seenVars>>

\* upd_early_terminate closes the handle, open or not.
EarlyTerminate == handleOpen' = FALSE /\ UNCHANGED <<expImage, written>>

\* Plausible bug: the update is terminated and its state kept.
RspEndKeepsState ==
  /\ RspHandles("END")
  /\ EarlyTerminate
  /\ Notify("ctrl", {"DONE"})
  /\ UNCHANGED fwVars
  /\ UNCHANGED <<hostVars, gets, cmdVars, loopVars, ctrlVars, seenVars>>

\* RSP_NOTIFY_FW_UPD_END_MASK, in any state.
RspEnd ==
  /\ RspHandles("END")
  /\ EarlyTerminate /\ fwState' = "IDLE"
  /\ Notify("ctrl", {"DONE"})
  /\ UNCHANGED <<curLoc, attempt>>
  /\ UNCHANGED <<hostVars, gets, cmdVars, loopVars, ctrlVars, seenVars>>

\* No bit is left: client_if_connected, or else init_state.  The update is
\* forgotten and the response buffer flushed; the handle is not closed, and
\* ctrl_task is not told.
RspConnection ==
  /\ rspPc = "handle" /\ todo["rsp"] = {} /\ rspPc' = "deadline"
  /\ connected' = hostUp
  /\ IF connected /\ ~hostUp
     THEN fwState' = "IDLE" /\ gets' = <<>>
     ELSE UNCHANGED <<fwState, gets>>
  /\ UNCHANGED <<hostVars, cmdVars, note, todo, curLoc, attempt, updVars, ctrlVars, seenVars>>

Expired(state) == rspPc = "deadline" /\ rspPc' = "take" /\ fwState = state

\* The user did not press the button.
RspRequestTimeout ==
  /\ Expired("REQUEST")
  /\ fwState' = "IDLE"
  /\ Notify("ctrl", {"DONE"})
  /\ UNCHANGED <<hostVars, gets, cmdVars, todo, connected, curLoc, attempt, updVars,
                 ctrlVars, seenVars>>

\* Plausible bug: the attempts are not counted.
AttemptsUncounted == 0

\* ++fw_req_attempt_num
Attempts == attempt + 1

\* The host did not answer: ask again, or give up.
RspSegmentTimeout ==
  /\ Expired("PROCESS")
  /\ attempt' = Attempts
  /\ IF Attempts < MaxAttempts
     THEN SendGet(curLoc) /\ UNCHANGED <<note, updVars, fwState>>
     ELSE /\ Notify("ctrl", {"DONE"})
          /\ EarlyTerminate /\ fwState' = "IDLE"
          /\ UNCHANGED gets
  /\ UNCHANGED <<hostVars, cmdVars, todo, connected, curLoc, ctrlVars, seenVars>>

-----------------------------------------------------------------------------
(* ctrl_task.                                                              *)

CtrlTake ==
  /\ TakeBits("ctrl")
  /\ UNCHANGED <<hostVars, gets, cmdVars, loopVars, fwVars, updVars, ctrlVars, seenVars>>

\* The LED and state that a bit leads to; only REQ saves the state to return to.
CtrlNext(b) ==
  CASE b = "FAULT"   -> "FAULT"
    [] b = "REQ"     -> "REQUEST"
    [] b = "PROCESS" -> "PROCESS"
    [] b = "DONE"    -> preState

CtrlHandle(b) ==
  /\ Handles("ctrl", b) /\ Handled("ctrl", b)
  /\ ctrlState' = CtrlNext(b)
  /\ preState' = IF b = "REQ" /\ ctrlState # "FAULT" THEN ctrlState ELSE preState
  /\ UNCHANGED <<hostVars, gets, cmdVars, note, loopVars, fwVars, updVars, seenVars>>

\* ctrl_eval_sm, a short press: it enables a requested update, ends a running
\* one, and does nothing else.
CtrlButton ==
  /\ todo["ctrl"] = {} /\ ctrlState \in {"REQUEST", "PROCESS"}
  /\ Counted("presses", MaxPresses)
  /\ Notify("rsp", {IF ctrlState = "REQUEST" THEN "EN" ELSE "END"})
  /\ UNCHANGED <<hostVars, gets, cmdVars, todo, loopVars, fwVars, updVars, ctrlVars,
                 overlap>>

\* CTRL_NOTIFY_FW_UPD_REBOOT: esp_restart.
CtrlReboot ==
  /\ Handles("ctrl", "REBOOT")
  /\ hostUp' = FALSE /\ hostImage' = NoImage /\ via' = "net" /\ connected' = FALSE
  /\ gets' = <<>>
  /\ cmdPc' = [t \in CmdTasks |-> "idle"]
  /\ cmdSeg' = [t \in CmdTasks |-> <<NoImage, 0>>] /\ reqImage' = 0
  /\ segBuffer' = <<NoImage, 0>> /\ segStart' = 0
  /\ note' = [t \in {"rsp", "ctrl"} |-> {}] /\ todo' = note'
  /\ rspPc' = "take"
  /\ fwState' = "IDLE" /\ curLoc' = 0 /\ attempt' = 0
  /\ handleOpen' = FALSE /\ expImage' = NoImage /\ written' = <<>>
  /\ ctrlState' = "READY" /\ preState' = "READY"
  /\ UNCHANGED seenVars

-----------------------------------------------------------------------------
Init ==
  /\ hostUp = FALSE /\ hostImage = NoImage /\ via = "net" /\ connected = FALSE
  /\ gets = <<>>
  /\ cmdPc = [t \in CmdTasks |-> "idle"]
  /\ cmdSeg = [t \in CmdTasks |-> <<NoImage, 0>>] /\ reqImage = 0
  /\ segBuffer = <<NoImage, 0>> /\ segStart = 0
  /\ note = [t \in {"rsp", "ctrl"} |-> {}] /\ todo = note
  /\ rspPc = "take"
  /\ fwState = "IDLE" /\ curLoc = 0 /\ attempt = 0
  /\ handleOpen = FALSE /\ expImage = NoImage /\ written = <<>>
  /\ ctrlState = "READY" /\ preState = "READY"
  /\ count = [requests |-> 0, drops |-> 0, presses |-> 0, starts |-> 0]
  /\ overlap = FALSE

Cmd(t) == CmdSetReq(t) \/ CmdNotifyReq(t) \/ CmdDecode(t) \/ CmdSetInfo(t) \/ CmdNotifySeg(t)
Expire == RspRequestTimeout \/ RspSegmentTimeout
Rsp == \/ RspTake
       \/ RspRequest
       \/ RspSegmentIgnored \/ RspSegmentWritten \/ RspSegmentFailed
       \/ RspEnable \/ RspEnableFailed \/ RspEnableIgnored
       \/ RspEnd
       \/ RspConnection \/ Expire
CtrlBits == {"FAULT", "REQ", "PROCESS", "DONE"}
Ctrl == CtrlTake \/ CtrlReboot \/ \E b \in CtrlBits : CtrlHandle(b)
Host == \/ \E t \in CmdTasks : HostConnect(t)
        \/ HostDrop \/ HostAnswer \/ HostIgnore
        \/ \E image \in Images : HostRequest(image)

Next == Host \/ (\E t \in CmdTasks : Cmd(t)) \/ Rsp \/ Ctrl \/ CtrlButton

Spec == Init /\ [][Next]_vars

\* rsp_task keeps running, and a deadline that nothing moves passes.  Hosts need
\* not answer, users need not press, and no other task need ever run.
FairSpec == Spec /\ WF_vars(Rsp) /\ SF_vars(Expire)

-----------------------------------------------------------------------------
(* Properties.                                                             *)

Bits     == {"REQ", "SEG", "EN", "END", "FAULT", "PROCESS", "DONE", "REBOOT"}
Segments == (Images \union {NoImage}) \X Nat

TypeOK ==
  /\ hostUp \in BOOLEAN /\ hostImage \in Images \union {NoImage}
  /\ gets \in Seq(Nat) /\ Len(gets) <= MaxGets
  /\ via \in CmdTasks
  /\ cmdPc \in [CmdTasks -> {"idle", "request", "notifyReq", "segment", "setInfo", "notifySeg"}]
  /\ cmdSeg \in [CmdTasks -> Segments] /\ segBuffer \in Segments
  /\ reqImage \in Images \union {0} /\ segStart \in Nat
  /\ {note, todo} \subseteq [{"rsp", "ctrl"} -> SUBSET Bits]
  /\ rspPc \in {"take", "handle", "deadline"}
  /\ connected \in BOOLEAN /\ handleOpen \in BOOLEAN
  /\ fwState \in {"IDLE", "REQUEST", "PROCESS"}
  /\ curLoc \in Nat /\ attempt \in 0..MaxAttempts
  /\ expImage \in Images \union {NoImage} /\ written \in Seq(Segments)
  /\ {ctrlState, preState} \subseteq {"READY", "FAULT", "REQUEST", "PROCESS"}
  /\ overlap \in BOOLEAN

\* While segments are being asked for there is an open handle to write them
\* to, and the two counters that must agree, fw_cur_loc here and cur_len of
\* upd_utilities, do: a segment that was asked for is never refused.
ReadyToWrite == fwState = "PROCESS" => handleOpen /\ curLoc = Len(written)

\* Whatever is retried, answered twice or answered late, what reaches the
\* flash is the image that upd_init was told to expect, in order, without a
\* gap or a repetition, as long as each request waits until the update before
\* it is over, and the commands of the session before it are.
ImageInOrder ==
  ~overlap => \A k \in 1..Len(written) : written[k] = <<expImage, k - 1>>

\* Nobody but the person at the camera starts an update, and one press of the
\* button starts one update at most.
OnePressOneUpdate == count.starts <= count.presses

\* An update or a request for one ends: in success, failure, time out, or
\* because the user or the host stopped it.
UpdateEnds == fwState # "IDLE" ~> fwState = "IDLE"
=============================================================================
