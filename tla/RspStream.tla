------------------------------ MODULE RspStream ------------------------------
(***************************************************************************)
(* Images and command responses on their way to the client: the loop of     *)
(* main/rsp_task.c, the notifications that drive it, and what its partners  *)
(* do to it: the two tasks that run the commands (get_image, stream_on,     *)
(* stream_off, fw_update_request and the ones that only answer), lep_task,  *)
(* which fills the two halves of a ping-pong buffer, and the HTTP server,   *)
(* which suppresses images while a firmware image is uploaded.              *)
(*                                                                         *)
(* A session is the claim of client_if: one TCP client, whose commands      *)
(* net_cmd_task runs, or all the browsers, whose commands httpd runs.  It   *)
(* ends in its own task, between two commands, or, for browsers, in         *)
(* rsp_task, when a send to the last of them fails: httpd may be anywhere   *)
(* in a command then.  That a stale release takes the claim away is the     *)
(* matter of ClientSession and left out here.                               *)
(*                                                                         *)
(* Sessions are numbered so that what belongs to one can be told from what  *)
(* belongs to the next.  A pixel is of no interest: an image is the half of *)
(* the buffer it is in, and a response is the session that caused it.       *)
(***************************************************************************)
EXTENDS Naturals, Sequences

CONSTANTS
  Streams,      \* the parameters of stream_on: num_frames, where 0 is no limit,
                \* and whether delay_msec is not 0
  MaxRsps,      \* responses sys_cmd_response_buffer has room for
  MaxSessions, MaxCmds  \* bounds: sessions, commands

ASSUME StreamAssumption ==
  /\ Streams \subseteq [num : Nat, delayed : BOOLEAN]
  /\ MaxRsps \in Nat /\ MaxSessions \in Nat /\ MaxCmds \in Nat

VARIABLES
  session,     \* the number of the present or last session
  up,          \* it has not ended
  via,         \* the task that runs its commands
  cmd,         \* of each task: its next statement, and the session it works for
  next,        \* next_stream_frame_num, next_stream_frame_delay_msec # 0
  note,        \* notification bits of rsp_task
  half,        \* rsp_buf_index of lep_task
  pc,          \* where rsp_task is in its loop
  connected,   \* connected of rsp_task.c
  streamOn,    \* stream_on
  pending,     \* image_pending
  got,         \* the n whose got_image_n is set
  cur,         \* cur_stream_frame_num, cur_stream_frame_delay_usec # 0
  remaining,   \* stream_remaining_frames
  due,         \* stream_ready_usec has been reached
  responses,   \* sys_cmd_response_buffer
  count,       \* history: commands; images sent since stream_on
  budget,      \* history: images the stream was asked for, or NoBudget
  last,        \* history: the last stream command of the session
  asked,       \* history: the session has asked for an image or a stream
  owed,        \* history: it has asked for an image and none was built since
  inherited,   \* history: a session was sent what another one asked for
  missed,      \* history: rsp_task missed the end of a session
  clash        \* history: two commands met in one set of notifications

hostVars  == <<session, up, via, cmd, next>>
flagVars  == <<streamOn, pending, got>>
paceVars  == <<cur, remaining, due>>
seenVars  == <<count, budget, last, asked, owed, inherited, missed, clash>>
vars == <<hostVars, note, half, pc, connected, flagVars, paceVars,
          responses, seenVars>>

CmdBits   == {"GET", "ON", "OFF", "REQ"}
FrameBits == {"F0", "F1"}
CmdTasks  == {"net", "httpd"}
NoCommand == [at |-> "idle", of |-> 0]
NoBudget  == 0
NoStream  == [num |-> 0, delayed |-> FALSE]

Notify(bits) == note' = note \union bits

\* push_response and rsp_set_cam_info_msg: dropped when there is no room.
Respond(of) == responses' = IF Len(responses) < MaxRsps
                            THEN Append(responses, of) ELSE responses

-----------------------------------------------------------------------------
(* Clients and the task that runs their commands.                          *)

Idle(t) == cmd[t].at = "idle"

\* A client is admitted: by accept, or by the first frame of a browser.
Connect(t) ==
  /\ ~up /\ Idle(t) /\ session < MaxSessions
  /\ up' = TRUE /\ via' = t /\ session' = session + 1
  /\ asked' = FALSE /\ owed' = FALSE /\ last' = "none"
  /\ missed' = (missed \/ connected \/ pc = "clear")
  /\ UNCHANGED <<cmd, next, note, half, pc, connected, flagVars, paceVars,
                 responses, count, budget, inherited, clash>>

\* The task that serves the session sees it end, between two commands: the
\* socket fails or is closed.
Disconnect ==
  /\ up /\ Idle(via)
  /\ up' = FALSE
  /\ missed' = (missed \/ ~connected)
  /\ UNCHANGED <<session, via, cmd, next, note, half, pc, connected, flagVars,
                 paceVars, responses, count, budget, last, asked, owed, inherited, clash>>

\* A command is received from a client of the session.  From here on the task
\* does not look again whether the session is still there.
Receive(t) ==
  /\ up /\ via = t /\ Idle(t)
  /\ count.cmds < MaxCmds /\ count' = [count EXCEPT !.cmds = @ + 1]
  /\ cmd' = [cmd EXCEPT ![t] = [at |-> "received", of |-> session]]
  /\ UNCHANGED <<session, up, via, next, note, half, pc, connected, flagVars, paceVars,
                 responses, budget, last, asked, owed, inherited, missed, clash>>

\* The received command is run up to l.
Command(t, l) ==
  /\ cmd[t].at = "received"
  /\ cmd' = [cmd EXCEPT ![t] = IF l = "idle" THEN NoCommand ELSE [@ EXCEPT !.at = l]]
  /\ UNCHANGED <<session, up, via, half, pc, connected, flagVars, paceVars,
                 count, budget, inherited, missed, clash>>

\* What the session asks for is noted, not what an earlier one had asked for.
Ask(t, what, image) ==
  IF cmd[t].of = session
  THEN /\ last' = what
       /\ asked' = (asked \/ what \in {"GET", "ON"}) /\ owed' = (owed \/ image)
  ELSE UNCHANGED <<last, asked, owed>>

\* get_image, which stops a stream and has no other answer than the image.
CmdGetImage(t) ==
  /\ Command(t, "idle")
  /\ Notify({"GET"})
  /\ Ask(t, "GET", TRUE)
  /\ UNCHANGED <<next, responses>>

\* stream_on: rsp_set_stream_parameters ...
CmdStreamOn(t, s) ==
  /\ Command(t, "notifyOn")
  /\ next' = s
  /\ Ask(t, "ON", FALSE)
  /\ UNCHANGED <<note, responses>>

\* ... then the notification.
CmdNotifyOn(t) ==
  /\ cmd[t].at = "notifyOn" /\ cmd' = [cmd EXCEPT ![t].at = "ack"]
  /\ Notify({"ON"})
  /\ UNCHANGED <<session, up, via, next, half, pc, connected, flagVars, paceVars,
                 responses, seenVars>>

\* stream_off, and fw_update_request, which stops a stream as well.
CmdStop(t, bit) ==
  /\ Command(t, "ack")
  /\ Notify({bit})
  /\ Ask(t, bit, FALSE)
  /\ UNCHANGED <<next, responses>>

\* The answer of these commands, pushed after the notification.
CmdAck(t) ==
  /\ cmd[t].at = "ack" /\ cmd' = [cmd EXCEPT ![t] = NoCommand]
  /\ Respond(cmd[t].of)
  /\ UNCHANGED <<session, up, via, next, note, half, pc, connected, flagVars,
                 paceVars, seenVars>>

\* Every other command does nothing here but answer.
CmdOther(t) ==
  /\ Command(t, "idle")
  /\ Respond(cmd[t].of)
  /\ UNCHANGED <<next, note, last, asked, owed>>

-----------------------------------------------------------------------------
(* lep_task, and time.                                                     *)

\* A frame is copied into one half, rsp_task is told, and the halves change.
LepFrame ==
  /\ Notify({IF half = 0 THEN "F0" ELSE "F1"})
  /\ half' = 1 - half
  /\ UNCHANGED <<hostVars, pc, connected, flagVars, paceVars, responses, seenVars>>

\* The clock reaches stream_ready_usec, which a stream without delay ignores.
Clock ==
  /\ cur.delayed /\ ~due /\ due' = TRUE
  /\ UNCHANGED <<hostVars, note, half, pc, connected, flagVars, cur, remaining,
                 responses, seenVars>>

-----------------------------------------------------------------------------
(* rsp_task, in the order of its loop.                                     *)

At(l)   == pc = l
Goto(l) == pc' = l

\* Plausible bug: an image asked for by get_image is forgotten.
EvalStreamOnly == streamOn /\ (due \/ ~cur.delayed)

\* Plausible bug: only the first image of a stream is asked for.
EvalStreamNever == pending

\* eval_stream_ready: image_pending after it.
EvalStreamReady == pending \/ (streamOn /\ (due \/ ~cur.delayed))

\* Plausible bug: a running stream keeps its parameters.
StreamSetupOnce(on) ==
  LET new == on /\ ~streamOn
  IN /\ cur' = IF new THEN next ELSE cur
     /\ remaining' = IF new THEN next.num ELSE remaining

\* What RSP_NOTIFY_CMD_STREAM_ON_MASK sets up.
StreamSetup(on) == /\ cur' = IF on THEN next ELSE cur
                   /\ remaining' = IF on THEN next.num ELSE remaining

\* process_notifications, when an image is pending or not: the bits in the
\* order of the code, which is GET, ON, OFF, the frames, REQ.  A frame is taken
\* if an image is pending, the half 0 first; the bits have forgotten in which
\* order they were set.
ProcessNotifications(wanting) ==
  LET Has(bit) == bit \in note
      wanted   == wanting \/ Has("GET") \/ Has("ON")
      frames   == {n \in {0, 1} : Has(IF n = 0 THEN "F0" ELSE "F1")}
      first    == IF 0 \in frames THEN {0} ELSE frames
      cmds     == note \intersect CmdBits
  IN /\ note' = {}
     /\ streamOn' = (/\ ~Has("OFF") /\ ~Has("REQ")
                     /\ Has("ON") \/ (streamOn /\ ~Has("GET")))
     /\ StreamSetup(Has("ON"))
     /\ got' = IF wanted THEN got \union first ELSE got
     /\ pending' = (wanted /\ frames = {})
     /\ clash' = (clash \/ \E a, b \in cmds : a # b)
     /\ budget' = IF Has("ON") THEN next.num ELSE IF Has("GET") THEN NoBudget ELSE budget
     /\ count' = IF Has("GET") \/ Has("ON") THEN [count EXCEPT !.sent = 0] ELSE count
     /\ UNCHANGED <<last, asked, owed, inherited, missed>>

\* The top of the loop: eval_stream_ready moves the time of the next image on,
\* then handle_notifications.
RspTop ==
  /\ At("top") /\ Goto("connection")
  /\ due' = ("ON" \in note \/ (due /\ ~(streamOn /\ cur.delayed)))
  /\ ProcessNotifications(EvalStreamReady)
  /\ UNCHANGED <<hostVars, half, connected, responses>>

\* ... and the wait at its bottom, which ends with a notification or not.
RspWait ==
  /\ At("wait") /\ Goto("top")
  /\ due' = ("ON" \in note \/ due)
  /\ ProcessNotifications(pending)
  /\ UNCHANGED <<hostVars, half, connected, responses>>

\* client_if_connected.
RspConnection ==
  /\ At("connection")
  /\ Goto(IF connected /\ ~up THEN "clear" ELSE "image")
  /\ connected' = (connected \/ up)
  /\ UNCHANGED <<hostVars, note, half, flagVars, paceVars, responses, seenVars>>

\* init_state flushes the response buffer.
Flush == responses' = <<>>

\* Plausible bug: the stream survives its client.
ForgetImagesOnly == pending' = FALSE /\ got' = {} /\ UNCHANGED streamOn

\* init_state: the image flags and the stream.
ForgetStream == streamOn' = FALSE /\ pending' = FALSE /\ got' = {}

\* init_state.  The command bits not yet taken stay.
RspClear ==
  /\ At("clear") /\ Goto("image")
  /\ connected' = FALSE
  /\ ForgetStream
  /\ next' = NoStream
  /\ Flush
  /\ missed' = (missed \/ up \/ note \intersect CmdBits # {} \/ \E t \in CmdTasks : ~Idle(t))
  /\ UNCHANGED <<session, up, via, cmd, note, half, paceVars, count, budget, last,
                 asked, owed, inherited, clash>>

\* Plausible bug: a stream is not counted down.
CountDownNothing == UNCHANGED <<streamOn, remaining>>

\* If streaming a number of frames, one less, and the end after the last.
CountDown ==
  LET counted == streamOn /\ cur.num # 0
  IN /\ remaining' = IF counted THEN remaining - 1 ELSE remaining
     /\ streamOn' = (streamOn /\ ~(counted /\ remaining = 1))

\* web_cmd_broadcast and the TCP send of client_if_send.  A send to the last
\* browser that fails drops it and ends the session; one to the TCP client does
\* not, it fails unnoticed.
Sends(sending, lost) ==
  /\ lost => sending /\ via = "httpd"
  /\ up' = (up /\ ~lost)
  /\ UNCHANGED <<session, via, cmd, next>>

\* An image is built from half n and sent to whoever is there, unless the HTTP
\* server is receiving a firmware image (web_ota_in_progress): it suppresses
\* images at any time.  The stream counts the image in any case.
RspImage(n, uploading, lost) ==
  /\ At("image") /\ Goto("respond")
  /\ connected /\ n \in got /\ (n = 1 => 0 \notin got)
  /\ got' = got \ {n}
  /\ CountDown
  /\ LET sending == up /\ ~uploading
         sent == sending /\ ~lost
     IN /\ Sends(sending, lost)
        /\ owed' = (owed /\ ~up)
        /\ inherited' = (inherited \/ (sent /\ ~asked))
        /\ count' = IF sent /\ budget # NoBudget THEN [count EXCEPT !.sent = @ + 1] ELSE count
  /\ UNCHANGED <<note, half, connected, pending, cur, due, responses,
                 budget, last, asked, missed, clash>>

RspNoImage ==
  /\ At("image") /\ Goto("respond")
  /\ ~connected \/ got = {}
  /\ UNCHANGED <<hostVars, note, half, connected, flagVars, paceVars, responses, seenVars>>

\* One response is taken from the buffer, and sent if there is a client.
RspRespond(lost) ==
  /\ At("respond") /\ Goto("wait")
  /\ responses' = IF responses = <<>> THEN <<>> ELSE Tail(responses)
  /\ LET sending == connected /\ up /\ responses # <<>>
     IN /\ Sends(sending, lost)
        /\ inherited' = (inherited \/ (sending /\ ~lost /\ Head(responses) # session))
  /\ UNCHANGED <<note, half, connected, flagVars, paceVars, count,
                 budget, last, asked, owed, missed, clash>>

-----------------------------------------------------------------------------
Init ==
  /\ session = 0 /\ up = FALSE /\ via = "net"
  /\ cmd = [t \in CmdTasks |-> NoCommand]
  /\ next = NoStream /\ cur = next
  /\ note = {} /\ half = 0
  /\ pc = "top" /\ connected = FALSE
  /\ streamOn = FALSE /\ pending = FALSE /\ got = {}
  /\ remaining = 0 /\ due = FALSE
  /\ responses = <<>>
  /\ count = [cmds |-> 0, sent |-> 0]
  /\ budget = NoBudget /\ last = "none" /\ asked = FALSE /\ owed = FALSE
  /\ inherited = FALSE /\ missed = FALSE /\ clash = FALSE

Client == \/ Disconnect
          \/ \E t \in CmdTasks : Connect(t) \/ Receive(t)
CmdRun(t) == \/ CmdGetImage(t) \/ CmdOther(t) \/ CmdNotifyOn(t) \/ CmdAck(t)
             \/ \E s \in Streams : CmdStreamOn(t, s)
             \/ \E bit \in {"OFF", "REQ"} : CmdStop(t, bit)
Rsp == \/ RspTop \/ RspConnection \/ RspClear
       \/ \E n \in {0, 1}, uploading, lost \in BOOLEAN : RspImage(n, uploading, lost)
       \/ RspNoImage \/ RspWait
       \/ \E lost \in BOOLEAN : RspRespond(lost)

Next == Client \/ (\E t \in CmdTasks : CmdRun(t)) \/ LepFrame \/ Clock \/ Rsp

Spec == Init /\ [][Next]_vars

\* rsp_task keeps running, frames keep coming, and time passes.
FairSpec == Spec /\ WF_vars(LepFrame) /\ WF_vars(Clock) /\ WF_vars(Rsp)

-----------------------------------------------------------------------------
(* Properties.                                                             *)

TypeOK ==
  /\ session \in 0..MaxSessions /\ up \in BOOLEAN
  /\ via \in CmdTasks
  /\ cmd \in [CmdTasks -> [at : {"idle", "received", "notifyOn", "ack"}, of : 0..MaxSessions]]
  /\ {next, cur} \subseteq Streams \union {NoStream}
  /\ note \subseteq CmdBits \union FrameBits /\ half \in {0, 1}
  /\ pc \in {"top", "connection", "clear", "image", "respond", "wait"}
  /\ {connected, streamOn, pending, due, asked, owed, inherited, missed, clash}
       \subseteq BOOLEAN
  /\ got \subseteq {0, 1} /\ remaining \in Nat /\ budget \in Nat
  /\ responses \in Seq(1..MaxSessions) /\ Len(responses) <= MaxRsps
  /\ last \in {"none", "GET", "ON", "OFF", "REQ"}

\* A client is sent no image it did not ask for and no answer to what another
\* client asked, unless rsp_task missed that the other one had left: because
\* the session began and ended between two looks, the next one began before
\* its state was cleared, or a command of it had not been run to its end, or
\* not been looked at, when it was cleared.
NothingInherited == ~missed => ~inherited

\* No command is between its first store and its end, and no notification of
\* one is left.
Settled == /\ \A t \in CmdTasks : cmd[t].at \in {"idle", "received"}
           /\ note \intersect CmdBits = {}

\* Of a session's stream commands the last one counts, whatever rsp_task was
\* doing meanwhile, unless two of them met in one set of notification bits,
\* which no longer tells their order.
LastCommandCounts ==
  up /\ ~missed /\ ~clash /\ Settled =>
    /\ last = "ON" => cur = next /\ (streamOn \/ (cur.num # 0 /\ remaining = 0))
    /\ last \in {"GET", "OFF", "REQ"} => ~streamOn

\* What a stream sends beyond its num_frames images is at most what the two
\* halves of the buffer had been promised for when it began or ended.
OvershootBounded == budget # NoBudget => count.sent <= budget + 2

\* get_image is answered with an image, which only an upload may suppress, if
\* the client stays and rsp_task has not missed the end of a session.
ImageOwed == owed ~> ~owed \/ ~up \/ missed

\* A stream that is not stopped goes on asking for images and getting them.
StreamFlows == <>[]streamOn => []<>(got # {})
=============================================================================
