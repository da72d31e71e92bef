------------------------------ MODULE WifiJoin ------------------------------
(***************************************************************************)
(* How the camera joins a saved network or raises its own access point     *)
(* (wifi_utilities.c).  Four tasks share unprotected variables: the event  *)
(* task of the system with the handlers, the task of esp_timer with the    *)
(* reconnect timer, the web server with the scan of the settings page, and *)
(* whoever changes the configuration (wifi_reinit).  A handler's check and *)
(* the call it leads to are steps of their own.                            *)
(*                                                                         *)
(* The driver is external: it refuses to scan while it dials or scans, and *)
(* it posts its events to a queue.                                         *)
(***************************************************************************)
EXTENDS Integers, Sequences, FiniteSets

CONSTANTS Nets, NoNet,
          MaxRetry,      \* WIFI_FAST_RECONNECT_ATTEMPTS
          MaxReinits,    \* changes of the configuration,
          MaxScans,      \* scans of the settings page,
          MaxEdits,      \* networks forgotten, and
          MaxMoves       \* changes of what is on the air looked at

ASSUME NoNetIsNone == NoNet \notin Nets
ASSUME NetsAreNoPlaces == Nets \cap {"idle", "arm", "kick", "choose"} = {}
ASSUME BoundsAreNat ==
  {MaxRetry, MaxReinits, MaxScans, MaxEdits, MaxMoves} \subseteq Nat

VARIABLES
  client,    \* NET_INFO_FLAG_CLIENT_MODE of wifi_info
  saved,     \* the saved networks of ps_utilities.c
  list,      \* saved_nets: the copy read last
  air,       \* the networks within reach
  timer,     \* reconnect_timer is armed
  hold,      \* scan_hold
  active,    \* join_scan_active
  target,    \* join_target is not -1
  retry,     \* sta_retry_num
  fb,        \* fallback_active
  up,        \* sta_connected
  drv,       \* the driver: on, has an access point, station, scan, results
  queue,     \* events for the event task
  ev, tm,    \* where the event task and the timer task are
  web,       \* where the scan handler is
  conf,      \* the change of the configuration: "idle", or how far it is
  left,      \* what the bounds leave
  late,      \* history: at prepare a join was under way
  lost,      \* history: a join scan was stopped and never reported
  crossed    \* history: wifi_reinit ran while a join or a handler did

vars == <<client, saved, list, air, timer, hold, active, target, retry, fb, up,
          drv, queue, ev, tm, web, conf, left, late, lost, crossed>>

config == <<client, saved, air>>
limits == <<left, lost>>

Init ==
  /\ client \in BOOLEAN /\ saved \in SUBSET Nets /\ list = {} /\ air \in SUBSET Nets
  /\ timer = FALSE /\ hold = FALSE /\ active = FALSE /\ target = FALSE
  /\ retry = 0 /\ fb = FALSE /\ up = FALSE
  /\ drv = [on |-> TRUE, ap |-> ~client, sta |-> "down", net |-> NoNet, scan |-> "none", recs |-> {}]
  /\ queue = <<"start">> /\ ev = "idle" /\ tm = "idle" /\ web = "idle" /\ conf = "idle"
  /\ left = [reinits |-> MaxReinits, scans |-> MaxScans, edits |-> MaxEdits, moves |-> MaxMoves]
  /\ late = FALSE /\ lost = FALSE /\ crossed = FALSE

Spend(what) == left[what] > 0 /\ left' = [left EXCEPT ![what] = @ - 1]

-----------------------------------------------------------------------------
(* The driver.                                                             *)

Ready == drv.on /\ drv.sta # "dialing" /\ drv.scan = "none"

(* esp_wifi_disconnect, with the queue it finds.                           *)
HangUp(q) ==
  IF drv.on /\ drv.sta # "down"
  THEN drv' = [drv EXCEPT !.sta = "down"] /\ queue' = Append(q, "disc")
  ELSE drv' = drv /\ queue' = q

(* esp_wifi_connect to network n: it cuts off a scan, and has no effect    *)
(* unless the station is down.                                             *)
Connect(n, q) ==
  IF drv.on /\ drv.sta = "down"
  THEN /\ drv' = [drv EXCEPT !.sta = "dialing", !.net = n, !.scan = "none"]
       /\ queue' = IF drv.scan = "none" THEN q ELSE Append(q, "scan")
  ELSE drv' = [drv EXCEPT !.net = n] /\ queue' = q

driven == <<client, saved, list, air, timer, hold, active, target, retry, fb, up,
            ev, tm, conf, late, lost, crossed>>

ScanEnds ==
  /\ drv.scan # "none"
  /\ drv' = [drv EXCEPT !.scan = "none", !.recs = air]
  /\ queue' = Append(queue, "scan")
  /\ UNCHANGED <<driven, web, left>>

DialFails ==
  /\ drv.sta = "dialing"
  /\ drv' = [drv EXCEPT !.sta = "down"] /\ queue' = Append(queue, "disc")
  /\ UNCHANGED <<driven, web, left>>

DialSucceeds ==
  /\ drv.sta = "dialing" /\ drv.net \in air
  /\ drv' = [drv EXCEPT !.sta = "linked"]
  /\ UNCHANGED <<driven, web, left, queue>>

GetsAddress ==
  /\ drv.sta = "linked"
  /\ drv' = [drv EXCEPT !.sta = "addressed"] /\ queue' = Append(queue, "ip")
  /\ UNCHANGED <<driven, web, left>>

(* The camera is carried away, or a network comes and goes.                *)
Move ==
  /\ Spend("moves")
  /\ air' \in SUBSET Nets
  /\ IF drv.sta \in {"linked", "addressed"} /\ drv.net \notin air'
     THEN drv' = [drv EXCEPT !.sta = "down"] /\ queue' = Append(queue, "disc")
     ELSE UNCHANGED <<drv, queue>>
  /\ UNCHANGED <<client, saved, list, timer, hold, active, target, retry, fb, up,
                 ev, tm, web, conf, late, lost, crossed>>

-----------------------------------------------------------------------------
(* saved_net_count and sta_should_connect.                                 *)

Consulted == list' = saved
Should == client /\ saved # {}
ShouldConsults == IF client THEN Consulted ELSE UNCHANGED list

(* enable_fallback_ap, which also makes the driver an access point.        *)
RaisedOn(d) == IF fb THEN d ELSE [d EXCEPT !.ap = TRUE]

Race == crossed' = (crossed \/ conf \in {"stopped", "cleared"})

-----------------------------------------------------------------------------
(* start_join_scan, for the event task and for the timer.  The check:      *)

Checked == IF hold \/ active THEN "idle" ELSE "arm"

(* its table: either nothing is saved, or the scan is announced            *)
Arm(pc) ==
  /\ pc = "arm" /\ Consulted
  /\ IF saved = {}
     THEN fb' = TRUE /\ drv' = RaisedOn(drv) /\ UNCHANGED active
     ELSE active' = TRUE /\ UNCHANGED <<fb, drv>>
  /\ UNCHANGED <<timer, queue>>

(* and started, or given up for a while.                                   *)
Kick(pc) ==
  /\ pc = "kick"
  /\ IF Ready
     THEN drv' = [drv EXCEPT !.scan = "join"] /\ UNCHANGED <<active, timer, queue>>
     ELSE active' = FALSE /\ timer' = TRUE /\ HangUp(queue)
  /\ UNCHANGED <<fb, list>>

StartJoinScan(pc) == Arm(pc) \/ Kick(pc)
Started(pc) == IF pc = "arm" /\ saved # {} THEN "kick" ELSE "idle"

EventStartsScan ==
  /\ StartJoinScan(ev) /\ ev' = Started(ev) /\ Race
  /\ UNCHANGED <<config, hold, target, retry, up, tm, web, conf, limits, late>>

-----------------------------------------------------------------------------
(* wifi_event_handler and ip_event_handler: take an event.                 *)

Takes(e) ==
  /\ ev = "idle" /\ queue # <<>> /\ Head(queue) = e
  /\ Race

(* Nothing saved raises the access point.  In access point mode the        *)
(* station is there for scans only.                                        *)
StaStart ==
  /\ Takes("start") /\ queue' = Tail(queue)
  /\ IF ~client THEN UNCHANGED <<list, fb, drv, retry, ev>>
     ELSE /\ Consulted
          /\ IF saved = {}
             THEN fb' = TRUE /\ drv' = RaisedOn(drv) /\ UNCHANGED <<retry, ev>>
             ELSE retry' = 0 /\ ev' = Checked /\ UNCHANGED <<fb, drv>>
  /\ UNCHANGED <<config, timer, hold, active, target, up, tm, web, conf, limits, late>>

ScanDone ==
  /\ Takes("scan") /\ queue' = Tail(queue)
  /\ active' = FALSE /\ ev' = IF active THEN "choose" ELSE "idle"
  /\ UNCHANGED <<config, list, timer, hold, target, retry, fb, up, drv, tm, web, conf, limits, late>>

(* Plausible bug: an empty scan leaves it to the next one.                 *)
ChooseSilent ==
  /\ ev = "choose" /\ Race
  /\ drv' = [drv EXCEPT !.recs = {}]
  /\ IF drv.recs \cap list = {}
     THEN timer' = TRUE /\ ev' = "idle" /\ UNCHANGED <<target, retry>>
     ELSE /\ \E n \in drv.recs \cap list : ev' = n
          /\ target' = TRUE /\ retry' = 0 /\ UNCHANGED timer
  /\ UNCHANGED <<config, list, hold, active, fb, up, queue, tm, web, conf, limits, late>>

(* handle_join_scan_done: the records are handed out once.  The strongest  *)
(* of the saved networks among them is dialed.                             *)
Choose ==
  /\ ev = "choose" /\ Race
  /\ drv' = [(IF drv.recs \cap list = {} THEN RaisedOn(drv) ELSE drv) EXCEPT !.recs = {}]
  /\ IF drv.recs \cap list = {}
     THEN fb' = TRUE /\ timer' = TRUE /\ ev' = "idle" /\ UNCHANGED <<target, retry>>
     ELSE /\ \E n \in drv.recs \cap list : ev' = n
          /\ target' = TRUE /\ retry' = 0 /\ UNCHANGED <<fb, timer>>
  /\ UNCHANGED <<config, list, hold, active, up, queue, tm, web, conf, limits, late>>

(* connect_to_saved, or esp_wifi_connect with the network it has.          *)
Dial ==
  /\ ev \in Nets /\ Race
  /\ Connect(ev, queue) /\ ev' = "idle"
  /\ UNCHANGED <<config, list, timer, hold, active, target, retry, fb, up, tm, web, conf, limits, late>>

(* Plausible bug: scan_hold also keeps it from noting the loss.            *)
DisconnectedUnnoted ==
  /\ Takes("disc") /\ queue' = Tail(queue)
  /\ ShouldConsults
  /\ up' = (up /\ hold)
  /\ IF ~Should \/ hold THEN UNCHANGED <<retry, timer, ev>>
     ELSE IF target /\ retry < MaxRetry
     THEN retry' = retry + 1 /\ ev' = drv.net /\ UNCHANGED timer
     ELSE timer' = TRUE /\ UNCHANGED <<retry, ev>>
  /\ UNCHANGED <<config, hold, active, target, fb, drv, tm, web, conf, limits, late>>

(* WIFI_EVENT_STA_DISCONNECTED: a few fast retries, then a join scan.      *)
Disconnected ==
  /\ Takes("disc") /\ queue' = Tail(queue)
  /\ up' = FALSE /\ ShouldConsults
  /\ IF ~Should \/ hold THEN UNCHANGED <<retry, timer, ev>>
     ELSE IF target /\ retry < MaxRetry
     THEN retry' = retry + 1 /\ ev' = drv.net /\ UNCHANGED timer
     ELSE timer' = TRUE /\ UNCHANGED <<retry, ev>>
  /\ UNCHANGED <<config, hold, active, target, fb, drv, tm, web, conf, limits, late>>

(* ip_event_handler with disable_fallback_ap.                              *)
GotAddress ==
  /\ Takes("ip") /\ queue' = Tail(queue)
  /\ fb' = FALSE /\ drv' = IF fb THEN [drv EXCEPT !.ap = FALSE] ELSE drv
  /\ timer' = FALSE /\ up' = TRUE /\ retry' = 0
  /\ UNCHANGED <<config, list, hold, active, target, ev, tm, web, conf, limits, late>>

-----------------------------------------------------------------------------
(* reconnect_timer_cb.  Half a second, the shortest delay, is enough for   *)
(* the event task to be done with what was queued.                         *)

TimerFires ==
  /\ timer /\ tm = "idle" /\ queue = <<>> /\ ev = "idle"
  /\ timer' = FALSE /\ Race
  /\ IF hold THEN UNCHANGED <<list, tm>>
     ELSE ShouldConsults /\ IF Should /\ ~up THEN tm' = Checked ELSE tm' = tm
  /\ UNCHANGED <<config, hold, active, target, retry, fb, up, drv, queue, ev, web, conf, limits, late>>

TimerStartsScan ==
  /\ StartJoinScan(tm) /\ tm' = Started(tm) /\ Race
  /\ UNCHANGED <<config, hold, target, retry, up, ev, web, conf, limits, late>>

-----------------------------------------------------------------------------
(* scan_get_handler.                                                       *)

(* Plausible bug: the reconnect timer is not stopped.                      *)
PrepareKeepsTimer ==
  /\ web = "idle" /\ web' = "try" /\ Spend("scans")
  /\ hold' = TRUE
  /\ late' = (active \/ ev # "idle" \/ tm # "idle")
  /\ ShouldConsults
  /\ IF Should /\ ~up THEN HangUp(queue) ELSE UNCHANGED <<drv, queue>>
  /\ UNCHANGED <<config, timer, active, target, retry, fb, up, ev, tm, conf, lost, crossed>>

(* wifi_scan_prepare.                                                      *)
Prepare ==
  /\ web = "idle" /\ web' = "try" /\ Spend("scans")
  /\ hold' = TRUE /\ timer' = FALSE
  /\ late' = (active \/ ev # "idle" \/ tm # "idle")
  /\ ShouldConsults
  /\ IF Should /\ ~up THEN HangUp(queue) ELSE UNCHANGED <<drv, queue>>
  /\ UNCHANGED <<config, active, target, retry, fb, up, ev, tm, conf, lost, crossed>>

(* The blocking scan, tried twice.                                         *)
WebScan ==
  /\ web \in {"try", "retry"}
  /\ IF Ready THEN drv' = [drv EXCEPT !.scan = "web"] /\ web' = "busy"
     ELSE UNCHANGED drv /\ web' = IF web = "try" THEN "retry" ELSE "end"
  /\ UNCHANGED <<config, list, timer, hold, active, target, retry, fb, up, queue,
                 ev, tm, conf, left, late, lost, crossed>>

(* It returns when the scan is over, whatever ended it, and takes what     *)
(* records there are.                                                      *)
WebRecords ==
  /\ web = "busy" /\ drv.scan # "web" /\ web' = "end"
  /\ drv' = [drv EXCEPT !.recs = {}]
  /\ UNCHANGED <<config, list, timer, hold, active, target, retry, fb, up, queue,
                 ev, tm, conf, left, late, lost, crossed>>

(* Plausible bug: the search is not resumed.                               *)
CompleteOnly ==
  /\ web = "end" /\ web' = "idle"
  /\ hold' = FALSE /\ late' = FALSE
  /\ UNCHANGED <<config, list, timer, active, target, retry, fb, up, drv, queue, ev, tm, conf, left, lost, crossed>>

(* wifi_scan_complete.                                                     *)
Complete ==
  /\ web = "end" /\ web' = "idle"
  /\ hold' = FALSE /\ late' = FALSE
  /\ ShouldConsults
  /\ timer' = (timer \/ (Should /\ ~up))
  /\ UNCHANGED <<config, active, target, retry, fb, up, drv, queue, ev, tm, conf, left, lost, crossed>>

-----------------------------------------------------------------------------
(* The configuration: ps_upsert_saved_net of set_wifi, which wifi_reinit   *)
(* follows,                                                                *)
Save ==
  /\ conf = "idle" /\ conf' = "saved" /\ Spend("reinits")
  /\ \E n \in Nets : saved' = saved \cup {n}
  /\ UNCHANGED <<client, list, air, timer, hold, active, target, retry, fb, up,
                 drv, queue, ev, tm, web, late, lost, crossed>>

(* the network reset, which goes back to access point mode,                *)
NetReset ==
  /\ conf = "idle" /\ conf' = "reset" /\ Spend("reinits")
  /\ UNCHANGED <<config, list, timer, hold, active, target, retry, fb, up,
                 drv, queue, ev, tm, web, late, lost, crossed>>

(* and ps_forget_saved_net, which nobody is told of.                       *)
Forget ==
  /\ Spend("edits")
  /\ \E n \in saved : saved' = saved \ {n}
  /\ UNCHANGED <<client, list, air, timer, hold, active, target, retry, fb, up,
                 drv, queue, ev, tm, web, conf, late, lost, crossed>>

(* Plausible bug: the recovery access point is forgotten about.            *)
ReinitStopKeepsFallback ==
  /\ conf \in {"saved", "reset"}
  /\ conf' = IF conf = "saved" THEN "stopped" ELSE "cleared"
  /\ timer' = FALSE /\ hold' = FALSE /\ up' = FALSE
  /\ LET hung == IF drv.sta = "down" THEN queue ELSE Append(queue, "disc") IN
     \/ /\ drv.scan # "none"
        /\ queue' = Append(hung, "scan") /\ UNCHANGED lost
     \/ queue' = hung /\ lost' = (lost \/ drv.scan = "join")
  /\ drv' = [drv EXCEPT !.on = FALSE, !.sta = "down", !.scan = "none", !.recs = {}]
  /\ crossed' = (crossed \/ active \/ ev # "idle" \/ tm # "idle")
  /\ UNCHANGED <<config, list, fb, active, target, retry, left, ev, tm, web, late>>

(* wifi_reinit: the old configuration is shut down,                        *)
ReinitStop ==
  /\ conf \in {"saved", "reset"}
  /\ conf' = IF conf = "saved" THEN "stopped" ELSE "cleared"
  /\ timer' = FALSE /\ hold' = FALSE /\ fb' = FALSE /\ up' = FALSE
  /\ LET hung == IF drv.sta = "down" THEN queue ELSE Append(queue, "disc") IN
     \/ /\ drv.scan # "none"
        /\ queue' = Append(hung, "scan") /\ UNCHANGED lost
     \/ queue' = hung /\ lost' = (lost \/ drv.scan = "join")
  /\ drv' = [drv EXCEPT !.on = FALSE, !.sta = "down", !.scan = "none", !.recs = {}]
  /\ crossed' = (crossed \/ active \/ ev # "idle" \/ tm # "idle")
  /\ UNCHANGED <<config, list, active, target, retry, left, ev, tm, web, late>>

(* and the new one is started.                                             *)
ReinitStart ==
  /\ conf \in {"stopped", "cleared"} /\ conf' = "idle"
  /\ client' \in (IF conf = "stopped" THEN BOOLEAN ELSE {FALSE})
  /\ drv' = [drv EXCEPT !.on = TRUE, !.ap = ~client']
  /\ queue' = Append(queue, "start")
  /\ UNCHANGED <<saved, air, list, timer, hold, active, target, retry, fb, up,
                 ev, tm, web, limits, late, crossed>>

-----------------------------------------------------------------------------
EventTask == EventStartsScan \/ StaStart \/ ScanDone \/ Choose \/ Dial \/ Disconnected \/ GotAddress
TimerTask == TimerFires \/ TimerStartsScan
WebTask == WebScan \/ WebRecords \/ Complete
Driver == ScanEnds \/ DialFails \/ DialSucceeds \/ GetsAddress

Next == EventTask \/ TimerTask \/ WebTask \/ Driver \/ Prepare
        \/ Save \/ NetReset \/ Forget \/ ReinitStop \/ ReinitStart \/ Move

(* Every task that can run does; a scan ends, a dialing ends, and dialing  *)
(* a network within reach succeeds when it is tried again and again.       *)
Fairness ==
  /\ WF_vars(EventTask) /\ WF_vars(TimerTask) /\ WF_vars(WebTask) /\ WF_vars(ReinitStop \/ ReinitStart)
  /\ WF_vars(ScanEnds) /\ WF_vars(DialFails \/ DialSucceeds) /\ SF_vars(DialSucceeds) /\ WF_vars(GetsAddress)

Spec == Init /\ [][Next]_vars /\ Fairness

-----------------------------------------------------------------------------
Places == {"idle", "arm", "kick"}

TypeOK ==
  /\ client \in BOOLEAN /\ saved \subseteq Nets /\ list \subseteq Nets /\ air \subseteq Nets
  /\ {timer, hold, active, target, fb, up, late, lost, crossed} \subseteq BOOLEAN
  /\ retry \in 0..MaxRetry
  /\ drv \in [on : BOOLEAN, ap : BOOLEAN, sta : {"down", "dialing", "linked", "addressed"},
              net : Nets \cup {NoNet}, scan : {"none", "join", "web"}, recs : SUBSET Nets]
  /\ queue \in Seq({"start", "scan", "disc", "ip"})
  /\ ev \in Places \cup {"choose"} \cup Nets /\ tm \in Places
  /\ web \in {"idle", "try", "retry", "busy", "end"} /\ conf \in {"idle", "saved", "reset", "stopped", "cleared"}

(* sta_connected is never stale: when it says the station is connected, it *)
(* is, or the event that will say otherwise is on its way.  Else the timer *)
(* and wifi_scan_complete would not look for a network any more.           *)
UpIsTrue ==
  up => drv.sta = "addressed" \/ \E i \in 1..Len(queue) : queue[i] = "disc"

(* "Scan owns the radio" (wifi_utilities.c:80): during the scan of the     *)
(* settings page no reconnect is scheduled and none is about to be made,   *)
(* unless a join had begun before.                                         *)
HoldRespected ==
  hold /\ ~late => ~timer /\ ev = "idle" /\ tm = "idle"

(* While fallback_active says so, the camera is an access point: no        *)
(* handler raises what wifi_reinit tears down, unless the two overlap.     *)
FallbackOnAir == fb /\ ~crossed => drv.ap

(* In access point mode there always is one, whatever join, scan or time   *)
(* out of the client mode before is still under way.                       *)
HotspotStays == ~client /\ drv.on /\ ~crossed => drv.ap

(* A camera that is a client with a saved network in reach joins it,       *)
(* unless a join scan was cut off without a report.                        *)
JoinsEventually ==
  <>[](client /\ saved \cap air # {} /\ ~lost) => <>[]up

(* A camera that is a client and cannot join is its own access point, and  *)
(* may be reached; unless a join scan was cut off, or it has nothing saved *)
(* (a network forgotten while in use).                                     *)
HotspotOrHome ==
  <>[](client /\ saved # {} /\ saved \cap air = {} /\ ~lost /\ ~crossed) => <>[]((fb /\ drv.ap) \/ up)

(* "If no saved network is visible, the camera raises its own hotspot      *)
(* within seconds" (src/tCam-Mini/readme.md:98).                           *)
HotspotRaised ==
  <>[](client /\ saved \cap air = {} /\ ~lost /\ ~crossed) => <>[]((fb /\ drv.ap) \/ up)
=============================================================================
