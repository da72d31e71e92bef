-------------------------------- MODULE Cci --------------------------------
(***************************************************************************)
(* The Lepton's command interface (cci.c, lepton_utilities.c, i2c.c) under *)
(* the three tasks that use it: the task that executes commands (Cmd),     *)
(* lep_task, which initialises and resets the sensor (Lep), and rsp_task,  *)
(* which parks the shutter while nobody is watching (Rsp).                 *)
(*                                                                         *)
(* A routine of cci.c is a sequence of register accesses under cci_mutex;  *)
(* each access is a critical section of i2c_mutex and one step here.  Most *)
(* getters give cci_mutex back before they read their answer.  An access   *)
(* may fail, the sensor may lose a command without saying so, and a reset  *)
(* line puts everything in it back to its default.                         *)
(***************************************************************************)
EXTENDS Integers, FiniteSets

CONSTANTS Cmd, Lep, Rsp,  \* the tasks
          None,           \* nobody holds the lock; nothing runs
          Attempts,       \* writes of lepton_agc and lepton_emissivity (3)
          MaxOps,         \* commands, and
          MaxViewers,     \* comings and goings of a viewer, and
          MaxInside,      \* tasks in a routine at once, and
          MaxTroubles     \* failing accesses, lost commands and resets looked at

ASSUME TasksDistinct == Cardinality({Cmd, Lep, Rsp, None}) = 4
ASSUME BoundsAreNat == /\ Attempts \in Nat \ {0}
                       /\ MaxOps \in Nat /\ MaxViewers \in Nat /\ MaxInside \in Nat
                       /\ MaxTroubles \in Nat

Tasks == {Cmd, Lep, Rsp}

(* "agc" stands for every setting whose getter reads its answer after it   *)
(* gave cci_mutex back, "flux" for those that read it before.              *)
Settings == {"agc", "flux", "shutter"}
ReadInside == {"flux"}
Value(a) == IF a = "shutter" THEN {0, 2} ELSE {0, 1}
IDLE == 0
CLOSED == 2
Garbage == 3     \* what a failed read returns

VARIABLES
  mutex,      \* holder of cci_mutex
  bus,        \* holder of i2c_mutex between two accesses: None, or for ever
  sensor,     \* [run: the command it executes, data: DATA_0, and its settings]
  lastErr,    \* cci_last_status_error
  pc, call,   \* where each task is, and in which routine of cci.c
  prog,       \* the routine of lepton_utilities.c or the handler around it
  ans,        \* what the task's last getter returned
  parked,     \* shutter_parked
  lepSt,      \* lep_st: the configuration the camera answers with
  viewer, was, idle,  \* client_if_connected, was_connected, idle_start_usec # 0
  ops, viewers, troubles,
  touched,    \* history: somebody used the sensor since the task gave the mutex
  ownErr,     \* history: the task's own last wait failed
  clean,      \* history: park and unpark never failed, met, or saw a reset
  apart       \* history: set_config and the initialisation never failed or met

vars == <<mutex, bus, sensor, lastErr, pc, call, prog, ans, parked, lepSt,
          viewer, was, idle, ops, viewers, troubles, touched, ownErr, clean, apart>>

hist == <<touched, ownErr, clean, apart>>
shown == <<viewer, viewers>>
site == <<parked, lepSt, shown, was, idle, ops>>

NoCall == [op |-> "none", a |-> "agc", v |-> 0]
NoProg == [do |-> "none", want |-> 0, tries |-> 0]
Fresh == [run |-> NoCall, data |-> 0, agc |-> 0, flux |-> 0, shutter |-> IDLE]
Booting == [Fresh EXCEPT !.run = [NoCall EXCEPT !.op = "boot"]]

Init ==
  /\ mutex = None /\ bus = None /\ sensor = Fresh /\ lastErr = FALSE
  /\ pc = [t \in Tasks |-> "idle"] /\ call = [t \in Tasks |-> NoCall]
  /\ prog = [t \in Tasks |-> NoProg] /\ ans = [t \in Tasks |-> Garbage]
  /\ parked = FALSE /\ lepSt = [agc |-> 0, flux |-> 0]
  /\ viewer = FALSE /\ was = FALSE /\ idle = FALSE
  /\ ops = 0 /\ viewers = 0 /\ troubles = 0
  /\ touched = [t \in Tasks |-> FALSE]
  /\ ownErr = [t \in Tasks |-> FALSE] /\ clean = TRUE /\ apart = TRUE

Busy == sensor.run.op # "none"
Shuttering(t) == prog[t].do \in {"park", "unpark"}

-----------------------------------------------------------------------------
(* One register access.                                                    *)

(* i2c_lock ... i2c_unlock around one transfer.                            *)
CanAccess == bus = None

(* An access or a command of the sensor fails.                             *)
Fail(t) ==
  /\ troubles < MaxTroubles
  /\ troubles' = troubles + 1
  /\ clean' = (clean /\ ~Shuttering(t))
  /\ apart' = (apart /\ prog[t].do \notin {"config", "init"})

NoFail == UNCHANGED <<troubles, clean, apart>>

Goto(t, l) == pc' = [pc EXCEPT ![t] = l]

(* The task's answer is still to be read, or to be looked at.              *)
Unread(t) == pc[t] \in {"read", "ret"} /\ call[t].op \in {"get", "rawget", "rawset"}

(* Plausible bug: the take has a time out and its result is not looked at. *)
TakeTimedOut(t) ==
  /\ pc[t] = "take"
  /\ mutex' = t
  /\ touched' = [u \in Tasks |-> IF u = t THEN FALSE
                                 ELSE touched[u] \/ Unread(u)]
  /\ Goto(t, "wait")
  /\ UNCHANGED <<bus, sensor, lastErr, call, prog, ans, site, troubles, ownErr, clean, apart>>

(* xSemaphoreTake(cci_mutex, portMAX_DELAY).                               *)
Take(t) ==
  /\ pc[t] = "take" /\ mutex = None
  /\ mutex' = t
  /\ touched' = [u \in Tasks |-> IF u = t THEN FALSE
                                 ELSE touched[u] \/ Unread(u)]
  /\ Goto(t, "wait")
  /\ UNCHANGED <<bus, sensor, lastErr, call, prog, ans, site, troubles, ownErr, clean, apart>>

(* cci_wait_busy_clear before the registers are written; its result is     *)
(* thrown away, so a failure only ends the wait.                           *)
Wait(t) ==
  /\ pc[t] = "wait" /\ CanAccess
  /\ \/ ~Busy /\ NoFail
     \/ Fail(t)
  /\ Goto(t, IF call[t].op \in {"set", "rawset"} THEN "data" ELSE "command")
  /\ UNCHANGED <<mutex, bus, sensor, lastErr, call, prog, ans, site, touched, ownErr>>

(* Plausible bug: cci_set_reg returns from its error path with the mutex.  *)
WriteDataReturns(t) ==
  /\ pc[t] = "data" /\ CanAccess
  /\ \/ /\ NoFail
        /\ sensor' = IF Busy THEN sensor ELSE [sensor EXCEPT !.data = call[t].v]
        /\ Goto(t, "command")
        /\ UNCHANGED <<lastErr, ownErr>>
     \/ /\ Fail(t)
        /\ lastErr' = TRUE /\ ownErr' = [ownErr EXCEPT ![t] = TRUE]
        /\ Goto(t, IF call[t].op = "rawset" THEN "ret" ELSE "command")
        /\ UNCHANGED sensor
  /\ UNCHANGED <<mutex, bus, call, prog, ans, site, touched>>

(* cci_write_register(CCI_REG_DATA_0, ...): the caller ignores a failure;  *)
(* cci_set_reg does not, it gives up.  A busy sensor takes no data.        *)
WriteData(t) ==
  /\ pc[t] = "data" /\ CanAccess
  /\ \/ /\ NoFail
        /\ sensor' = IF Busy THEN sensor ELSE [sensor EXCEPT !.data = call[t].v]
        /\ Goto(t, "command")
        /\ UNCHANGED <<lastErr, ownErr>>
     \/ /\ Fail(t)
        /\ IF call[t].op = "rawset"
           THEN /\ lastErr' = TRUE /\ ownErr' = [ownErr EXCEPT ![t] = TRUE]
                /\ Goto(t, "give")
           ELSE Goto(t, "command") /\ UNCHANGED <<lastErr, ownErr>>
        /\ UNCHANGED sensor
  /\ UNCHANGED <<mutex, bus, call, prog, ans, site, touched>>

(* cci_write_register(CCI_REG_COMMAND, ...).                               *)
WriteCommand(t) ==
  /\ pc[t] = "command" /\ CanAccess
  /\ \/ /\ NoFail
        /\ sensor' = IF Busy THEN sensor ELSE [sensor EXCEPT !.run = call[t]]
     \/ Fail(t) /\ UNCHANGED sensor
  /\ Goto(t, "check")
  /\ UNCHANGED <<mutex, bus, lastErr, call, prog, ans, site, touched, ownErr>>

(* Plausible bug: the flag is set by a failure and never cleared.          *)
CheckSticky(t) ==
  /\ pc[t] = "check" /\ CanAccess
  /\ \/ ~Busy /\ NoFail /\ ownErr' = [ownErr EXCEPT ![t] = FALSE] /\ UNCHANGED lastErr
     \/ Fail(t) /\ lastErr' = TRUE /\ ownErr' = [ownErr EXCEPT ![t] = TRUE]
  /\ Goto(t, IF \/ call[t].op = "rawget"
                \/ call[t].op = "get" /\ call[t].a \in ReadInside THEN "read" ELSE "give")
  /\ UNCHANGED <<mutex, bus, sensor, call, prog, ans, site, touched>>

(* cci_wait_busy_clear_check: the error flag tells of this wait.           *)
Check(t) ==
  /\ pc[t] = "check" /\ CanAccess
  /\ \/ ~Busy /\ NoFail /\ lastErr' = FALSE /\ ownErr' = [ownErr EXCEPT ![t] = FALSE]
     \/ Fail(t) /\ lastErr' = TRUE /\ ownErr' = [ownErr EXCEPT ![t] = TRUE]
  /\ Goto(t, IF \/ call[t].op = "rawget"
                \/ call[t].op = "get" /\ call[t].a \in ReadInside THEN "read" ELSE "give")
  /\ UNCHANGED <<mutex, bus, sensor, call, prog, ans, site, touched>>

(* cci_read_register: the lock is returned on every path.  cci_read_burst  *)
(* (the raw get) returns without i2c_unlock when its read, not its write   *)
(* of the address, fails.                                                  *)
Read(t) ==
  /\ pc[t] = "read" /\ CanAccess
  /\ \/ /\ NoFail
        /\ ans' = [ans EXCEPT ![t] = sensor.data] /\ UNCHANGED bus
     \/ /\ Fail(t)
        /\ ans' = [ans EXCEPT ![t] = Garbage]
        /\ bus' \in (IF call[t].op = "rawget" THEN {t, bus} ELSE {bus})
  /\ Goto(t, IF mutex = t THEN "give" ELSE "ret")
  /\ UNCHANGED <<mutex, sensor, lastErr, call, prog, site, touched, ownErr>>

(* xSemaphoreGive(cci_mutex); the other getters read their answer now.     *)
Give(t) ==
  /\ pc[t] = "give"
  /\ mutex' = None
  /\ Goto(t, IF call[t].op = "get" /\ call[t].a \notin ReadInside THEN "read" ELSE "ret")
  /\ UNCHANGED <<bus, sensor, lastErr, call, prog, ans, site, troubles, hist>>

(* External: the sensor executes the command in its registers.  A value    *)
(* outside the setting's range is refused, which cci.c only logs.          *)
SensorRuns ==
  /\ Busy
  /\ LET c == sensor.run IN
     sensor' = [(CASE c.op \in {"set", "rawset"} /\ sensor.data \in Value(c.a)
                                          -> [sensor EXCEPT ![c.a] = sensor.data]
                   [] c.op \in {"get", "rawget"} -> [sensor EXCEPT !.data = sensor[c.a]]
                   [] OTHER -> sensor) EXCEPT !.run = NoCall]
  /\ UNCHANGED <<mutex, bus, lastErr, pc, call, prog, ans, site, troubles, hist>>

(* External: "on occasion ... some commands run on the lepton will fail    *)
(* either silently or with an error response code".                        *)
SensorLoses ==
  /\ sensor.run.op \in {"set", "get", "rawset", "rawget", "run"}
  /\ troubles < MaxTroubles
  /\ troubles' = troubles + 1
  /\ clean' = (clean /\ sensor.run.a # "shutter") /\ apart' = FALSE
  /\ sensor' = [sensor EXCEPT !.run = NoCall]
  /\ UNCHANGED <<mutex, bus, lastErr, pc, call, prog, ans, site, touched, ownErr>>

-----------------------------------------------------------------------------
(* The routines around cci.c.                                              *)

(* Enter routine c of cci.c.                                               *)
Enter(t, c) ==
  /\ call' = [call EXCEPT ![t] = c]
  /\ ans' = [ans EXCEPT ![t] = Garbage]
  /\ Goto(t, "take")

Set(a, v) == [op |-> "set", a |-> a, v |-> v]
Get(a) == [op |-> "get", a |-> a, v |-> 0]
Run == [op |-> "run", a |-> "agc", v |-> 0]

Leave(t) ==
  /\ Goto(t, "idle")
  /\ prog' = [prog EXCEPT ![t] = NoProg] /\ call' = [call EXCEPT ![t] = NoCall]
  /\ ans' = [ans EXCEPT ![t] = Garbage]
  /\ touched' = [touched EXCEPT ![t] = FALSE] /\ ownErr' = [ownErr EXCEPT ![t] = FALSE]

(* The bound on the tasks that use the sensor at the same time.            *)
Room(t) == pc[t] = "idle" /\ Cardinality({u \in Tasks : pc[u] # "idle"}) < MaxInside

core == <<mutex, bus, sensor, lastErr, troubles>>

(* process_set_config for one changed item: lepton_agc or lepton_emissivity. *)
Config(a) ==
  /\ viewer /\ Room(Cmd) /\ ops < MaxOps
  /\ ops' = ops + 1
  /\ LET v == 1 - lepSt[a] IN
       /\ prog' = [prog EXCEPT ![Cmd] = [do |-> "config", want |-> v, tries |-> 1]]
       /\ Enter(Cmd, Set(a, v))
  /\ apart' = (apart /\ prog[Lep].do # "init")
  /\ UNCHANGED <<core, parked, lepSt, shown, was, idle, touched, ownErr, clean>>

(* After the write comes the read.                                         *)
ReadBack(t) ==
  /\ pc[t] = "ret" /\ prog[t].do \in {"config", "init"} /\ call[t].op = "set"
  /\ Enter(t, Get(call[t].a))
  /\ UNCHANGED <<core, prog, site, touched, ownErr, clean, apart>>

(* rsp == want; cci_get_radiometry_flux_linear_params also says whether    *)
(* its wait went well, reading the flag after it gave the mutex back.      *)
Confirmed(t) ==
  /\ ans[t] = prog[t].want
  /\ call[t].a \in ReadInside => ~lastErr

(* The loop of lepton_agc, lepton_gain_mode and lepton_emissivity; what    *)
(* did not stick is logged, and lep_st is assigned all the same.           *)
ConfigVerify ==
  /\ pc[Cmd] = "ret" /\ prog[Cmd].do = "config" /\ call[Cmd].op = "get"
  /\ LET p == prog[Cmd] IN
     IF ~Confirmed(Cmd) /\ p.tries < Attempts
     THEN /\ prog' = [prog EXCEPT ![Cmd].tries = p.tries + 1]
          /\ Enter(Cmd, Set(call[Cmd].a, p.want))
          /\ UNCHANGED <<lepSt, touched, ownErr>>
     ELSE /\ lepSt' = [lepSt EXCEPT ![call[Cmd].a] = p.want]
          /\ Leave(Cmd)
  /\ UNCHANGED <<core, parked, shown, was, idle, ops, clean, apart>>

(* process_get_lep_cci and process_set_lep_cci.                            *)
Raw(c) ==
  /\ viewer /\ Room(Cmd) /\ ops < MaxOps
  /\ ops' = ops + 1
  /\ prog' = [prog EXCEPT ![Cmd] = [NoProg EXCEPT !.do = "raw"]]
  /\ Enter(Cmd, c)
  /\ lastErr' = IF c.op = "rawset" THEN FALSE ELSE lastErr
  /\ apart' = (apart /\ c.op = "rawget")
  /\ UNCHANGED <<mutex, bus, sensor, troubles, parked, lepSt, shown, was, idle,
                 touched, ownErr, clean>>

RawCalls == {[op |-> "rawget", a |-> "agc", v |-> 0], [op |-> "rawset", a |-> "agc", v |-> 1]}

(* cci_command_success: the flag decides what the client is told.          *)
RawAnswer ==
  /\ pc[Cmd] = "ret" /\ prog[Cmd].do = "raw"
  /\ Leave(Cmd)
  /\ UNCHANGED <<core, site, clean, apart>>

(* lepton_shutter_park and lepton_shutter_unpark, from set_shutter or      *)
(* run_ffc (Cmd) or from rsp_task: the flag is looked at first.            *)
Shutter(t, do) ==
  /\ prog' = [prog EXCEPT ![t] = [NoProg EXCEPT !.do = do]]
  /\ Enter(t, Set("shutter", IF do = "park" THEN CLOSED ELSE IDLE))
  /\ clean' = (clean /\ \A u \in Tasks \ {t} : ~Shuttering(u))

SetShutter(do) ==
  /\ viewer /\ Room(Cmd) /\ ops < MaxOps
  /\ parked = (do = "unpark")
  /\ ops' = ops + 1
  /\ Shutter(Cmd, do)
  /\ UNCHANGED <<core, parked, lepSt, shown, was, idle, touched, ownErr, apart>>

(* run_ffc with the shutter not parked.                                    *)
RunFfc ==
  /\ viewer /\ Room(Cmd) /\ ops < MaxOps /\ ~parked
  /\ ops' = ops + 1
  /\ prog' = [prog EXCEPT ![Cmd] = [NoProg EXCEPT !.do = "ffc"]]
  /\ Enter(Cmd, Run)
  /\ UNCHANGED <<core, parked, lepSt, shown, was, idle, touched, ownErr, clean, apart>>

(* The shutter was written: the flag follows; unpark also asks for an FFC. *)
ShutterMoved(t) ==
  /\ pc[t] = "ret" /\ Shuttering(t) /\ call[t].op = "set"
  /\ parked' = (prog[t].do = "park")
  /\ IF prog[t].do = "park"
     THEN Leave(t)
     ELSE Enter(t, Run) /\ UNCHANGED <<prog, touched, ownErr>>
  /\ UNCHANGED <<core, lepSt, shown, was, idle, ops, clean, apart>>

FfcDone(t) ==
  /\ pc[t] = "ret" /\ call[t].op = "run" /\ prog[t].do \in {"unpark", "ffc"}
  /\ Leave(t)
  /\ UNCHANGED <<core, site, clean, apart>>

(* A viewer comes or goes.                                                 *)
Viewer ==
  /\ viewers < MaxViewers
  /\ viewers' = viewers + 1 /\ viewer' = ~viewer
  /\ UNCHANGED <<core, pc, call, prog, ans, parked, lepSt, was, idle, ops, hist>>

(* One pass of rsp_task: a new viewer reopens the shutter, the idle timer  *)
(* of RSP_SHUTTER_PARK_IDLE_MSEC closes it.                                *)
RspNewViewer ==
  /\ Room(Rsp) /\ viewer /\ ~was
  /\ idle' = FALSE /\ was' = TRUE
  /\ IF parked THEN Shutter(Rsp, "unpark")
     ELSE UNCHANGED <<pc, call, prog, ans, clean>>
  /\ UNCHANGED <<core, parked, lepSt, shown, ops, touched, ownErr, apart>>

RspIdle ==
  /\ pc[Rsp] = "idle" /\ ~viewer /\ (was \/ (~idle /\ ~parked))
  /\ idle' = (idle \/ ~parked) /\ was' = FALSE
  /\ UNCHANGED <<core, pc, call, prog, ans, parked, lepSt, shown, ops, hist>>

RspPark ==
  /\ Room(Rsp) /\ ~viewer /\ ~parked /\ idle
  /\ was' = FALSE
  /\ Shutter(Rsp, "park")
  /\ UNCHANGED <<core, parked, lepSt, shown, idle, ops, touched, ownErr, apart>>

(* STATE_RE_INIT of lep_task: the reset line, then lepton_init.            *)
Reset ==
  /\ Room(Lep) /\ troubles < MaxTroubles
  /\ troubles' = troubles + 1
  /\ sensor' = Booting
  /\ touched' = [t \in Tasks |-> touched[t] \/ (pc[t] # "idle" /\ call[t].op # "set")]
  /\ clean' = (clean /\ ~parked /\ \A t \in Tasks : ~Shuttering(t))
  /\ apart' = (apart /\ prog[Cmd].do # "config")
  /\ prog' = [prog EXCEPT ![Lep] = [NoProg EXCEPT !.do = "init"]]
  /\ Enter(Lep, Run)
  /\ UNCHANGED <<mutex, bus, lastErr, parked, lepSt, shown, was, idle, ops, ownErr>>

(* lepton_init returned false: lep_task reports a fault and tries later.   *)
InitFails == Leave(Lep) /\ apart' = FALSE

(* Plausible bug: a reset sensor is given the defaults, not lep_st.        *)
InitDefaults ==
  /\ pc[Lep] = "ret" /\ prog[Lep].do = "init"
  /\ \/ /\ call[Lep].op = "run"
        /\ IF ownErr[Lep] THEN InitFails
           ELSE /\ prog' = [prog EXCEPT ![Lep].want = 0]
                /\ Enter(Lep, Set("agc", 0)) /\ UNCHANGED <<touched, ownErr, apart>>
     \/ call[Lep].op = "get" /\ Leave(Lep) /\ UNCHANGED apart
  /\ UNCHANGED <<core, site, clean>>

(* lepton_init after its ping: a ping that failed ends it, the settings    *)
(* are written from lep_st and read back: once, but for lepton_emissivity, *)
(* which tries again and whose failure does not end the initialisation.    *)
InitNext ==
  /\ pc[Lep] = "ret" /\ prog[Lep].do = "init"
  /\ \/ /\ call[Lep].op = "run"
        /\ IF ownErr[Lep] THEN InitFails
           ELSE /\ prog' = [prog EXCEPT ![Lep].want = lepSt.agc]
                /\ Enter(Lep, Set("agc", lepSt.agc)) /\ UNCHANGED <<touched, ownErr, apart>>
     \/ /\ call[Lep].op = "get" /\ call[Lep].a = "agc"
        /\ IF ~Confirmed(Lep) THEN InitFails
           ELSE /\ prog' = [prog EXCEPT ![Lep].want = lepSt.flux, ![Lep].tries = 1]
                /\ Enter(Lep, Set("flux", lepSt.flux)) /\ UNCHANGED <<touched, ownErr, apart>>
     \/ /\ call[Lep].op = "get" /\ call[Lep].a = "flux"
        /\ IF ~Confirmed(Lep) /\ prog[Lep].tries < Attempts
           THEN /\ prog' = [prog EXCEPT ![Lep].tries = @ + 1]
                /\ Enter(Lep, Set("flux", prog[Lep].want))
                /\ UNCHANGED <<touched, ownErr, apart>>
           ELSE Leave(Lep) /\ UNCHANGED apart
  /\ UNCHANGED <<core, site, clean>>

-----------------------------------------------------------------------------
Access(t) ==
  \/ Take(t) \/ Wait(t) \/ WriteData(t) \/ WriteCommand(t)
  \/ Check(t) \/ Read(t) \/ Give(t)

Routine(t) ==
  \/ ReadBack(t) \/ ShutterMoved(t) \/ FfcDone(t)
  \/ t = Cmd /\ (ConfigVerify \/ RawAnswer)
  \/ t = Lep /\ InitNext

Next ==
  \/ \E t \in Tasks : Access(t) \/ Routine(t)
  \/ SensorRuns \/ SensorLoses
  \/ \E a \in {"agc", "flux"} : Config(a)
  \/ \E c \in RawCalls : Raw(c)
  \/ \E do \in {"park", "unpark"} : SetShutter(do)
  \/ RunFfc \/ Viewer \/ RspNewViewer \/ RspIdle \/ RspPark \/ Reset

(* Every task runs, and the sensor finishes what it was told to do.        *)
Fairness ==
  /\ \A t \in Tasks : WF_vars(Access(t) \/ Routine(t))
  /\ WF_vars(SensorRuns)

Spec == Init /\ [][Next]_vars /\ Fairness

-----------------------------------------------------------------------------
(* A write that was read back is in the sensor, although commands fail     *)
(* silently (lepton_utilities.c:4-6) and other tasks use the sensor: one   *)
(* failure never makes the check succeed on a setting that did not stick,  *)
(* unless somebody used the sensor after the getter had given the mutex    *)
(* back and before the answer was looked at.                               *)
VerifiedSticks ==
  \A t \in Tasks :
    /\ prog[t].do # "none" /\ call[t].op = "get" /\ pc[t] \in {"give", "ret"}
    /\ ans[t] = prog[t].want /\ troubles <= 1 /\ ~touched[t]
    => sensor[call[t].a] = prog[t].want

(* The flag shutter_parked, which alone decides whether the next viewer    *)
(* reopens the shutter and whether an idle camera closes it, agrees with   *)
(* the sensor whenever nobody is moving it: unless two tasks moved it at   *)
(* the same time, a transfer failed, or the sensor was reset meanwhile.    *)
ParkAgrees ==
  clean /\ (\A t \in Tasks : ~Shuttering(t) \/ call[t].op = "run")
    => (parked <=> sensor.shutter = CLOSED)

(* The configuration the camera reports (lep_st) is the one in the sensor  *)
(* whenever neither set_config nor an initialisation is under way, through *)
(* any reset of the sensor: unless the two ran at the same time, a raw     *)
(* write went behind lep_st's back, or one of them failed (an              *)
(* initialisation that gives up reports a fault).                          *)
ConfigAgrees ==
  apart /\ prog[Cmd].do # "config" /\ prog[Lep].do # "init"
    => \A a \in {"agc", "flux"} : sensor[a] = lepSt[a]

(* What the client is told about its raw access (cci_command_success) is   *)
(* the fate of that access and of no earlier one, unless another task has  *)
(* used the sensor since the mutex was given back.                         *)
StatusIsOwn ==
  pc[Cmd] = "ret" /\ prog[Cmd].do = "raw" /\ ~touched[Cmd]
    => (lastErr <=> ownErr[Cmd])

(* Nobody waits for ever for cci_mutex or i2c_mutex, whatever fails, as    *)
(* long as no failing burst read has kept i2c_mutex.                       *)
CallsEnd ==
  \A t \in Tasks : pc[t] # "idle" ~> (pc[t] = "idle" \/ bus # None)
=============================================================================
