------------------------------ MODULE CtrlTask ------------------------------
(***************************************************************************)
(* ctrl_task.c: the button, the LED, the network reset and the states they *)
(* show.  Other tasks set faults (lep_task, rsp_task) in two steps, of     *)
(* which the first writes variables of this task, and notify it of what    *)
(* becomes of a firmware update (rsp_task).  The task's own loop takes its *)
(* notifications, then evaluates the LED, then the button and its state.   *)
(*                                                                         *)
(* What is shorter than a press and an alert is not counted: a phase of    *)
(* the LED may end at any tick.                                            *)
(***************************************************************************)
EXTENDS Integers, FiniteSets

CONSTANTS
  FwFault,       \* CTRL_FAULT_FW_UPDATE, and
  LepFault,      \* a fault of lep_task: how often the LED blinks
  PressTicks,    \* CTRL_BTN_PRESS_MSEC / CTRL_EVAL_MSEC
  AlertTicks,    \* CTRL_RESET_ALERT_MSEC / CTRL_EVAL_MSEC
  Budgets        \* bounds: how many faults lep_task sets or clears, how many
                 \* update requests and moves of the button are looked at

ASSUME FaultsAssumption == {FwFault, LepFault} \subseteq Nat \ {0}
ASSUME TicksAssumption == {PressTicks, AlertTicks} \subseteq Nat \ {0}
ASSUME BudgetsAssumption == Budgets \subseteq [faults : Nat, updates : Nat, moves : Nat]

VARIABLES
  sif,         \* ctrl_if_mode = CTRL_IF_MODE_SIF
  pc,          \* where the loop is: "wait", "bits", "led", "sm", "reinit", "off"
  back,        \* where it goes on after "reinit"
  bits,        \* the notifications taken and not handled yet
  state,       \* ctrl_state
  pre,         \* ctrl_pre_activity_state
  led, count,  \* ctrl_led_state, ctrl_fault_led_count (-1: below zero)
  alert,       \* ctrl_action_timer
  button,      \* the level of the pin, and what ctrl_debounce_button keeps
  fault,       \* ctrl_fault_type
  note,        \* notification bits of the task
  sets,        \* ctrl_set_fault_type under way: the bit each task will set
  upd,         \* fw_update_state of rsp_task: "idle", "req", "proc"
  told,        \* bits of the button for rsp_task: subset of {"en", "end"}
  left,        \* what the bounds leave
  asked,       \* history: presses, less the resets there were
  struck,      \* history: a fault was set while the network was being reset
  failed,      \* history: a network reset has failed
  covered      \* history: since the last fault an update was shown, or a fault
               \* cleared, or that was still to be dealt with

loop == <<pc, back, bits>>
shown == <<led, count>>
rspv == <<upd, told>>
vars == <<sif, loop, state, pre, shown, alert, button, fault, note, sets, rspv,
          left, asked, struck, failed, covered>>

FaultLeds == {"flt_on", "flt_off", "flt_idle"}
Phases == << <<"blink_on", "blink_off">>, <<"rst_on", "rst_off">>,
             <<"req_r", "req_g">>, <<"upd_on", "upd_off">> >>
Leds == {"solid"} \cup FaultLeds \cup {Phases[i][j] : i \in 1..4, j \in 1..2}
States == {"startup", "no_net", "net", "client", "alert", "action", "fault", "upd_req", "upd_proc"}

(* The order in which the bits are handled.                                *)
Order == <<"startup", "fault", "clear", "req", "process", "done", "reboot">>
Bits == {Order[i] : i \in 1..7}

Init ==
  /\ sif \in BOOLEAN
  /\ pc = "wait" /\ back = "wait" /\ bits = {}
  /\ state = "startup" /\ pre = "startup" /\ led = "solid" /\ count = 0 /\ alert = 0
  /\ button = [pin |-> FALSE, prev |-> FALSE, down |-> FALSE, timer |-> 0]
  /\ fault = 0 /\ note = {"startup"} /\ sets = [lep |-> "none", rsp |-> "none"]
  /\ upd = "idle" /\ told = {}
  /\ left \in Budgets
  /\ asked = 0 /\ struck = FALSE /\ failed = FALSE /\ covered = FALSE

On == pc # "off"
Spend(what) == On /\ left[what] > 0 /\ left' = [left EXCEPT ![what] = @ - 1]

-----------------------------------------------------------------------------
(* The other tasks.                                                        *)

others == <<sif, loop, state, shown, alert, button, asked, failed>>

(* ctrl_set_fault_type: the state to return to is saved, unless it is that *)
(* of an update,                                                           *)
SetFault(task, f) ==
  /\ sets[task] = "none" /\ sets' = [sets EXCEPT ![task] = "fault"]
  /\ fault' = f
  /\ pre' = IF state # "upd_proc" THEN state ELSE pre
  /\ struck' = (struck \/ state \in {"alert", "action"})
  /\ covered' = ("clear" \in note \cup bits \cup {sets["lep"], sets["rsp"]})
  /\ UNCHANGED <<others, note>>

ClearFault(task) ==
  /\ sets[task] = "none" /\ sets' = [sets EXCEPT ![task] = "clear"]
  /\ fault' = 0 /\ covered' = TRUE
  /\ UNCHANGED <<others, pre, note, struck>>

(* and the task is notified.                                               *)
Notify(task) ==
  /\ On /\ sets[task] # "none" /\ sets' = [sets EXCEPT ![task] = "none"]
  /\ note' = note \cup {sets[task]}
  /\ UNCHANGED <<others, pre, fault, rspv, left, struck, covered>>

LepSetsFault == Spend("faults") /\ SetFault("lep", LepFault) /\ UNCHANGED rspv
LepClears == Spend("faults") /\ ClearFault("lep") /\ UNCHANGED rspv

(* rsp_task, of which FwUpdate is the model: a request, whatever it is in, *)
RspReport(b) == note' = note \cup b /\ UNCHANGED <<others, pre, fault, sets, struck>>

UpdRequest ==
  /\ Spend("updates") /\ sets["rsp"] = "none"
  /\ upd' = "req" /\ RspReport({"req"})
  /\ UNCHANGED <<told, covered>>

(* the user's consent, which may fail to start the update,                 *)
UpdStart ==
  /\ On /\ "en" \in told /\ sets["rsp"] = "none" /\ told' = told \ {"en"}
  /\ UNCHANGED left
  /\ IF upd = "req"
     THEN \/ upd' = "proc" /\ RspReport({"process"}) /\ UNCHANGED covered
          \/ upd' = "idle" /\ SetFault("rsp", FwFault)
     ELSE UNCHANGED <<others, upd, pre, fault, note, sets, struck, covered>>

(* its end by a time out, by success, or by a failure,                     *)
UpdEnd ==
  /\ On /\ upd # "idle" /\ sets["rsp"] = "none" /\ upd' = "idle"
  /\ UNCHANGED <<told, left>>
  /\ \/ RspReport({"done"}) /\ UNCHANGED covered
     \/ upd = "proc" /\ RspReport({"done", "reboot"}) /\ UNCHANGED covered
     \/ upd = "proc" /\ SetFault("rsp", FwFault)

(* and the button that terminates it, looked at in every state.            *)
UpdStop ==
  /\ On /\ "end" \in told /\ sets["rsp"] = "none" /\ told' = told \ {"end"}
  /\ upd' = "idle" /\ RspReport({"done"})
  /\ UNCHANGED <<left, covered>>

Press ==
  /\ Spend("moves")
  /\ button' = [button EXCEPT !.pin = ~@]
  /\ asked' = asked + (IF button.pin THEN 0 ELSE 1)
  /\ UNCHANGED <<sif, loop, state, pre, shown, alert, fault, note, sets, rspv,
                 struck, failed, covered>>

-----------------------------------------------------------------------------
(* ctrl_set_state, with the LED it starts.                                 *)

LedOf(s) ==
  CASE s \in {"startup", "net", "client"} -> "solid"
    [] s = "no_net" -> "blink_on"
    [] s = "alert" -> "rst_on"
    [] s = "upd_req" -> "req_r"
    [] s = "upd_proc" -> "upd_on"
    [] OTHER -> led

(* Plausible bug: the blinks are not counted from the start.               *)
SetStateKeepsCount(s) ==
  /\ state' = s
  /\ led' = IF s = "fault" /\ fault # 0 THEN "flt_on" ELSE LedOf(s)
  /\ count' = count
  /\ alert' = IF s = "alert" THEN AlertTicks ELSE alert

SetState(s) ==
  /\ state' = s
  /\ led' = IF s = "fault" /\ fault # 0 THEN "flt_on" ELSE LedOf(s)
  /\ count' = IF s = "fault" /\ fault # 0 THEN fault ELSE count
  /\ alert' = IF s = "alert" THEN AlertTicks ELSE alert

SameState == UNCHANGED <<state, shown, alert>>

(* The reset itself takes its time: the state is set before.               *)
GoOn(s, next) ==
  IF s = "action" THEN pc' = "reinit" /\ back' = next ELSE pc' = next /\ UNCHANGED back

world == <<sif, fault, sets, upd, left>>

-----------------------------------------------------------------------------
(* The loop.  xTaskNotifyWait.                                             *)

Take ==
  /\ pc = "wait" /\ pc' = "bits"
  /\ bits' = note /\ note' = {}
  /\ UNCHANGED <<world, back, state, pre, shown, alert, button, told, asked, struck, failed, covered>>

FirstOf(b) == Order[CHOOSE i \in 1..7 : Order[i] \in b /\ \A j \in 1..(i - 1) : Order[j] \notin b]

(* ctrl_handle_notifications, one bit.  A restart takes the task with it.  *)
HandleBit ==
  /\ pc = "bits" /\ bits # {}
  /\ LET b == FirstOf(bits)
         s == CASE b = "startup" -> IF sif THEN "client" ELSE "no_net"
                [] b = "fault" -> "fault"
                [] b \in {"clear", "done"} -> pre
                [] b = "req" -> "upd_req"
                [] b = "process" -> "upd_proc"
                [] b = "reboot" -> "off"
     IN /\ bits' = bits \ {b}
        /\ pre' = IF b = "req" /\ state # "fault" THEN state ELSE pre
        /\ IF b = "reboot"
           THEN pc' = "off" /\ SameState /\ UNCHANGED back
           ELSE IF b = "startup" /\ state = "fault"
           THEN SameState /\ UNCHANGED <<pc, back>>
           ELSE SetState(s) /\ GoOn(s, "bits")
        /\ covered' = (covered \/ b \in {"req", "process", "done"})
        /\ struck' = (struck \/ (b = "req" /\ state \in {"alert", "action"}))
  /\ UNCHANGED <<world, button, note, told, asked, failed>>

NoBits ==
  /\ pc = "bits" /\ bits = {} /\ pc' = "led"
  /\ UNCHANGED <<world, back, bits, state, pre, shown, alert, button, note, told,
                 asked, struck, failed, covered>>

(* ctrl_eval_led_sm: the phase goes on or ends.                            *)
Alternate == \E i \in 1..4, j \in 1..2 : led = Phases[i][j] /\ led' = Phases[i][3 - j]

EvalLed ==
  /\ pc = "led" /\ pc' = "sm"
  /\ \/ UNCHANGED shown
     \/ Alternate /\ UNCHANGED count
     \/ led = "flt_on" /\ led' = "flt_off" /\ UNCHANGED count
     \/ /\ led = "flt_off"
        /\ count' = IF count <= 0 THEN -1 ELSE count - 1
        /\ led' = IF count = 1 THEN "flt_idle" ELSE "flt_on"
     \/ led = "flt_idle" /\ led' = "flt_on" /\ count' = fault
  /\ UNCHANGED <<world, back, bits, state, pre, alert, button, note, told,
                 asked, struck, failed, covered>>

-----------------------------------------------------------------------------
(* ctrl_debounce_button: two equal samples count, a press that lasts is    *)
(* long, one that ends before is short.                                    *)

Pressed == button.pin /\ button.prev /\ ~button.down
Released == ~button.pin /\ ~button.prev /\ button.down
Down == (button.down \/ Pressed) /\ ~Released
Timer == IF Pressed THEN PressTicks ELSE button.timer

(* Plausible bug: a button that is held is pressed again and again.        *)
LongAgain == Down /\ Timer <= 1

Long == Down /\ Timer = 1

Short == Released /\ button.timer # 0
Debounced == [pin |-> button.pin, prev |-> button.pin, down |-> Down,
              timer |-> IF Down /\ Timer # 0 THEN Timer - 1 ELSE Timer]

(* Plausible bug: a reset forgets the fault it was asked in.               *)
SuccessorsForgetFault ==
  CASE state = "no_net" -> {"no_net", "net"}
    [] state = "net" -> {"net", "no_net", "client"}
    [] state = "client" -> IF sif THEN {"client"} ELSE {"client", "no_net"}
    [] state = "alert" -> {IF alert = 1 THEN "action" ELSE "alert"}
    [] state = "action" -> {"action", "no_net"}
    [] OTHER -> {state}

(* Plausible bug: while there is a fault the reset does not end.           *)
SuccessorsWait ==
  CASE state = "no_net" -> {"no_net", "net"}
    [] state = "net" -> {"net", "no_net", "client"}
    [] state = "client" -> IF sif THEN {"client"} ELSE {"client", "no_net"}
    [] state = "alert" -> {IF alert = 1 THEN "action" ELSE "alert"}
    [] state = "action" -> IF fault = 0 THEN {"action", "no_net"} ELSE {"action"}
    [] OTHER -> {state}

(* ctrl_eval_sm: where the state goes, with the flags of the network and   *)
(* of the session, which others change at any time.                        *)
Successors ==
  CASE state = "no_net" -> {"no_net", "net"}
    [] state = "net" -> {"net", "no_net", "client"}
    [] state = "client" -> IF sif THEN {"client"} ELSE {"client", "no_net"}
    [] state = "alert" -> {IF alert = 1 THEN "action" ELSE "alert"}
    [] state = "action" -> {"action", IF fault = 0 THEN "no_net" ELSE "fault"}
    [] OTHER -> {state}

Resets ==
  Long /\ state \in (IF sif THEN {"no_net", "net"} ELSE {"no_net", "net", "client", "fault"})

EvalSm ==
  /\ pc = "sm"
  /\ button' = Debounced
  /\ told' = told \cup (IF Short /\ state = "upd_req" THEN {"en"} ELSE {})
                  \cup (IF Short /\ state = "upd_proc" THEN {"end"} ELSE {})
  /\ IF Resets
     THEN SetState("alert") /\ pc' = "wait" /\ UNCHANGED back
     ELSE \E s \in Successors :
            IF s # state THEN SetState(s) /\ GoOn(s, "wait")
            ELSE /\ UNCHANGED <<state, shown, back>> /\ pc' = "wait"
                 /\ alert' = IF state = "alert" THEN alert - 1 ELSE alert
  /\ UNCHANGED <<world, bits, pre, note, asked, struck, failed, covered>>

(* The reset: ps_reinit_net and net_reinit, of which either may fail.      *)
Reinit ==
  /\ pc = "reinit" /\ pc' = back
  /\ asked' = asked - 1
  /\ \/ UNCHANGED <<state, led, failed>>
     \/ state' = "fault" /\ led' = "flt_on" /\ failed' = TRUE
  /\ UNCHANGED <<world, back, bits, pre, count, alert, button, note, told, struck, covered>>

-----------------------------------------------------------------------------
Others == LepSetsFault \/ LepClears \/ UpdRequest \/ UpdStart \/ UpdEnd \/ UpdStop \/ Press
Notifies == \E task \in {"lep", "rsp"} : Notify(task)
Loop == Take \/ HandleBit \/ NoBits \/ EvalLed \/ EvalSm \/ Reinit

Next == Loop \/ Others \/ Notifies

(* The loop is never blocked for good, a task that has begun to set a      *)
(* fault goes on, and a network that was reset is enabled.                 *)
Fairness ==
  /\ WF_vars(Loop) /\ WF_vars(Notifies)
  /\ SF_vars(EvalSm /\ state = "action" /\ state' # "action")

Spec == Init /\ [][Next]_vars /\ Fairness

-----------------------------------------------------------------------------
TypeOK ==
  /\ sif \in BOOLEAN /\ pc \in {"wait", "bits", "led", "sm", "reinit", "off"}
  /\ back \in {"wait", "bits"} /\ bits \subseteq Bits /\ note \subseteq Bits
  /\ state \in States /\ pre \in States /\ led \in Leds
  /\ count \in -1..(FwFault + LepFault) /\ alert \in 0..AlertTicks
  /\ button \in [pin : BOOLEAN, prev : BOOLEAN, down : BOOLEAN, timer : 0..PressTicks]
  /\ fault \in {0, FwFault, LepFault}
  /\ sets \in [{"lep", "rsp"} -> {"none", "fault", "clear"}]
  /\ upd \in {"idle", "req", "proc"} /\ told \subseteq {"en", "end"}

(* The network, with its passwords, is reset no more often than somebody   *)
(* held the button for it; unless a fault or an update request arrived     *)
(* during a reset, whose end goes back to it.                              *)
ResetAsked == ~struck => asked >= 0

(* Nothing is pending.                                                     *)
Settled == pc = "wait" /\ bits = {} /\ note = {} /\ \A t \in {"lep", "rsp"} : sets[t] = "none"

(* What the LED counts in a fault is its code: the counter, which is       *)
(* compared with zero after it is decremented, never starts there or       *)
(* beyond; unless a network reset has failed.                              *)
BlinksCode == Settled /\ state = "fault" /\ fault # 0 /\ ~failed => count \in 0..fault

(* A fault that nobody cleared and no update took over from is shown, also *)
(* after the user has reset the network in it.                             *)
FaultShown ==
  Settled /\ fault # 0 /\ ~covered => state \in {"fault", "alert", "action"}

(* A network reset that was announced comes to an end.                     *)
ResetEnds == (state = "alert") ~> (state \notin {"alert", "action"} \/ pc = "off")
=============================================================================
