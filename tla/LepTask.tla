------------------------------- MODULE LepTask -------------------------------
(***************************************************************************)
(* main/lep_task.c: start-up of the sensor, the vsync loop with its         *)
(* counters of timeouts and resynchronisations, reset and retry, and the    *)
(* faults it sets and clears in main/ctrl_task.c.                           *)
(*                                                                         *)
(* What a vsync brings is taken from module Vospi: an image or none, and     *)
(* after ImageWithin vsyncs without one an image, if nothing is wrong.       *)
(* What can be wrong (trouble) is the sensor, the wires, or a processor     *)
(* that is too busy; trouble may end, once, and then nothing is.            *)
(***************************************************************************)
EXTENDS Naturals

CONSTANTS
  ImageWithin,    \* vsyncs in a row that a sensor without trouble may give no
                  \*   image: Gap + 7, by ImageSoon of Vospi
  ResyncVsyncs,   \* the 36 of lep_task
  SyncFailLimit,  \* LEP_SYNC_FAIL_FAULT_LIMIT
  TimeoutLimit,   \* LEP_VSYNC_TIMEOUT_FAULT_LIMIT
  RetrySecs       \* LEP_RESET_FAIL_RETRY_SECS

ASSUME LimitsAssumption ==
  /\ {ImageWithin, ResyncVsyncs, SyncFailLimit, TimeoutLimit, RetrySecs} \subseteq Nat \ {0}
  /\ ImageWithin < ResyncVsyncs

VARIABLES
  taskState,      \* task_state; also START, before the loop, and the two ways
                  \*   of being deleted: NO_CCI, NO_VOSPI
  asleep,         \* in a vTaskDelay of the RUN state
  bufIndex,       \* rsp_buf_index: the half the next image goes to
  vsyncCount,     \* vsync_count
  timeoutCount,   \* vsync_timeout_count
  syncFails,      \* sync_fail_count, up to SyncFailLimit + 1
  resetFails,     \* reset_fail_count
  fault,          \* ctrl_fault_type
  ctrlState,      \* ctrl_state; READY is every state without fault or start-up
  preState,       \* ctrl_pre_activity_state
  note,           \* notification bits of ctrl_task
  trouble,        \* the environment: something may fail
  dry,            \* the environment: vsyncs without an image since all is well
  overlapping     \* history: a fault was set or cleared when the last had not
                  \*   been dealt with, or when there was none to clear

taskVars  == <<taskState, asleep, bufIndex>>
countVars == <<vsyncCount, timeoutCount, syncFails, resetFails>>
ctrlVars  == <<ctrlState, preState>>
faultVars == <<fault, note, overlapping>>
envVars   == <<trouble, dry>>
vars == <<taskVars, countVars, ctrlVars, faultVars, envVars>>

Faults == {"CCI", "VOSPI", "SYNC"}

-----------------------------------------------------------------------------
(* ctrl_set_fault_type, run by lep_task *)

\* Plausible bug: the state to return to is not saved.
RaiseWithoutSaving(f) ==
  /\ fault' = f
  /\ note' = note \union {"FAULT"}
  /\ overlapping' = (overlapping \/ note # {} \/ ctrlState # "READY")
  /\ UNCHANGED ctrlVars

\* A fault is set: ctrl_task's state is saved as the one to return to.
Raise(f) ==
  /\ fault' = f
  /\ preState' = ctrlState
  /\ note' = note \union {"FAULT"}
  /\ overlapping' = (overlapping \/ note # {} \/ ctrlState # "READY")
  /\ UNCHANGED ctrlState

\* The fault is cleared, whichever it is and whether or not there is one.
Clear ==
  /\ fault' = "NONE"
  /\ note' = note \union {"FAULT_CLEAR"}
  /\ overlapping' = (overlapping \/ note # {} \/ fault = "NONE")
  /\ UNCHANGED ctrlVars

NoFaultChange == UNCHANGED <<faultVars, ctrlVars>>

\* ctrl_handle_notifications: all bits are taken, and handled in this order.
CtrlTask ==
  /\ note # {}
  /\ LET started == IF "STARTUP_DONE" \in note /\ ctrlState # "FAULT"
                    THEN "READY" ELSE ctrlState
         faulted == IF "FAULT" \in note THEN "FAULT" ELSE started
     IN ctrlState' = IF "FAULT_CLEAR" \in note THEN preState ELSE faulted
  /\ note' = {}
  /\ UNCHANGED <<taskVars, countVars, preState, fault, overlapping, envVars>>

-----------------------------------------------------------------------------
(* lep_task *)

Sleep(delay) == asleep' = delay

\* cci_init and vospi_init; if one fails the task deletes itself.
Start ==
  /\ taskState = "START"
  /\ \/ taskState' = "INIT" /\ NoFaultChange
     \/ trouble /\ taskState' = "NO_CCI" /\ NoFaultChange
     \/ trouble /\ taskState' = "NO_VOSPI" /\ Raise("VOSPI")
  /\ UNCHANGED <<asleep, bufIndex, countVars, envVars>>

\* lepton_init failed: resetFails is the timer of the error state from here on.
InitFailed ==
  /\ trouble
  /\ Raise("CCI")
  /\ taskState' = "ERROR" /\ resetFails' = RetrySecs

\* STATE_INIT.
InitLepton ==
  /\ taskState = "INIT"
  /\ \/ taskState' = "RUN" /\ UNCHANGED resetFails /\ NoFaultChange
     \/ InitFailed
  /\ UNCHANGED <<asleep, bufIndex, vsyncCount, timeoutCount, syncFails, envVars>>

\* STATE_RE_INIT: the reset is noted in resetFails.
ReInitLepton ==
  /\ taskState = "RE_INIT"
  /\ \/ taskState' = "RUN" /\ resetFails' = 1 /\ NoFaultChange
     \/ InitFailed
  /\ UNCHANGED <<asleep, bufIndex, vsyncCount, timeoutCount, syncFails, envVars>>

\* STATE_ERROR: a second has passed.
ErrorWait ==
  /\ taskState = "ERROR"
  /\ resetFails' = resetFails - 1
  /\ taskState' = IF resetFails = 1 THEN "RE_INIT" ELSE "ERROR"
  /\ UNCHANGED <<asleep, bufIndex, vsyncCount, timeoutCount, syncFails, envVars>>
  /\ NoFaultChange

Waits == taskState = "RUN" /\ asleep = "NO"

\* Plausible bug: a timeout also starts the count of fruitless vsyncs again.
VsyncTimeoutForgets ==
  /\ Waits /\ trouble
  /\ timeoutCount' = IF timeoutCount = TimeoutLimit THEN TimeoutLimit ELSE timeoutCount + 1
  /\ IF timeoutCount' = TimeoutLimit THEN Raise("VOSPI") ELSE NoFaultChange
  /\ Sleep("TIMEOUT") /\ vsyncCount' = 0
  /\ UNCHANGED <<taskState, bufIndex, syncFails, resetFails, envVars>>

\* wait_for_vsync times out.  At the limit the fault is set again and again.
VsyncTimeout ==
  /\ Waits /\ trouble
  /\ timeoutCount' = IF timeoutCount = TimeoutLimit THEN TimeoutLimit ELSE timeoutCount + 1
  /\ IF timeoutCount' = TimeoutLimit THEN Raise("VOSPI") ELSE NoFaultChange
  /\ Sleep("TIMEOUT")
  /\ UNCHANGED <<taskState, bufIndex, vsyncCount, syncFails, resetFails, envVars>>

\* An image ends the trouble: does its fault have to be cleared?
ClearsFault == syncFails >= SyncFailLimit

\* Plausible bug: rsp_buf_index is set, and never set back.
OtherHalfOnce == 1

OtherHalf == 1 - bufIndex

\* A vsync whose segment completes an image.
Image ==
  /\ Waits
  /\ bufIndex' = OtherHalf
  /\ IF ClearsFault THEN Clear ELSE NoFaultChange
  /\ vsyncCount' = 0 /\ timeoutCount' = 0 /\ syncFails' = 0 /\ resetFails' = 0
  /\ Sleep("IMAGE") /\ dry' = 0
  /\ UNCHANGED <<taskState, trouble>>

\* A vsync whose segment does not.
NoImage ==
  /\ Waits
  /\ trouble \/ dry < ImageWithin
  /\ timeoutCount' = 0
  /\ IF vsyncCount + 1 = ResyncVsyncs
     THEN vsyncCount' = 0 /\ Sleep("RESYNC")
     ELSE vsyncCount' = vsyncCount + 1 /\ Sleep("NO")
  /\ dry' = IF trouble THEN 0 ELSE dry + 1
  /\ UNCHANGED <<taskState, bufIndex, syncFails, resetFails, trouble>>
  /\ NoFaultChange

\* The limit is reached: reset, or, if that was done before, wait for long.
ResetOrWait ==
  /\ Raise("SYNC")
  /\ IF resetFails = 0
     THEN taskState' = "RE_INIT" /\ UNCHANGED resetFails
     ELSE taskState' = "ERROR" /\ resetFails' = RetrySecs

\* The pause of a resynchronisation is over: if (sync_fail_count++ == LIMIT) ...
WakeResync ==
  /\ asleep = "RESYNC"
  /\ Sleep("NO") /\ dry' = 0
  /\ syncFails' = IF syncFails > SyncFailLimit THEN syncFails ELSE syncFails + 1
  /\ IF syncFails = SyncFailLimit
     THEN ResetOrWait
     ELSE UNCHANGED <<taskState, resetFails>> /\ NoFaultChange
  /\ UNCHANGED <<bufIndex, vsyncCount, timeoutCount, trouble>>

\* The other pauses do nothing but pass.
Wake ==
  /\ asleep \in {"IMAGE", "TIMEOUT"}
  /\ Sleep("NO") /\ dry' = 0
  /\ UNCHANGED <<taskState, bufIndex, countVars, trouble>> /\ NoFaultChange

TroubleEnds ==
  /\ trouble /\ trouble' = FALSE
  /\ UNCHANGED <<taskVars, countVars, ctrlVars, faultVars, dry>>

\* app_main tells ctrl_task that start-up is done just before it creates lep_task.
Init ==
  /\ taskState = "START" /\ asleep = "NO" /\ bufIndex = 0
  /\ vsyncCount = 0 /\ timeoutCount = 0 /\ syncFails = 0 /\ resetFails = 0
  /\ fault = "NONE" /\ note = {"STARTUP_DONE"} /\ overlapping = FALSE
  /\ ctrlState = "STARTUP" /\ preState = "STARTUP"
  /\ trouble \in BOOLEAN /\ dry = 0

Running == InitLepton \/ ReInitLepton \/ ErrorWait \/ WakeResync \/ Wake
           \/ VsyncTimeout \/ Image \/ NoImage

Next == Start \/ Running \/ CtrlTask \/ TroubleEnds

Spec == Init /\ [][Next]_vars

\* Both tasks go on: lep_task is never blocked for longer than its time out.
FairSpec == Spec /\ WF_vars(Start) /\ WF_vars(Running) /\ WF_vars(CtrlTask)

-----------------------------------------------------------------------------
(* Properties *)

\* The counters stay within what they are compared with; the timer of the error
\* state is running, and no pause is left pending outside of the loop that took it.
TypeOK ==
  /\ taskState \in {"START", "NO_CCI", "NO_VOSPI", "INIT", "RUN", "RE_INIT", "ERROR"}
  /\ asleep \in {"NO", "IMAGE", "RESYNC", "TIMEOUT"} /\ bufIndex \in 0 .. 1
  /\ vsyncCount \in 0 .. ResyncVsyncs - 1 /\ timeoutCount \in 0 .. TimeoutLimit
  /\ syncFails \in 0 .. SyncFailLimit + 1 /\ resetFails \in 0 .. RetrySecs
  /\ fault \in {"NONE"} \union Faults
  /\ note \subseteq {"STARTUP_DONE", "FAULT", "FAULT_CLEAR"}
  /\ {ctrlState, preState} \subseteq {"STARTUP", "READY", "FAULT"}
  /\ trouble \in BOOLEAN /\ dry \in 0 .. ImageWithin /\ overlapping \in BOOLEAN
  /\ taskState = "ERROR" => resetFails > 0
  /\ asleep # "NO" => taskState = "RUN"

\* The sensor is never reset, nor waited for, without a fault the user can see.
NeverResetSilently == taskState \in {"RE_INIT", "ERROR"} => fault # "NONE"

\* An image leaves no synchronisation fault behind, whatever has happened between
\* the failure and the image: resets, failed initialisations, time outs.
SyncFaultCleared == [][bufIndex' # bufIndex => fault' # "SYNC"]_vars

\* As long as ctrl_task dealt with each report before the next one, and nothing was
\* cleared that was not set, it shows a fault exactly while there is one.
FaultSettles ==
  note = {} /\ ~overlapping => ctrlState = IF fault = "NONE" THEN "READY" ELSE "FAULT"

\* "Only a burst that never ends indicates a real problem, and that case escalates to
\* a fault": if no image comes any more a fault is set for good, whatever mixture of
\* time outs, empty vsyncs and failed initialisations is the reason.
NoImageNoSilence ==
  <>[][bufIndex' = bufIndex]_vars => <>[](fault # "NONE" \/ taskState = "NO_CCI")

\* Once nothing is wrong any more images come again, in both halves of the buffer,
\* whatever the counters have come to by then.
FramesFlow ==
  <>~trouble =>
    \/ <>(taskState \in {"NO_CCI", "NO_VOSPI"})
    \/ []<>(bufIndex = 0) /\ []<>(bufIndex = 1)
=============================================================================
