---------------------------- MODULE LeptonProofs ----------------------------
(***************************************************************************)
(* Proofs about lep_task and the VoSPI driver it reads segments with.       *)
(*                                                                         *)
(* LepTask, for all values of its limits.  The invariant has two halves     *)
(* that meet in fault: FaultInv says what may be pending for ctrl_task as   *)
(* long as reports do not overlap, TaskInv what the counters of lep_task    *)
(* know about the fault that was set.                                       *)
(*                                                                         *)
(* Vospi, for every length of the gap.  The invariant says where the sensor *)
(* is, given how long ago the driver accepted a segment 1: within the same  *)
(* image age tells the phase, and a sensor that offers the next image is at *)
(* least a period further.  The driver's place cannot be ahead of the       *)
(* sensor's, and it is level with it only while nothing was lost.           *)
(***************************************************************************)
EXTENDS LepTask, Vospi, TLAPS

-----------------------------------------------------------------------------
(* LepTask *)

\* What ctrl_task has been told and has not dealt with yet.
FaultTypes ==
  /\ fault \in {"NONE"} \union Faults
  /\ note \subseteq {"STARTUP_DONE", "FAULT", "FAULT_CLEAR"}
  /\ ctrlState \in {"STARTUP", "READY", "FAULT"}
  /\ preState \in {"STARTUP", "READY", "FAULT"}
  /\ overlapping \in BOOLEAN

\* While every report is dealt with before the next one, what is pending is one
\* report, and the state saved for a fault is the one without.
OneReport == ~overlapping =>
  /\ note \in {{}, {"STARTUP_DONE"}, {"FAULT"}, {"FAULT_CLEAR"}}
  /\ note = {"STARTUP_DONE"} => fault = "NONE" /\ ctrlState = "STARTUP"
  /\ note = {"FAULT"} => fault # "NONE"
  /\ note = {"FAULT_CLEAR"} => fault = "NONE" /\ preState = "READY"
  /\ fault # "NONE" => preState = "READY"

FaultInv == FaultTypes /\ OneReport /\ FaultSettles

\* The counters of lep_task stay within the limits that act on them.
TaskTypes ==
  /\ taskState \in {"START", "NO_CCI", "NO_VOSPI", "INIT", "RUN", "RE_INIT", "ERROR"}
  /\ asleep \in {"NO", "IMAGE", "RESYNC", "TIMEOUT"} /\ bufIndex \in 0 .. 1
  /\ vsyncCount \in 0 .. ResyncVsyncs - 1 /\ timeoutCount \in 0 .. TimeoutLimit
  /\ syncFails \in 0 .. SyncFailLimit + 1 /\ resetFails \in 0 .. RetrySecs
  /\ dry \in 0 .. ImageWithin
  /\ taskState = "ERROR" => resetFails > 0
  /\ asleep # "NO" => taskState = "RUN"

\* A synchronisation fault is remembered by the count that will clear it.
SyncCounted == fault = "SYNC" => syncFails > SyncFailLimit

TaskInv == TaskTypes /\ trouble \in BOOLEAN /\ NeverResetSilently /\ SyncCounted

Kept == FaultInv /\ TaskInv

-----------------------------------------------------------------------------
(* The faults *)

USE DEF Faults, ctrlVars, faultVars

LEMMA RaiseKept == ASSUME FaultInv, NEW f \in Faults, Raise(f) PROVE FaultInv' /\ fault' = f
<1> USE DEF FaultInv, Raise
<1>1. FaultTypes'
  BY DEF FaultTypes
<1>2. OneReport'
  <2>1. ~overlapping' => ~overlapping /\ note = {} /\ ctrlState = "READY"
    BY Zenon
  <2> QED BY <2>1 DEF FaultTypes, OneReport
<1>3. FaultSettles'
  BY DEF FaultTypes, FaultSettles
<1> QED BY <1>1, <1>2, <1>3

LEMMA ClearKept == ASSUME FaultInv, Clear PROVE FaultInv' /\ fault' = "NONE"
<1> USE DEF FaultInv, Clear
<1>1. FaultTypes'
  BY DEF FaultTypes
<1>2. OneReport'
  <2>1. ~overlapping' => ~overlapping /\ note = {} /\ fault # "NONE"
    BY Zenon
  <2> QED BY <2>1 DEF OneReport
<1>3. FaultSettles'
  BY DEF FaultTypes, FaultSettles
<1> QED BY <1>1, <1>2, <1>3

LEMMA QuietKept == ASSUME FaultInv, NoFaultChange PROVE FaultInv' /\ fault' = fault
  BY DEF FaultInv, FaultTypes, OneReport, FaultSettles, NoFaultChange

\* ctrl_task finds one report, and answers it as FaultSettles says.
LEMMA CtrlTaskKept == ASSUME Kept, CtrlTask PROVE Kept'
<1> USE DEF Kept, CtrlTask, FaultInv
<1>1. TaskInv'
  BY DEF TaskInv, TaskTypes, NeverResetSilently, SyncCounted, taskVars, countVars,
     envVars
<1>2. FaultTypes'
  BY DEF FaultTypes
<1>3. OneReport'
  BY DEF OneReport, FaultTypes
<1>4. FaultSettles'
  <2>1. CASE note = {"STARTUP_DONE"}
    BY <2>1 DEF OneReport, FaultTypes, FaultSettles
  <2>2. CASE note = {"FAULT"}
    BY <2>2 DEF OneReport, FaultTypes, FaultSettles
  <2>3. CASE note = {"FAULT_CLEAR"}
    BY <2>3 DEF OneReport, FaultTypes, FaultSettles
  <2> QED BY <2>1, <2>2, <2>3 DEF OneReport, FaultTypes, FaultSettles
<1> QED BY <1>1, <1>2, <1>3, <1>4

-----------------------------------------------------------------------------
(* lep_task: each action keeps its counters, and touches the fault in one of the *)
(* three ways above                                                              *)

USE LimitsAssumption DEF LimitsAssumption, taskVars, countVars, envVars, Sleep, Waits,
    Kept, TaskInv, TaskTypes, NeverResetSilently, SyncCounted

LEMMA StartKept == ASSUME Kept, Start PROVE Kept'
<1>1. CASE NoFaultChange
  BY <1>1, QuietKept DEF Start
<1>2. CASE Raise("VOSPI") /\ taskState' = "NO_VOSPI"
  BY <1>2, RaiseKept DEF Start
<1> QED BY <1>1, <1>2 DEF Start

LEMMA InitLeptonKept == ASSUME Kept, InitLepton PROVE Kept'
<1>1. CASE NoFaultChange /\ taskState' = "RUN"
  BY <1>1, QuietKept DEF InitLepton, InitFailed
<1>2. CASE InitFailed
  BY <1>2, RaiseKept DEF InitLepton, InitFailed
<1> QED BY <1>1, <1>2 DEF InitLepton

LEMMA ReInitLeptonKept == ASSUME Kept, ReInitLepton PROVE Kept'
<1>1. CASE NoFaultChange /\ taskState' = "RUN"
  BY <1>1, QuietKept DEF ReInitLepton, InitFailed
<1>2. CASE InitFailed
  BY <1>2, RaiseKept DEF ReInitLepton, InitFailed
<1> QED BY <1>1, <1>2 DEF ReInitLepton

LEMMA ErrorWaitKept == ASSUME Kept, ErrorWait PROVE Kept'
  BY QuietKept DEF ErrorWait

LEMMA VsyncTimeoutKept == ASSUME Kept, VsyncTimeout PROVE Kept'
<1>1. CASE NoFaultChange
  BY <1>1, QuietKept DEF VsyncTimeout
<1>2. CASE Raise("VOSPI")
  BY <1>2, RaiseKept DEF VsyncTimeout
<1> QED BY <1>1, <1>2 DEF VsyncTimeout

\* If the image does not clear the fault, the count says that it is not one of
\* synchronisation.
LEMMA ImageKept == ASSUME Kept, Image PROVE Kept' /\ fault' # "SYNC"
<1>1. CASE ClearsFault
  BY <1>1, ClearKept DEF Image, OtherHalf
<1>2. CASE ~ClearsFault
  BY <1>2, QuietKept DEF Image, OtherHalf, ClearsFault
<1> QED BY <1>1, <1>2

LEMMA NoImageKept == ASSUME Kept, NoImage PROVE Kept'
  BY QuietKept DEF NoImage

LEMMA WakeResyncKept == ASSUME Kept, WakeResync PROVE Kept'
<1>1. CASE syncFails = SyncFailLimit
  BY <1>1, RaiseKept DEF WakeResync, ResetOrWait
<1>2. CASE syncFails # SyncFailLimit
  BY <1>2, QuietKept DEF WakeResync
<1> QED BY <1>1, <1>2

LEMMA RestKept == ASSUME Kept, Wake \/ TroubleEnds \/ UNCHANGED vars PROVE Kept'
<1>1. FaultInv'
  <2>1. NoFaultChange
    BY DEF Wake, TroubleEnds, NoFaultChange, vars
  <2> QED BY <2>1, QuietKept
<1>2. CASE Wake
  BY <1>1, <1>2, QuietKept DEF Wake
<1>3. CASE TroubleEnds
  BY <1>1, <1>3 DEF TroubleEnds
<1>4. CASE UNCHANGED vars
  BY <1>1, <1>4 DEF vars
<1> QED BY <1>2, <1>3, <1>4

LEMMA InitKept == ASSUME Init PROVE Kept
<1>1. FaultInv
  BY DEF Init, FaultInv, FaultTypes, OneReport, FaultSettles
<1>2. TaskTypes /\ fault = "NONE" /\ taskState = "START"
  BY DEF Init
<1>3. trouble \in BOOLEAN
  BY DEF Init
<1> QED BY <1>1, <1>2, <1>3

-----------------------------------------------------------------------------
THEOREM Invariance == Spec => []Kept
<1>1. Kept /\ [Next]_vars => Kept'
  BY CtrlTaskKept, StartKept, InitLeptonKept, ReInitLeptonKept, ErrorWaitKept,
     VsyncTimeoutKept, ImageKept, NoImageKept, WakeResyncKept, RestKept, Zenon DEF Next, Running
<1> QED BY <1>1, InitKept, PTL DEF Spec

\* The counters and the timer of the error state stay in range, whatever the limits.
THEOREM TypeCorrect == Spec => []TypeOK
<1>1. Kept => TypeOK
  BY DEF FaultInv, FaultTypes, TypeOK
<1> QED BY <1>1, Invariance, PTL

\* A sensor that is being reset, or waited for, has a fault the user can see.
THEOREM ResetsShown == Spec => []NeverResetSilently
<1>1. Kept => NeverResetSilently
  OBVIOUS
<1> QED BY <1>1, Invariance, PTL

\* ctrl_task and the fault agree as long as reports do not overlap.
THEOREM ReportsSettle == Spec => []FaultSettles
<1>1. Kept => FaultSettles
  BY DEF FaultInv
<1> QED BY <1>1, Invariance, PTL

\* No image leaves a synchronisation fault behind.
THEOREM ImageClears == Spec => SyncFaultCleared
<1>1. Kept /\ [Next]_vars => [bufIndex' # bufIndex => fault' # "SYNC"]_vars
  <2> SUFFICES ASSUME Kept, [Next]_vars, bufIndex' # bufIndex PROVE fault' # "SYNC"
    OBVIOUS
  <2>1. Image
    BY DEF Next, Running, Start, InitLepton, ReInitLepton, ErrorWait, VsyncTimeout,
       NoImage,
           WakeResync, Wake, CtrlTask, TroubleEnds, vars
  <2> QED BY <2>1, ImageKept
<1> QED BY <1>1, Invariance, PTL DEF Spec, SyncFaultCleared

-----------------------------------------------------------------------------
(* Vospi *)

\* The phase, given the vsyncs since segment 1 was accepted.
SamePeriod == validSegmentRegion =>
  /\ age >= 1
  /\ age < 4 => phase = age
  /\ age >= 4 => age >= AtMost(MaxAge, IF phase < 4 THEN Period + phase ELSE phase)

\* The driver is never ahead, and level with the sensor only if it lost nothing.
NeverAhead == validSegmentRegion /\ ~tailed /\ age < 4 =>
  /\ curSegment <= age + 1
  /\ curSegment = age + 1 => faithful

VospiKept == VospiTypeOK /\ SamePeriod /\ NeverAhead

USE GapAssumption DEF GapAssumption, Period, MaxAge, MaxClean, AtMost, Reads, Whole,
   Tail, Head, Nothing

\* The driver is in a sensible state at the beginning.
LEMMA VospiInitKept == ASSUME VospiInit PROVE VospiKept
<1> USE DEF VospiInit
<1>1. VospiTypeOK
  <2>1. /\ phase \in 0 .. Period - 1 /\ curSegment \in 1 .. 4 /\ images \in 0 .. 1
        /\ age \in 0 .. MaxAge /\ clean \in 0 .. MaxClean /\ curSegment = 1
    OBVIOUS
  <2>2. validSegmentRegion \in BOOLEAN /\ faithful \in BOOLEAN /\ tailed \in BOOLEAN
    BY Zenon
  <2> QED BY <2>1, <2>2, Zenon DEF VospiTypeOK
<1>2. SamePeriod /\ NeverAhead
  BY Zenon DEF SamePeriod, NeverAhead
<1> QED BY <1>1, <1>2 DEF VospiKept

\* A vsync without a read only makes age grow with phase.
LEMMA MissedKept == ASSUME VospiKept, Missed \/ Stall PROVE VospiKept'
<1> USE DEF VospiKept, VospiTypeOK, Missed, Stall, NextPhase, driverVars, sensorVars
<1>1. VospiTypeOK'
  <2>1. /\ phase' \in 0 .. Period - 1 /\ curSegment' \in 1 .. 4 /\ images' \in 0 .. 1
        /\ age' \in 0 .. MaxAge /\ clean' \in 0 .. MaxClean
        /\ ~validSegmentRegion' => curSegment' = 1
    OBVIOUS
  <2>2. validSegmentRegion' \in BOOLEAN /\ faithful' \in BOOLEAN /\ tailed' \in BOOLEAN
    BY Zenon
  <2> QED BY <2>1, <2>2, Zenon
<1>2. SamePeriod'
  <2>1. CASE Missed
    BY <2>1 DEF SamePeriod
  <2>2. CASE Stall
    BY <2>2 DEF SamePeriod
  <2> QED BY <2>1, <2>2
<1>3. NeverAhead'
  <2>1. CASE Missed
    BY <2>1 DEF SamePeriod, NeverAhead
  <2>2. CASE Stall
    BY <2>2 DEF SamePeriod, NeverAhead
  <2> QED BY <2>1, <2>2
<1> QED BY <1>1, <1>2, <1>3

\* A read: packet 20 of the next image gives up what was begun, and inside one image
\* every read that moves the driver on moves the sensor as far.
LEMMA AcquireKept == ASSUME VospiKept, NEW read \in Reads, Acquire(read) PROVE VospiKept'
<1> USE DEF VospiKept, VospiTypeOK, SamePeriod, NeverAhead, Acquire, Transfer,
   NextPhase, Offered,
        Line20, Starts, GivesUp, ValidAfter, Advances, Completes, LastSegment, Fits
<1>1. VospiTypeOK'
  <2>1. /\ phase' \in 0 .. Period - 1 /\ curSegment' \in 1 .. 4 /\ images' \in 0 .. 1
        /\ ~validSegmentRegion' => curSegment' = 1
    OBVIOUS
  <2>2. age' \in 0 .. MaxAge /\ clean' \in 0 .. MaxClean
    OBVIOUS
  <2>3. validSegmentRegion' \in BOOLEAN /\ faithful' \in BOOLEAN /\ tailed' \in BOOLEAN
    BY Zenon
  <2> QED BY <2>1, <2>2, <2>3, Zenon
<1>2. SamePeriod'
  OBVIOUS
<1>3. NeverAhead'
  OBVIOUS
<1> QED BY <1>1, <1>2, <1>3

THEOREM VospiInvariance == VospiSpec => []VospiKept
<1>1. VospiKept /\ [VospiNext]_vospiVars => VospiKept'
  <2>1. VospiKept /\ UNCHANGED vospiVars => VospiKept'
    BY DEF VospiKept, VospiTypeOK, SamePeriod, NeverAhead, vospiVars, sensorVars,
       driverVars, seenVars
  <2> QED BY <2>1, MissedKept, AcquireKept DEF VospiNext
<1> QED BY <1>1, VospiInitKept, PTL DEF VospiSpec

\* The driver's variables have their types, and it holds a place only inside an image.
THEOREM VospiTypeCorrect == VospiSpec => []VospiTypeOK
<1>1. VospiKept => VospiTypeOK
  BY DEF VospiKept
<1> QED BY <1>1, VospiInvariance, PTL

\* When the driver completes an image it was level with the sensor inside one image,
\* or so far behind that the sensor is in the next one.
LEMMA CompletedWhole ==
  ASSUME VospiKept, NEW read \in Reads, Acquire(read), images' # images
  PROVE  faithful' \/ tailed' \/ age' >= Period + 2
<1>1. Line20(read, Offered(phase)).valid /\ Line20(read, Offered(phase)).place = 4
      /\ read.hasLast
  BY DEF VospiKept, VospiTypeOK, Acquire, Transfer, Completes, LastSegment, Line20
<1>2. validSegmentRegion /\ curSegment = 4 /\ ~Starts(Offered(phase))
  BY <1>1 DEF VospiKept, VospiTypeOK, Line20, Starts, GivesUp, ValidAfter, Offered
<1>3. CASE tailed \/ read = Tail
  BY <1>2, <1>3 DEF Acquire, Transfer
<1>4. CASE ~tailed /\ read = Whole
  <2>1. Offered(phase) \in 2 .. 4
    BY <1>1, <1>2, <1>4 DEF Line20, ValidAfter, Starts
  <2>2. phase \in 1 .. 3
    BY <2>1 DEF VospiKept, VospiTypeOK, Offered
  <2>3. CASE age < 4
    BY <1>1, <1>2, <1>4, <2>2, <2>3
       DEF VospiKept, VospiTypeOK, SamePeriod, NeverAhead, Acquire, Transfer, Fits, Offered
  <2>4. CASE age >= 4
    BY <1>1, <1>2, <2>2, <2>4 DEF VospiKept, VospiTypeOK, SamePeriod, Acquire, Transfer
  <2> QED BY <2>3, <2>4 DEF VospiKept, VospiTypeOK
<1> QED BY <1>1, <1>3, <1>4

\* Whatever the sensor's gap, an image that is reported is one image of the sensor,
\* unless a segment was joined late or reading it took a period and two vsyncs.
THEOREM ImagesWhole == VospiSpec => WholeImage
<1>1. VospiKept /\ [VospiNext]_vospiVars
      => [images' # images => faithful' \/ tailed' \/ age' >= Period + 2]_vospiVars
  BY CompletedWhole DEF VospiNext, Missed, Stall, driverVars, vospiVars
<1> QED BY <1>1, VospiInvariance, PTL DEF VospiSpec, WholeImage

-----------------------------------------------------------------------------
\* Vsyncs to go until the image, if all segments are read whole from here on: to the
\* end of the one that was begun if it can still be completed, or else to the end of
\* the next, or of the one after it if segment 1 comes while one is begun.
ToGo ==
  IF ~validSegmentRegion /\ phase = 0 THEN 4
  ELSE IF validSegmentRegion /\ phase = 0 THEN Gap + 8
  ELSE IF validSegmentRegion /\ phase < 4 /\ curSegment > phase THEN 5 - curSegment
  ELSE Period - phase + 4

Nearer == clean + ToGo <= Gap + 8

\* Every whole read brings the image nearer; every other one starts the count again.
LEMMA NearerKept == ASSUME VospiKept, Nearer, [VospiNext]_vospiVars PROVE Nearer'
<1> USE DEF VospiKept, VospiTypeOK, Nearer, ToGo
<1>1. CASE Missed
  BY <1>1 DEF Missed, NextPhase, driverVars
<1>2. CASE Stall
  BY <1>2 DEF Stall, sensorVars, driverVars
<1>3. ASSUME NEW read \in Reads, Acquire(read) PROVE Nearer'
  <2> USE <1>3 DEF Acquire, Transfer, NextPhase, Offered, Starts, GivesUp,
          ValidAfter, Advances, Completes, LastSegment
  <2>1. CASE read = Whole
    <3>1. read.has20 /\ read.hasLast
      BY <2>1
    <3>2. Line20(read, Offered(phase)).valid <=> ValidAfter(Offered(phase))
      BY <3>1 DEF Line20
    <3>3. Line20(read, Offered(phase)).place
            = IF GivesUp(Offered(phase)) THEN 1 ELSE curSegment
      BY <3>1 DEF Line20
    <3>4. validSegmentRegion' <=> /\ Line20(read, Offered(phase)).valid
                                  /\ ~Completes(read, Line20(read, Offered(phase)))
      BY <1>3, Zenon DEF Acquire, Transfer
    <3> USE <2>1, <3>1, <3>2, <3>3, <3>4
    <3>5. CASE ~validSegmentRegion
      <4>1. CASE phase = 0
        BY <3>5, <4>1
      <4>2. CASE phase # 0
        BY <3>5, <4>2
      <4> QED BY <4>1, <4>2
    <3>6. CASE validSegmentRegion /\ phase \notin 1 .. 3
      BY <3>6
    <3>7. CASE validSegmentRegion /\ phase \in 1 .. 3
      <4>1. CASE curSegment = 4
        BY <3>7, <4>1
      <4>2. CASE curSegment < 4
        BY <3>7, <4>2
      <4> QED BY <4>1, <4>2
    <3> QED BY <3>5, <3>6, <3>7
  <2>2. CASE read # Whole
    BY <2>2
  <2> QED BY <2>1, <2>2
<1>4. CASE UNCHANGED vospiVars
  BY <1>4 DEF vospiVars, sensorVars, driverVars, seenVars
<1> QED BY <1>1, <1>2, <1>3, <1>4 DEF VospiNext

\* Gap + 8 whole reads in a row always end in an image.
THEOREM ImageComes == VospiSpec => []ImageSoon
<1>1. VospiInit => Nearer
  BY DEF VospiInit, Nearer, ToGo
<1>2. VospiKept /\ Nearer /\ [VospiNext]_vospiVars => Nearer'
  BY NearerKept
<1>3. VospiKept /\ Nearer => ImageSoon
  BY DEF VospiKept, VospiTypeOK, Nearer, ToGo, ImageSoon
<1> QED BY <1>1, <1>2, <1>3, VospiInvariance, PTL DEF VospiSpec
=============================================================================
