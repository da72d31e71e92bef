-------------------------------- MODULE Vospi --------------------------------
(***************************************************************************)
(* How components/lepton/vospi.c puts an image together.                    *)
(*                                                                         *)
(* At every vsync the sensor offers a segment: the segments 1 to 4 of an    *)
(* image, then Gap segments without one (number 0), and so on.  After a     *)
(* vsync lep_task reads the packets of the segment that is offered.  The    *)
(* number is in packet 20 alone, and the driver looks at it only to start   *)
(* and to give up: that the segment it stores at curSegment is the segment  *)
(* curSegment of the image it began is nowhere compared.                    *)
(*                                                                         *)
(* A read is classed by the packets it caught: packet 20 or not, the last   *)
(* one or not.  Telemetry lengthens a segment and is stored beside it; it   *)
(* changes nothing else and is left out.                                    *)
(***************************************************************************)
EXTENDS Naturals

CONSTANT Gap  \* vsyncs without an image between two images, at least

ASSUME GapAssumption == Gap \in Nat \ {0}

VARIABLES
  phase,               \* what the sensor offers next: see Offered
  curSegment,          \* curSegment
  validSegmentRegion,  \* validSegmentRegion
  images,              \* images returned by vospi_transfer_segment, modulo 2
  age,                 \* history: vsyncs since segment 1 was accepted, up to MaxAge
  faithful,            \* history: what is stored is segments 1 .. curSegment-1
                       \*   of the image that was begun, each of them whole
  tailed,              \* history: one of them was read from behind packet 20 on
  clean                \* history: whole segments read one after the other
                       \*   without an image coming out, up to MaxClean

sensorVars == phase
driverVars == <<curSegment, validSegmentRegion, images>>
seenVars   == <<age, faithful, tailed, clean>>
vospiVars  == <<sensorVars, driverVars, seenVars>>

Period   == Gap + 4
MaxAge   == Gap + 6
MaxClean == Gap + 9
AtMost(max, n) == IF n > max THEN max ELSE n

\* The segment number the sensor offers in phase p.
Offered(p) == IF p < 4 THEN p + 1 ELSE 0

\* A read, by the packets caught: all; those behind packet 20; those up to some
\* packet between 20 and the last; neither packet 20 nor the last.
Whole   == [has20 |-> TRUE,  hasLast |-> TRUE]
Tail    == [has20 |-> FALSE, hasLast |-> TRUE]
Head    == [has20 |-> TRUE,  hasLast |-> FALSE]
Nothing == [has20 |-> FALSE, hasLast |-> FALSE]
Reads   == {Whole, Tail, Head, Nothing}

-----------------------------------------------------------------------------
\* Packet 20: segment 1 starts an image, segments 2 to 4 continue one, and any
\* other number gives up the one that was begun.
Starts(seg)  == ~validSegmentRegion /\ seg = 1
GivesUp(seg) == validSegmentRegion /\ seg \notin 2 .. 4
ValidAfter(seg) == Starts(seg) \/ (validSegmentRegion /\ seg \in 2 .. 4)

\* Plausible bug: giving up forgets to go back to the first place.
Line20KeepsPlace(read, seg) ==
  [valid |-> IF read.has20 THEN ValidAfter(seg) ELSE validSegmentRegion,
   place |-> curSegment]

\* validSegmentRegion and curSegment when the last packet comes.
Line20(read, seg) ==
  [valid |-> IF read.has20 THEN ValidAfter(seg) ELSE validSegmentRegion,
   place |-> IF read.has20 /\ GivesUp(seg) THEN 1 ELSE curSegment]

\* Plausible bug: the last segment is one too late.
LastSegmentLate == 5

LastSegment == 4

\* The last packet of a segment moves on, or completes the image.
Advances(read, at)  == read.hasLast /\ at.valid /\ at.place < LastSegment
Completes(read, at) == read.hasLast /\ at.valid /\ at.place >= LastSegment

\* The place at.place of the buffer holds what it should: that segment, whole, of
\* the image whose segment 1 came `since` vsyncs ago.
Fits(read, seg, at, since) == read = Whole /\ seg = at.place /\ since = seg - 1

\* vospi_transfer_segment(), called at the vsync that offers `phase`.
Transfer(read) ==
  LET seg   == Offered(phase)
      at    == Line20(read, seg)
      begun == read.has20 /\ Starts(seg)
      since == IF begun THEN 0 ELSE age
  IN /\ curSegment' = IF Completes(read, at) THEN 1
                      ELSE IF Advances(read, at) THEN at.place + 1 ELSE at.place
     /\ validSegmentRegion' = (at.valid /\ ~Completes(read, at))
     /\ images' = IF Completes(read, at) THEN 1 - images ELSE images
     /\ age' = IF at.valid THEN AtMost(MaxAge, since + 1) ELSE 0
     /\ faithful' = ((begun \/ faithful)
                      /\ (read.hasLast /\ at.valid => Fits(read, seg, at, since)))
     /\ tailed' = (~begun /\ (tailed \/ read = Tail))
     /\ clean' = IF read = Whole /\ ~Completes(read, at)
                 THEN AtMost(MaxClean, clean + 1) ELSE 0

NextPhase == phase' = IF phase = Period - 1 THEN 0 ELSE phase + 1

\* A vsync at which lep_task waits: it reads the segment.
Acquire(read) == Transfer(read) /\ NextPhase

\* A vsync while lep_task is busy or asleep: wait_for_vsync throws it away.
Missed ==
  /\ NextPhase
  /\ age' = IF validSegmentRegion THEN AtMost(MaxAge, age + 1) ELSE age
  /\ clean' = 0
  /\ UNCHANGED <<driverVars, faithful, tailed>>

\* The sensor is slow to offer the next image (flat field correction): one more
\* vsync of the gap, read or not.
Stall ==
  /\ phase = 4
  /\ age' = IF validSegmentRegion THEN AtMost(MaxAge, age + 1) ELSE age
  /\ clean' = 0
  /\ UNCHANGED <<sensorVars, driverVars, faithful, tailed>>

VospiInit ==
  /\ phase \in 0 .. Period - 1
  /\ curSegment = 1 /\ validSegmentRegion = FALSE /\ images = 0
  /\ age = 0 /\ faithful = FALSE /\ tailed = FALSE /\ clean = 0

VospiNext == Missed \/ Stall \/ \E read \in Reads : Acquire(read)

VospiSpec == VospiInit /\ [][VospiNext]_vospiVars

-----------------------------------------------------------------------------
(* Properties *)

\* The driver holds a place only while it is inside an image: curSegment is 1
\* whenever validSegmentRegion is false, and is never past the last segment.
VospiTypeOK ==
  /\ phase \in 0 .. Period - 1
  /\ curSegment \in 1 .. 4 /\ validSegmentRegion \in BOOLEAN /\ images \in 0 .. 1
  /\ (~validSegmentRegion => curSegment = 1)
  /\ age \in 0 .. MaxAge /\ clean \in 0 .. MaxClean
  /\ faithful \in BOOLEAN /\ tailed \in BOOLEAN

\* An image that vospi_transfer_segment reports is made of the four segments of
\* one image of the sensor in their places, although their numbers are not
\* compared, unless a segment was joined behind packet 20 or the image took more
\* than a period and a vsync: losing fewer vsyncs than that is always noticed.
WholeImage ==
  [][images' # images => faithful' \/ tailed' \/ age' >= Period + 2]_vospiVars

\* From any state of the driver and any phase of the sensor, Gap + 8 segments read
\* whole in a row yield an image.  lep_task resynchronises after 36 vsyncs without
\* one ("we give the lepton extra frame periods"), which is more.
ImageSoon == clean < Gap + 8
=============================================================================
