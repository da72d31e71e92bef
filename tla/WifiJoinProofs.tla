--------------------------- MODULE WifiJoinProofs ---------------------------
(***************************************************************************)
(* Proofs about WifiJoin, for all networks and all bounds.                 *)
(*                                                                         *)
(* The queue of events is what ties sta_connected to the driver: behind    *)
(* every announced address that is gone its loss is queued (Known).  What  *)
(* wifi_reinit and the hold of a scan leave at rest stays at rest, since   *)
(* only a task that has passed its checks can start anything (Peaceful).   *)
(***************************************************************************)
EXTENDS WifiJoin, TLAPS

USE NoNetIsNone, NetsAreNoPlaces, BoundsAreNat

Events == {"start", "scan", "disc", "ip"}
Drivers == [on : BOOLEAN, ap : BOOLEAN, sta : {"down", "dialing", "linked", "addressed"},
            net : Nets \cup {NoNet}, scan : {"none", "join", "web"}, recs : SUBSET Nets]

\* An address that is announced is there, or its loss is announced behind it.
Promised(q) == \E i \in 1..Len(q) : q[i] = "disc"
Answered(q, sta) ==
  \A i \in 1..Len(q) : q[i] = "ip" =>
    sta = "addressed" \/ \E j \in 1..Len(q) : j > i /\ q[j] = "disc"
Known(u, q, sta) == Answered(q, sta) /\ (u => sta = "addressed" \/ Promised(q))

Idle == ev = "idle" /\ tm = "idle" /\ ~active
Down == conf \in {"stopped", "cleared"}

\* A chosen network has been dialed, or is about to be.
Aimed == target => ev \in Nets \/ drv.net \in Nets

\* Under the hold of a scan nothing is under way either.
Respected == hold /\ ~late => ~timer /\ Idle

PoweredDown == drv.on <=> ~Down

\* In access point mode, and between stop and start, nothing is under way.
Quiet == ~crossed /\ (~client \/ Down) => Idle /\ ~fb

Flags ==
  /\ client \in BOOLEAN /\ timer \in BOOLEAN /\ hold \in BOOLEAN /\ active \in BOOLEAN
  /\ target \in BOOLEAN /\ fb \in BOOLEAN /\ up \in BOOLEAN
  /\ late \in BOOLEAN /\ lost \in BOOLEAN /\ crossed \in BOOLEAN
Networks == saved \in SUBSET Nets /\ list \in SUBSET Nets /\ air \in SUBSET Nets
Wire == drv \in Drivers /\ queue \in Seq(Events)
Placed ==
  /\ retry \in 0..MaxRetry /\ ev \in Places \cup {"choose"} \cup Nets /\ tm \in Places
  /\ web \in {"idle", "try", "retry", "busy", "end"}
  /\ conf \in {"idle", "saved", "reset", "stopped", "cleared"}
Typed == Flags /\ Networks /\ Wire /\ Placed

Connected == Known(up, queue, drv.sta)
Peaceful == Respected /\ Quiet
Aired == PoweredDown /\ HotspotStays /\ FallbackOnAir

Invariance == Typed /\ Connected /\ Aimed /\ Peaceful /\ Aired

\* What a queue promises after an event more or one less.
LEMMA LossAppended ==
  ASSUME NEW q \in Seq(Events), NEW sta, NEW u
  PROVE  Append(q, "disc") \in Seq(Events) /\ Known(u, Append(q, "disc"), sta)
<1>1. /\ Append(q, "disc") \in Seq(Events) /\ Len(Append(q, "disc")) = Len(q) + 1
      /\ Append(q, "disc")[Len(q) + 1] = "disc" /\ Len(q) \in Nat
  BY DEF Events
<1>2. \A i \in 1..(Len(q) + 1) : Append(q, "disc")[i] = "ip" => i < Len(q) + 1
  BY <1>1
<1> QED BY <1>1, <1>2 DEF Known, Answered, Promised

\* Other events break no promise.
LEMMA EventAppended ==
  ASSUME NEW q \in Seq(Events), NEW e \in Events, NEW sta, NEW u, Known(u, q, sta),
         e = "ip" => sta = "addressed"
  PROVE  Append(q, e) \in Seq(Events) /\ Known(u, Append(q, e), sta)
<1>1. /\ Append(q, e) \in Seq(Events) /\ Len(Append(q, e)) = Len(q) + 1 /\ Len(q) \in Nat
      /\ Append(q, e)[Len(q) + 1] = e /\ \A i \in 1..Len(q) : Append(q, e)[i] = q[i]
  OBVIOUS
<1>2. Promised(q) => Promised(Append(q, e))
  BY <1>1 DEF Promised
<1>3. Answered(Append(q, e), sta)
  BY <1>1 DEF Answered, Known
<1> QED BY <1>1, <1>2, <1>3 DEF Known

\* Nor does taking one, but a loss.
LEMMA EventTaken ==
  ASSUME NEW q \in Seq(Events), NEW sta, NEW u, Known(u, q, sta), q # <<>>
  PROVE  /\ Tail(q) \in Seq(Events) /\ Answered(Tail(q), sta)
         /\ Head(q) # "disc" => Known(u, Tail(q), sta)
         /\ Head(q) = "ip" => sta = "addressed" \/ Promised(Tail(q))
<1>1. /\ Tail(q) \in Seq(Events) /\ Len(Tail(q)) = Len(q) - 1 /\ Len(q) \in Nat /\ Len(q) > 0
      /\ Head(q) = q[1] /\ \A i \in 1..(Len(q) - 1) : Tail(q)[i] = q[i + 1]
  OBVIOUS
<1>2. \A i \in 2..Len(q) : i - 1 \in 1..(Len(q) - 1) /\ Tail(q)[i - 1] = q[i]
  BY <1>1
<1>3. Answered(Tail(q), sta)
  <2> SUFFICES ASSUME NEW i \in 1..(Len(q) - 1), q[i + 1] = "ip", sta # "addressed"
               PROVE  \E j \in 1..(Len(q) - 1) : j > i /\ Tail(q)[j] = "disc"
    BY <1>1 DEF Answered
  <2>1. PICK k \in 1..Len(q) : k > i + 1 /\ q[k] = "disc"
    BY <1>1 DEF Known, Answered
  <2>2. k \in 2..Len(q) /\ k - 1 > i
    BY <2>1, <1>1
  <2> QED BY <2>1, <2>2, <1>2
<1>4. Head(q) # "disc" /\ Promised(q) => Promised(Tail(q))
  <2> SUFFICES ASSUME Head(q) # "disc", NEW k \in 1..Len(q), q[k] = "disc"
               PROVE  Promised(Tail(q))
    BY DEF Promised
  <2>1. k \in 2..Len(q)
    BY <1>1
  <2>2. k - 1 \in 1..Len(Tail(q)) /\ Tail(q)[k - 1] = "disc"
    BY <2>1, <1>1, <1>2
  <2> QED BY <2>2 DEF Promised
<1>5. Head(q) = "ip" => sta = "addressed" \/ Promised(Tail(q))
  <2> SUFFICES ASSUME q[1] = "ip", sta # "addressed"
               PROVE  Promised(Tail(q))
    BY <1>1
  <2>1. PICK k \in 1..Len(q) : k > 1 /\ q[k] = "disc"
    BY <1>1 DEF Known, Answered
  <2>2. k \in 2..Len(q)
    BY <2>1, <1>1
  <2>3. k - 1 \in 1..Len(Tail(q)) /\ Tail(q)[k - 1] = "disc"
    BY <2>1, <2>2, <1>1, <1>2
  <2> QED BY <2>3 DEF Promised
<1> QED BY <1>1, <1>3, <1>4, <1>5 DEF Known

\* A station without an address may change without an event.
LEMMA StationChanges ==
  ASSUME NEW q, NEW sta, NEW sta2, NEW u, Known(u, q, sta), sta # "addressed" \/ sta2 = "addressed"
  PROVE  Known(u, q, sta2)
BY DEF Known, Answered


\* Hanging up and dialing.
LEMMA HungUp ==
  ASSUME drv \in Drivers, NEW q \in Seq(Events), NEW u, Known(u, q, drv.sta), HangUp(q)
  PROVE  drv' \in Drivers /\ queue' \in Seq(Events) /\ Known(u, queue', drv'.sta)
<1>1. CASE drv.on /\ drv.sta # "down"
  <2>1. drv' \in Drivers /\ queue' = Append(q, "disc")
    BY <1>1 DEF HangUp, Drivers
  <2> QED BY <2>1, LossAppended
<1>2. CASE ~(drv.on /\ drv.sta # "down")
  BY <1>2 DEF HangUp
<1> QED BY <1>1, <1>2

\* And dialing.
LEMMA DialedOut ==
  ASSUME drv \in Drivers, NEW n \in Nets, NEW q \in Seq(Events), NEW u, Known(u, q, drv.sta), Connect(n, q)
  PROVE  drv' \in Drivers /\ queue' \in Seq(Events) /\ Known(u, queue', drv'.sta)
<1>1. CASE drv.on /\ drv.sta = "down"
  <2>1. drv' \in Drivers /\ drv'.sta = "dialing" /\ queue' = IF drv.scan = "none" THEN q ELSE Append(q, "scan")
    BY <1>1 DEF Connect, Drivers
  <2>2. Append(q, "scan") \in Seq(Events) /\ Known(u, Append(q, "scan"), drv.sta)
    BY EventAppended DEF Events
  <2>3. Known(u, q, drv'.sta) /\ Known(u, Append(q, "scan"), drv'.sta)
    BY <1>1, <2>2, StationChanges
  <2> QED BY <2>1, <2>2, <2>3
<1>2. CASE ~(drv.on /\ drv.sta = "down")
  <2>1. drv' \in Drivers /\ drv'.sta = drv.sta /\ queue' = q
    BY <1>2 DEF Connect, Drivers
  <2> QED BY <2>1
<1> QED BY <1>1, <1>2

\* It holds at the start.
LEMMA InitInvariance == ASSUME Init PROVE Invariance
<1> USE DEF Init
<1>1. Flags
  BY Zenon DEF Flags
<1>2. Networks /\ Placed
  BY DEF Networks, Placed, Places
<1>3. Wire
  <2>1. drv \in Drivers
    BY <1>1 DEF Drivers, Flags
  <2> QED BY <2>1 DEF Wire, Events
<1>4. Connected
  <2>1. Len(queue) = 1 /\ queue[1] = "start"
    OBVIOUS
  <2> QED BY <2>1 DEF Connected, Known, Answered
<1>5. Aimed /\ Peaceful
  BY DEF Aimed, Peaceful, Respected, Quiet, Idle, Down
<1>6. Aired
  BY DEF Aired, PoweredDown, HotspotStays, FallbackOnAir, Down
<1> QED BY <1>1, <1>2, <1>3, <1>4, <1>5, <1>6 DEF Invariance, Typed

\* A scan ends: its event is no address.
LEMMA KeptByScanEnds == ASSUME Invariance, ScanEnds PROVE Invariance'
<1> USE DEF Invariance, ScanEnds, driven
<1>1. Flags'
  BY Zenon DEF Typed, Flags
<1>2. Networks'
  BY DEF Typed, Networks
<1>3. Wire'
  <2>1. drv' \in Drivers
    BY DEF Typed, Wire, Networks, Drivers
  <2> QED BY <2>1, EventAppended DEF Typed, Wire, Connected, Events
<1>4. Placed'
  BY DEF Typed, Placed, Wire, Drivers, Places, Aimed
<1>5. Connected'
  BY EventAppended DEF Connected, Typed, Wire, Drivers, Events
<1>6. Aimed'
  BY DEF Aimed, Typed, Flags, Wire, Placed, Drivers, Places
<1>7. Peaceful'
  BY DEF Peaceful, Respected, Quiet, Idle, Down, Typed, Flags, Wire, Placed, Drivers,
     Places
<1>8. Aired'
  BY DEF Aired, PoweredDown, Peaceful, Quiet, Idle, Down, HotspotStays, FallbackOnAir,
     Typed, Flags, Wire, Placed, Drivers, Places
<1> QED BY <1>1, <1>2, <1>3, <1>4, <1>5, <1>6, <1>7, <1>8 DEF Typed

\* A failed attempt announces itself.
LEMMA KeptByDialFails == ASSUME Invariance, DialFails PROVE Invariance'
<1> USE DEF Invariance, DialFails, driven
<1>1. Flags'
  BY Zenon DEF Typed, Flags
<1>2. Networks'
  BY DEF Typed, Networks
<1>3. Wire'
  BY LossAppended DEF Typed, Connected, Wire, Networks, Placed, Drivers, Places
<1>4. Placed'
  BY DEF Typed, Placed, Wire, Drivers, Places, Aimed
<1>5. Connected'
  BY LossAppended DEF Connected, Typed, Wire, Drivers, Events
<1>6. Aimed'
  BY DEF Aimed, Typed, Flags, Wire, Placed, Drivers, Places
<1>7. Peaceful'
  BY DEF Peaceful, Respected, Quiet, Idle, Down, Typed, Flags, Wire, Placed, Drivers,
     Places
<1>8. Aired'
  BY DEF Aired, PoweredDown, Peaceful, Quiet, Idle, Down, HotspotStays, FallbackOnAir,
     Typed, Flags, Wire, Placed, Drivers, Places
<1> QED BY <1>1, <1>2, <1>3, <1>4, <1>5, <1>6, <1>7, <1>8 DEF Typed

\* The station is linked, without an address yet.
LEMMA KeptByDialSucceeds == ASSUME Invariance, DialSucceeds PROVE Invariance'
<1> USE DEF Invariance, DialSucceeds, driven
<1>1. Flags'
  BY Zenon DEF Typed, Flags
<1>2. Networks'
  BY DEF Typed, Networks
<1>3. Wire'
  BY DEF Typed, Connected, Wire, Networks, Placed, Drivers, Places
<1>4. Placed'
  BY DEF Typed, Placed, Wire, Drivers, Places, Aimed
<1>5. Connected'
  BY StationChanges DEF Connected, Typed, Wire, Drivers, Events
<1>6. Aimed'
  BY DEF Aimed, Typed, Flags, Wire, Placed, Drivers, Places
<1>7. Peaceful'
  BY DEF Peaceful, Respected, Quiet, Idle, Down, Typed, Flags, Wire, Placed, Drivers,
     Places
<1>8. Aired'
  BY DEF Aired, PoweredDown, Peaceful, Quiet, Idle, Down, HotspotStays, FallbackOnAir,
     Typed, Flags, Wire, Placed, Drivers, Places
<1> QED BY <1>1, <1>2, <1>3, <1>4, <1>5, <1>6, <1>7, <1>8 DEF Typed

\* The address is there when it is announced.
LEMMA KeptByGetsAddress == ASSUME Invariance, GetsAddress PROVE Invariance'
<1> USE DEF Invariance, GetsAddress, driven
<1>1. Flags'
  BY Zenon DEF Typed, Flags
<1>2. Networks'
  BY DEF Typed, Networks
<1>3. Wire'
  <2>1. drv' \in Drivers
    BY DEF Typed, Wire, Drivers
  <2>2. Append(queue, "ip") \in Seq(Events)
    BY DEF Typed, Wire, Events
  <2> QED BY <2>1, <2>2 DEF Wire
<1>4. Placed'
  BY DEF Typed, Placed, Wire, Drivers, Places, Aimed
<1>5. Connected'
  BY StationChanges, EventAppended DEF Connected, Typed, Wire, Drivers, Events
<1>6. Aimed'
  BY DEF Aimed, Typed, Flags, Wire, Placed, Drivers, Places
<1>7. Peaceful'
  BY DEF Peaceful, Respected, Quiet, Idle, Down, Typed, Flags, Wire, Placed, Drivers,
     Places
<1>8. Aired'
  BY DEF Aired, PoweredDown, Peaceful, Quiet, Idle, Down, HotspotStays, FallbackOnAir,
     Typed, Flags, Wire, Placed, Drivers, Places
<1> QED BY <1>1, <1>2, <1>3, <1>4, <1>5, <1>6, <1>7, <1>8 DEF Typed

\* A network lost announces itself.
LEMMA KeptByMove == ASSUME Invariance, Move PROVE Invariance'
<1> USE DEF Invariance, Move, Spend
<1>1. Flags'
  BY Zenon DEF Typed, Flags
<1>2. Networks'
  BY DEF Typed, Networks
<1>3. Wire'
  BY LossAppended DEF Typed, Connected, Wire, Networks, Placed, Drivers, Places
<1>4. Connected'
  <2>1. CASE UNCHANGED <<drv, queue>>
    BY <2>1 DEF Connected
  <2>2. CASE queue' = Append(queue, "disc")
    BY <2>2, LossAppended DEF Connected, Typed, Wire
  <2> QED BY <2>1, <2>2
<1>5. Placed'
  BY DEF Typed, Placed, Wire, Drivers, Places, Aimed
<1>6. Aimed'
  BY DEF Aimed, Typed, Flags, Wire, Placed, Drivers, Places
<1>7. Peaceful'
  BY DEF Peaceful, Respected, Quiet, Idle, Down, Typed, Flags, Wire, Placed, Drivers,
     Places
<1>8. Aired'
  BY DEF Aired, PoweredDown, Peaceful, Quiet, Idle, Down, HotspotStays, FallbackOnAir,
     Typed, Flags, Wire, Placed, Drivers, Places
<1> QED BY <1>1, <1>2, <1>3, <1>5, <1>4, <1>6, <1>7, <1>8 DEF Typed

\* The event task looks for networks, which it does only without a hold.
LEMMA KeptByEventStartsScan == ASSUME Invariance, EventStartsScan PROVE Invariance'
<1> USE DEF Invariance, EventStartsScan, StartJoinScan, Arm, Kick, HangUp, Started,
   Race, Consulted, Ready, RaisedOn, config, limits
<1>1. Flags'
  BY Zenon DEF Typed, Flags
<1>2. Networks'
  BY DEF Typed, Networks
<1>3. Wire'
  BY HungUp DEF Typed, Connected, Wire, Networks, Placed, Drivers, Places
<1>4. Connected'
  <2>1. CASE queue' = queue /\ drv'.sta = drv.sta
    BY <2>1 DEF Connected
  <2>2. CASE HangUp(queue)
    <3>1. Known(up, queue', drv'.sta)
      BY <2>2, HungUp DEF Typed, Wire, Connected
    <3> QED BY <3>1 DEF Connected
  <2> QED BY <2>1, <2>2 DEF Typed, Wire, Drivers
<1>5. Placed'
  BY DEF Typed, Placed, Wire, Drivers, Places, Aimed
<1>6. Aimed'
  BY DEF Aimed, Typed, Flags, Wire, Placed, Drivers, Places
<1>7. Peaceful'
  BY DEF Peaceful, Respected, Quiet, Idle, Down, Typed, Flags, Wire, Placed, Drivers,
     Places
<1>8. Aired'
  BY DEF Aired, PoweredDown, Peaceful, Quiet, Idle, Down, HotspotStays, FallbackOnAir,
     Typed, Flags, Wire, Placed, Drivers, Places
<1> QED BY <1>1, <1>2, <1>3, <1>5, <1>4, <1>6, <1>7, <1>8 DEF Typed

\* The station is up: only as a client does it raise or look for anything.
LEMMA KeptByStaStart == ASSUME Invariance, StaStart PROVE Invariance'
<1> USE DEF Invariance, StaStart, Takes, Consulted, RaisedOn, Checked, Race, config,
   limits
<1>1. Flags'
  BY Zenon DEF Typed, Flags
<1>2. Networks'
  BY DEF Typed, Networks
<1>3. Wire'
  BY EventTaken DEF Typed, Connected, Wire, Networks, Placed, Drivers, Places
<1>4. Placed'
  BY DEF Typed, Placed, Wire, Drivers, Places, Aimed
<1>5. Connected'
  BY EventTaken DEF Connected, Typed, Wire, Drivers, Events
<1>6. Aimed'
  BY DEF Aimed, Typed, Flags, Wire, Placed, Drivers, Places
<1>7. Peaceful'
  BY DEF Peaceful, Respected, Quiet, Idle, Down, Typed, Flags, Wire, Placed, Drivers,
     Places
<1>8. Aired'
  BY DEF Aired, PoweredDown, Peaceful, Quiet, Idle, Down, HotspotStays, FallbackOnAir,
     Typed, Flags, Wire, Placed, Drivers, Places
<1> QED BY <1>1, <1>2, <1>3, <1>4, <1>5, <1>6, <1>7, <1>8 DEF Typed

\* A scan is reported: only an announced one is acted on.
LEMMA KeptByScanDone == ASSUME Invariance, ScanDone PROVE Invariance'
<1> USE DEF Invariance, ScanDone, Takes, Race, config, limits
<1>1. Flags'
  BY Zenon DEF Typed, Flags
<1>2. Networks'
  BY DEF Typed, Networks
<1>3. Wire'
  BY EventTaken DEF Typed, Connected, Wire, Networks, Placed, Drivers, Places
<1>4. Placed'
  BY DEF Typed, Placed, Wire, Drivers, Places, Aimed
<1>5. Connected'
  BY EventTaken DEF Connected, Typed, Wire, Drivers, Events
<1>6. Aimed'
  BY DEF Aimed, Typed, Flags, Wire, Placed, Drivers, Places
<1>7. Peaceful'
  BY DEF Peaceful, Respected, Quiet, Idle, Down, Typed, Flags, Wire, Placed, Drivers,
     Places
<1>8. Aired'
  BY DEF Aired, PoweredDown, Peaceful, Quiet, Idle, Down, HotspotStays, FallbackOnAir,
     Typed, Flags, Wire, Placed, Drivers, Places
<1> QED BY <1>1, <1>2, <1>3, <1>4, <1>5, <1>6, <1>7, <1>8 DEF Typed

\* A network is chosen; it was announced before any hold.
LEMMA KeptByChoose == ASSUME Invariance, Choose PROVE Invariance'
<1> USE DEF Invariance, Choose, Race, RaisedOn, config, limits
<1>1. Flags'
  BY Zenon DEF Typed, Flags
<1>2. Networks'
  BY DEF Typed, Networks
<1>3. Wire'
  BY DEF Typed, Connected, Wire, Networks, Placed, Drivers, Places
<1>4. Placed'
  BY DEF Typed, Placed, Wire, Drivers, Places, Aimed
<1>5. Connected'
  BY DEF Connected, Typed, Wire, Drivers, Events
<1>6. Aimed'
  BY DEF Aimed, Typed, Flags, Wire, Placed, Drivers, Places
<1>7. Peaceful'
  BY DEF Peaceful, Respected, Quiet, Idle, Down, Typed, Flags, Wire, Placed, Drivers,
     Places
<1>8. Aired'
  BY DEF Aired, PoweredDown, Peaceful, Quiet, Idle, Down, HotspotStays, FallbackOnAir,
     Typed, Flags, Wire, Placed, Drivers, Places
<1> QED BY <1>1, <1>2, <1>3, <1>4, <1>5, <1>6, <1>7, <1>8 DEF Typed

\* The chosen network is dialed.
LEMMA KeptByDial == ASSUME Invariance, Dial PROVE Invariance'
<1> USE DEF Invariance, Dial, Race, Connect, config, limits
<1>1. Flags'
  BY Zenon DEF Typed, Flags
<1>2. Networks'
  BY DEF Typed, Networks
<1>3. Wire' /\ Known(up, queue', drv'.sta)
  BY DialedOut DEF Typed, Wire, Connected
<1>4. Wire'
  BY <1>3
<1>5. Connected'
  BY <1>3 DEF Connected
<1>6. Placed'
  BY DEF Typed, Placed, Wire, Drivers, Places, Aimed
<1>7. Aimed'
  BY DEF Aimed, Typed, Flags, Wire, Placed, Drivers, Places
<1>8. Peaceful'
  BY DEF Peaceful, Respected, Quiet, Idle, Down, Typed, Flags, Wire, Placed, Drivers,
     Places
<1>9. Aired'
  BY DEF Aired, PoweredDown, Peaceful, Quiet, Idle, Down, HotspotStays, FallbackOnAir,
     Typed, Flags, Wire, Placed, Drivers, Places
<1> QED BY <1>1, <1>2, <1>4, <1>6, <1>5, <1>7, <1>8, <1>9 DEF Typed

\* The loss is noted; nothing is re-armed under a hold.
LEMMA KeptByDisconnected == ASSUME Invariance, Disconnected PROVE Invariance'
<1> USE DEF Invariance, Disconnected, Takes, ShouldConsults, Consulted, Should, Race,
   config, limits
<1>1. Flags'
  BY Zenon DEF Typed, Flags
<1>2. Networks'
  BY DEF Typed, Networks
<1>3. Wire'
  BY EventTaken DEF Typed, Connected, Wire, Networks, Placed, Drivers, Places
<1>4. Connected'
  <2>1. Answered(Tail(queue), drv.sta)
    BY EventTaken DEF Typed, Wire, Connected
  <2> QED BY <2>1 DEF Connected, Known
<1>5. Placed'
  BY DEF Typed, Placed, Wire, Drivers, Places, Aimed
<1>6. Aimed'
  BY DEF Aimed, Typed, Flags, Wire, Placed, Drivers, Places
<1>7. Peaceful'
  BY DEF Peaceful, Respected, Quiet, Idle, Down, Typed, Flags, Wire, Placed, Drivers,
     Places
<1>8. Aired'
  BY DEF Aired, PoweredDown, Peaceful, Quiet, Idle, Down, HotspotStays, FallbackOnAir,
     Typed, Flags, Wire, Placed, Drivers, Places
<1> QED BY <1>1, <1>2, <1>3, <1>5, <1>4, <1>6, <1>7, <1>8 DEF Typed

\* The address is there, or its loss is queued; the recovery access point goes only in client mode.
LEMMA KeptByGotAddress == ASSUME Invariance, GotAddress PROVE Invariance'
<1> USE DEF Invariance, GotAddress, Takes, Race, config, limits
<1>1. Flags'
  BY Zenon DEF Typed, Flags
<1>2. Networks'
  BY DEF Typed, Networks
<1>3. Wire'
  BY EventTaken DEF Typed, Connected, Wire, Networks, Placed, Drivers, Places
<1>4. Connected'
  <2>1. Answered(Tail(queue), drv.sta) /\ (drv.sta = "addressed" \/ Promised(Tail(queue)))
    BY EventTaken DEF Typed, Wire, Connected
  <2>2. drv'.sta = drv.sta
    BY DEF Typed, Wire, Drivers
  <2> QED BY <2>1, <2>2 DEF Connected, Known
<1>5. Placed'
  BY DEF Typed, Placed, Wire, Drivers, Places, Aimed
<1>6. Aimed'
  BY DEF Aimed, Typed, Flags, Wire, Placed, Drivers, Places
<1>7. Peaceful'
  BY DEF Peaceful, Respected, Quiet, Idle, Down, Typed, Flags, Wire, Placed, Drivers,
     Places
<1>8. Aired'
  BY DEF Aired, PoweredDown, Peaceful, Quiet, Idle, Down, HotspotStays, FallbackOnAir,
     Typed, Flags, Wire, Placed, Drivers, Places
<1> QED BY <1>1, <1>2, <1>3, <1>5, <1>4, <1>6, <1>7, <1>8 DEF Typed

\* The timer respects a hold.
LEMMA KeptByTimerFires == ASSUME Invariance, TimerFires PROVE Invariance'
<1> USE DEF Invariance, TimerFires, ShouldConsults, Consulted, Should, Checked, Race,
   config, limits
<1>1. Flags'
  BY Zenon DEF Typed, Flags
<1>2. Networks'
  BY DEF Typed, Networks
<1>3. Wire'
  BY DEF Typed, Connected, Wire, Networks, Placed, Drivers, Places
<1>4. Placed'
  BY DEF Typed, Placed, Wire, Drivers, Places, Aimed
<1>5. Connected'
  BY DEF Connected, Typed, Wire, Drivers, Events
<1>6. Aimed'
  BY DEF Aimed, Typed, Flags, Wire, Placed, Drivers, Places
<1>7. Peaceful'
  BY DEF Peaceful, Respected, Quiet, Idle, Down, Typed, Flags, Wire, Placed, Drivers,
     Places
<1>8. Aired'
  BY DEF Aired, PoweredDown, Peaceful, Quiet, Idle, Down, HotspotStays, FallbackOnAir,
     Typed, Flags, Wire, Placed, Drivers, Places
<1> QED BY <1>1, <1>2, <1>3, <1>4, <1>5, <1>6, <1>7, <1>8 DEF Typed

\* The timer looks for networks.
LEMMA KeptByTimerStartsScan == ASSUME Invariance, TimerStartsScan PROVE Invariance'
<1> USE DEF Invariance, TimerStartsScan, StartJoinScan, Arm, Kick, HangUp, Started,
   Race, Consulted, Ready, RaisedOn, config, limits
<1>1. Flags'
  BY Zenon DEF Typed, Flags
<1>2. Networks'
  BY DEF Typed, Networks
<1>3. Wire'
  BY HungUp DEF Typed, Connected, Wire, Networks, Placed, Drivers, Places
<1>4. Connected'
  <2>1. CASE queue' = queue /\ drv'.sta = drv.sta
    BY <2>1 DEF Connected
  <2>2. CASE HangUp(queue)
    <3>1. Known(up, queue', drv'.sta)
      BY <2>2, HungUp DEF Typed, Wire, Connected
    <3> QED BY <3>1 DEF Connected
  <2> QED BY <2>1, <2>2 DEF Typed, Wire, Drivers
<1>5. Placed'
  BY DEF Typed, Placed, Wire, Drivers, Places, Aimed
<1>6. Aimed'
  BY DEF Aimed, Typed, Flags, Wire, Placed, Drivers, Places
<1>7. Peaceful'
  BY DEF Peaceful, Respected, Quiet, Idle, Down, Typed, Flags, Wire, Placed, Drivers,
     Places
<1>8. Aired'
  BY DEF Aired, PoweredDown, Peaceful, Quiet, Idle, Down, HotspotStays, FallbackOnAir,
     Typed, Flags, Wire, Placed, Drivers, Places
<1> QED BY <1>1, <1>2, <1>3, <1>5, <1>4, <1>6, <1>7, <1>8 DEF Typed

\* The hold is taken: what is under way is remembered as late.
LEMMA KeptByPrepare == ASSUME Invariance, Prepare PROVE Invariance'
<1> USE DEF Invariance, Prepare, Spend, ShouldConsults, Consulted, Should, HangUp,
   config
<1>1. Flags'
  BY Zenon DEF Typed, Flags
<1>2. Networks'
  BY DEF Typed, Networks
<1>3. Wire'
  BY HungUp DEF Typed, Connected, Wire, Networks, Placed, Drivers, Places
<1>4. Connected'
  <2>1. CASE UNCHANGED <<drv, queue>>
    BY <2>1 DEF Connected
  <2>2. CASE HangUp(queue)
    <3>1. Known(up, queue', drv'.sta)
      BY <2>2, HungUp DEF Typed, Wire, Connected
    <3> QED BY <3>1 DEF Connected
  <2> QED BY <2>1, <2>2
<1>5. Placed'
  BY DEF Typed, Placed, Wire, Drivers, Places, Aimed
<1>6. Aimed'
  BY DEF Aimed, Typed, Flags, Wire, Placed, Drivers, Places
<1>7. Peaceful'
  BY DEF Peaceful, Respected, Quiet, Idle, Down, Typed, Flags, Wire, Placed, Drivers,
     Places
<1>8. Aired'
  BY DEF Aired, PoweredDown, Peaceful, Quiet, Idle, Down, HotspotStays, FallbackOnAir,
     Typed, Flags, Wire, Placed, Drivers, Places
<1> QED BY <1>1, <1>2, <1>3, <1>5, <1>4, <1>6, <1>7, <1>8 DEF Typed

\* The scan of the settings page.
LEMMA KeptByWebScan == ASSUME Invariance, WebScan PROVE Invariance'
<1> USE DEF Invariance, WebScan, Ready, config
<1>1. Flags'
  BY Zenon DEF Typed, Flags
<1>2. Networks'
  BY DEF Typed, Networks
<1>3. Wire'
  BY DEF Typed, Connected, Wire, Networks, Placed, Drivers, Places
<1>4. Placed'
  BY DEF Typed, Placed, Wire, Drivers, Places, Aimed
<1>5. Connected'
  BY DEF Connected, Typed, Wire, Drivers, Events
<1>6. Aimed'
  BY DEF Aimed, Typed, Flags, Wire, Placed, Drivers, Places
<1>7. Peaceful'
  BY DEF Peaceful, Respected, Quiet, Idle, Down, Typed, Flags, Wire, Placed, Drivers,
     Places
<1>8. Aired'
  BY DEF Aired, PoweredDown, Peaceful, Quiet, Idle, Down, HotspotStays, FallbackOnAir,
     Typed, Flags, Wire, Placed, Drivers, Places
<1> QED BY <1>1, <1>2, <1>3, <1>4, <1>5, <1>6, <1>7, <1>8 DEF Typed

\* Its records are read.
LEMMA KeptByWebRecords == ASSUME Invariance, WebRecords PROVE Invariance'
<1> USE DEF Invariance, WebRecords, config
<1>1. Flags'
  BY Zenon DEF Typed, Flags
<1>2. Networks'
  BY DEF Typed, Networks
<1>3. Wire'
  BY DEF Typed, Connected, Wire, Networks, Placed, Drivers, Places
<1>4. Placed'
  BY DEF Typed, Placed, Wire, Drivers, Places, Aimed
<1>5. Connected'
  BY DEF Connected, Typed, Wire, Drivers, Events
<1>6. Aimed'
  BY DEF Aimed, Typed, Flags, Wire, Placed, Drivers, Places
<1>7. Peaceful'
  BY DEF Peaceful, Respected, Quiet, Idle, Down, Typed, Flags, Wire, Placed, Drivers,
     Places
<1>8. Aired'
  BY DEF Aired, PoweredDown, Peaceful, Quiet, Idle, Down, HotspotStays, FallbackOnAir,
     Typed, Flags, Wire, Placed, Drivers, Places
<1> QED BY <1>1, <1>2, <1>3, <1>4, <1>5, <1>6, <1>7, <1>8 DEF Typed

\* The hold is given back.
LEMMA KeptByComplete == ASSUME Invariance, Complete PROVE Invariance'
<1> USE DEF Invariance, Complete, ShouldConsults, Consulted, Should, config
<1>1. Flags'
  BY Zenon DEF Typed, Flags
<1>2. Networks'
  BY DEF Typed, Networks
<1>3. Wire'
  BY DEF Typed, Connected, Wire, Networks, Placed, Drivers, Places
<1>4. Placed'
  BY DEF Typed, Placed, Wire, Drivers, Places, Aimed
<1>5. Connected'
  BY DEF Connected, Typed, Wire, Drivers, Events
<1>6. Aimed'
  BY DEF Aimed, Typed, Flags, Wire, Placed, Drivers, Places
<1>7. Peaceful'
  BY DEF Peaceful, Respected, Quiet, Idle, Down, Typed, Flags, Wire, Placed, Drivers,
     Places
<1>8. Aired'
  BY DEF Aired, PoweredDown, Peaceful, Quiet, Idle, Down, HotspotStays, FallbackOnAir,
     Typed, Flags, Wire, Placed, Drivers, Places
<1> QED BY <1>1, <1>2, <1>3, <1>4, <1>5, <1>6, <1>7, <1>8 DEF Typed

\* A network is saved.
LEMMA KeptBySave == ASSUME Invariance, Save PROVE Invariance'
<1> USE DEF Invariance, Save, Spend
<1>1. Flags'
  BY Zenon DEF Typed, Flags
<1>2. Networks'
  BY DEF Typed, Networks
<1>3. Wire'
  BY DEF Typed, Connected, Wire, Networks, Placed, Drivers, Places
<1>4. Placed'
  BY DEF Typed, Placed, Wire, Drivers, Places, Aimed
<1>5. Connected'
  BY DEF Connected, Typed, Wire, Drivers, Events
<1>6. Aimed'
  BY DEF Aimed, Typed, Flags, Wire, Placed, Drivers, Places
<1>7. Peaceful'
  BY DEF Peaceful, Respected, Quiet, Idle, Down, Typed, Flags, Wire, Placed, Drivers,
     Places
<1>8. Aired'
  BY DEF Aired, PoweredDown, Peaceful, Quiet, Idle, Down, HotspotStays, FallbackOnAir,
     Typed, Flags, Wire, Placed, Drivers, Places
<1> QED BY <1>1, <1>2, <1>3, <1>4, <1>5, <1>6, <1>7, <1>8 DEF Typed

\* The network is reset.
LEMMA KeptByNetReset == ASSUME Invariance, NetReset PROVE Invariance'
<1> USE DEF Invariance, NetReset, Spend, config
<1>1. Flags'
  BY Zenon DEF Typed, Flags
<1>2. Networks'
  BY DEF Typed, Networks
<1>3. Wire'
  BY DEF Typed, Connected, Wire, Networks, Placed, Drivers, Places
<1>4. Placed'
  BY DEF Typed, Placed, Wire, Drivers, Places, Aimed
<1>5. Connected'
  BY DEF Connected, Typed, Wire, Drivers, Events
<1>6. Aimed'
  BY DEF Aimed, Typed, Flags, Wire, Placed, Drivers, Places
<1>7. Peaceful'
  BY DEF Peaceful, Respected, Quiet, Idle, Down, Typed, Flags, Wire, Placed, Drivers,
     Places
<1>8. Aired'
  BY DEF Aired, PoweredDown, Peaceful, Quiet, Idle, Down, HotspotStays, FallbackOnAir,
     Typed, Flags, Wire, Placed, Drivers, Places
<1> QED BY <1>1, <1>2, <1>3, <1>4, <1>5, <1>6, <1>7, <1>8 DEF Typed

\* A network is forgotten.
LEMMA KeptByForget == ASSUME Invariance, Forget PROVE Invariance'
<1> USE DEF Invariance, Forget, Spend
<1>1. Flags'
  BY Zenon DEF Typed, Flags
<1>2. Networks'
  BY DEF Typed, Networks
<1>3. Wire'
  BY DEF Typed, Connected, Wire, Networks, Placed, Drivers, Places
<1>4. Placed'
  BY DEF Typed, Placed, Wire, Drivers, Places, Aimed
<1>5. Connected'
  BY DEF Connected, Typed, Wire, Drivers, Events
<1>6. Aimed'
  BY DEF Aimed, Typed, Flags, Wire, Placed, Drivers, Places
<1>7. Peaceful'
  BY DEF Peaceful, Respected, Quiet, Idle, Down, Typed, Flags, Wire, Placed, Drivers,
     Places
<1>8. Aired'
  BY DEF Aired, PoweredDown, Peaceful, Quiet, Idle, Down, HotspotStays, FallbackOnAir,
     Typed, Flags, Wire, Placed, Drivers, Places
<1> QED BY <1>1, <1>2, <1>3, <1>4, <1>5, <1>6, <1>7, <1>8 DEF Typed

\* The driver is stopped: the connection's end is announced, and what is under way is remembered as crossed.
LEMMA KeptByReinitStop == ASSUME Invariance, ReinitStop PROVE Invariance'
<1> USE DEF Invariance, ReinitStop, config
<1>1. Flags'
  BY Zenon DEF Typed, Flags
<1>2. Networks'
  BY DEF Typed, Networks
<1>3. drv' \in Drivers /\ drv'.sta = "down"
  BY DEF Typed, Wire, Drivers
<1>4. DEFINE hung == IF drv.sta = "down" THEN queue ELSE Append(queue, "disc")
<1>5. hung \in Seq(Events) /\ Known(FALSE, hung, "down")
  <2>1. CASE drv.sta = "down"
    BY <2>1 DEF Typed, Wire, Connected, Known
  <2>2. CASE drv.sta # "down"
    BY <2>2, LossAppended DEF Typed, Wire
  <2> QED BY <2>1, <2>2
<1>6. Append(hung, "scan") \in Seq(Events) /\ Known(FALSE, Append(hung, "scan"), "down")
  BY <1>5, EventAppended DEF Events
<1>7. queue' = hung \/ queue' = Append(hung, "scan")
  OBVIOUS
<1>8. Wire'
  BY <1>3, <1>5, <1>6, <1>7 DEF Wire
<1>9. Connected'
  BY <1>3, <1>5, <1>6, <1>7 DEF Connected, Known
<1>10. Placed'
  BY DEF Typed, Placed, Wire, Drivers, Places, Aimed
<1>11. Aimed'
  BY DEF Aimed, Typed, Flags, Wire, Placed, Drivers, Places
<1>12. Peaceful'
  BY DEF Peaceful, Respected, Quiet, Idle, Down, Typed, Flags, Wire, Placed, Drivers,
     Places
<1>13. Aired'
  BY DEF Aired, PoweredDown, Peaceful, Quiet, Idle, Down, HotspotStays, FallbackOnAir,
     Typed, Flags, Wire, Placed, Drivers, Places
<1> QED BY <1>1, <1>2, <1>8, <1>10, <1>9, <1>11, <1>12, <1>13 DEF Typed

\* The driver is started, in the new mode.
LEMMA KeptByReinitStart == ASSUME Invariance, ReinitStart PROVE Invariance'
<1> USE DEF Invariance, ReinitStart, limits
<1>1. Flags'
  BY Zenon DEF Typed, Flags
<1>2. Networks'
  BY DEF Typed, Networks
<1>3. Wire'
  <2>1. drv' \in Drivers
    BY DEF Typed, Wire, Drivers, Flags
  <2> QED BY <2>1, EventAppended DEF Typed, Wire, Connected, Events
<1>4. Placed'
  BY DEF Typed, Placed, Wire, Drivers, Places, Aimed
<1>5. Connected'
  BY EventAppended DEF Connected, Typed, Wire, Drivers, Events
<1>6. Aimed'
  BY DEF Aimed, Typed, Flags, Wire, Placed, Drivers, Places
<1>7. Peaceful'
  BY DEF Peaceful, Respected, Quiet, Idle, Down, Typed, Flags, Wire, Placed, Drivers,
     Places
<1>8. Aired'
  BY DEF Aired, PoweredDown, Peaceful, Quiet, Idle, Down, HotspotStays, FallbackOnAir,
     Typed, Flags, Wire, Placed, Drivers, Places
<1> QED BY <1>1, <1>2, <1>3, <1>4, <1>5, <1>6, <1>7, <1>8 DEF Typed

\* Every step keeps it.
LEMMA StepInvariance == ASSUME Invariance, [Next]_vars PROVE Invariance'
<1>1. CASE UNCHANGED vars
  BY <1>1 DEF vars, Invariance, Typed, Flags, Networks, Wire, Placed, Connected,
     Aimed, Peaceful,
     Respected, Quiet, Idle, Down, Aired, PoweredDown, HotspotStays, FallbackOnAir
<1>2. CASE EventTask
  BY <1>2, KeptByEventStartsScan, KeptByStaStart, KeptByScanDone, KeptByChoose,
     KeptByDial,
     KeptByDisconnected, KeptByGotAddress DEF EventTask
<1>3. CASE TimerTask
  BY <1>3, KeptByTimerFires, KeptByTimerStartsScan DEF TimerTask
<1>4. CASE WebTask \/ Prepare
  BY <1>4, KeptByWebScan, KeptByWebRecords, KeptByComplete, KeptByPrepare DEF WebTask
<1>5. CASE Driver \/ Move
  BY <1>5, KeptByScanEnds, KeptByDialFails, KeptByDialSucceeds, KeptByGetsAddress,
     KeptByMove DEF Driver
<1>6. CASE Save \/ NetReset \/ Forget \/ ReinitStop \/ ReinitStart
  BY <1>6, KeptBySave, KeptByNetReset, KeptByForget, KeptByReinitStop, KeptByReinitStart
<1> QED BY <1>1, <1>2, <1>3, <1>4, <1>5, <1>6 DEF Next

LEMMA AlwaysInvariance == Spec => []Invariance
<1> QED BY InitInvariance, StepInvariance, PTL DEF Spec

-----------------------------------------------------------------------------
(* The properties.                                                         *)

\* Every variable keeps its type; the task of events only dials networks.
THEOREM TypeCorrect == Spec => []TypeOK
<1>1. Invariance => TypeOK
  BY DEF Invariance, Typed, Flags, Networks, Wire, Placed, Drivers, Events, TypeOK
<1> QED BY <1>1, AlwaysInvariance, PTL

\* sta_connected never outlives the connection but by an event that is queued.
THEOREM UpNeverStale == Spec => []UpIsTrue
<1>1. Invariance => UpIsTrue
  BY DEF Invariance, Connected, Known, Promised, UpIsTrue
<1> QED BY <1>1, AlwaysInvariance, PTL

\* Under the hold of the settings page's scan nobody dials, scans or arms the
\* timer, unless a join was under way when it was taken.
THEOREM ScanOwnsRadio == Spec => []HoldRespected
<1>1. Invariance => HoldRespected
  BY DEF Invariance, Peaceful, Respected, Idle, HoldRespected
<1> QED BY <1>1, AlwaysInvariance, PTL

\* A recovery access point that is said to be up is on the air, unless a
\* handler overlapped with wifi_reinit.
THEOREM FallbackIsOnAir == Spec => []FallbackOnAir
<1>1. Invariance => FallbackOnAir
  BY DEF Invariance, Aired
<1> QED BY <1>1, AlwaysInvariance, PTL

\* In access point mode the access point is on the air, whatever the client
\* mode before left behind, unless a handler overlapped with wifi_reinit.
THEOREM HotspotRemains == Spec => []HotspotStays
<1>1. Invariance => HotspotStays
  BY DEF Invariance, Aired
<1> QED BY <1>1, AlwaysInvariance, PTL

=============================================================================
