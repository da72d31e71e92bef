-------------------------- MODULE RspStreamProofs --------------------------
(***************************************************************************)
(* Proofs about RspStream, for all streams, sessions and room for answers.  *)
(*                                                                         *)
(* That no session inherits from another rests on what rsp_task holds       *)
(* between two sessions: nothing that wants an image, no answer and no      *)
(* command bit (Clean), and during one only what the session caused (Own).  *)
(* A command still being run is of the present session then (Serving): one  *)
(* that outlived its session is what makes rsp_task miss the session's end. *)
(* That the last command counts is shown from its notification on (Obeyed), *)
(* and that a stream overshoots by two images at most from the halves of    *)
(* the buffer an image is still due from (Budgeted).                        *)
(***************************************************************************)
EXTENDS RspStream, TLAPS

USE StreamAssumption DEF StreamAssumption

Settings == Streams \union {NoStream}
HostTyped ==
  /\ session \in 0..MaxSessions /\ up \in BOOLEAN
  /\ via \in CmdTasks /\ next \in Settings
  /\ cmd \in [CmdTasks -> [at : {"idle", "received", "notifyOn", "ack"}, of : 0..MaxSessions]]
RspTyped ==
  /\ pc \in {"top", "connection", "clear", "image", "respond", "wait"} /\ connected \in BOOLEAN
  /\ note \subseteq CmdBits \union FrameBits /\ half \in {0, 1}
FlagsTyped == streamOn \in BOOLEAN /\ pending \in BOOLEAN /\ got \subseteq {0, 1}
PaceTyped == cur \in Settings /\ remaining \in Nat /\ due \in BOOLEAN
RespTyped == responses \in Seq(1..MaxSessions) /\ Len(responses) <= MaxRsps
BoolsTyped ==
  /\ asked \in BOOLEAN /\ owed \in BOOLEAN /\ inherited \in BOOLEAN
  /\ missed \in BOOLEAN /\ clash \in BOOLEAN
SeenTyped ==
  /\ count \in [cmds : Nat, sent : Nat] /\ budget \in Nat
  /\ last \in {"none", "GET", "ON", "OFF", "REQ"}
Typed == HostTyped /\ RspTyped /\ FlagsTyped /\ PaceTyped /\ RespTyped /\ BoolsTyped /\ SeenTyped

\* Who is there.
Present == (up => session >= 1) /\ (pc = "clear" => connected)

\* A command under way is a session's, and if no end of one was missed it is
\* the present one's, so that at most one task is at work.
AllIdle == \A t \in CmdTasks : Idle(t)
Setting == \E t \in CmdTasks : cmd[t].at = "notifyOn"
Serving ==
  \A t \in CmdTasks : ~Idle(t) =>
    /\ cmd[t].of >= 1
    /\ ~missed => cmd[t].of = session /\ t = via

\* Something that leads to an image.
Wanted ==
  \/ got # {} \/ pending \/ streamOn
  \/ note \intersect {"GET", "ON"} # {} \/ Setting
Clean ==
  ~missed /\ ~connected /\ ~up =>
    ~Wanted /\ AllIdle /\ responses = <<>> /\ note \intersect CmdBits = {}
Own == ~missed => (Wanted => asked) /\ \A i \in 1..Len(responses) : responses[i] = session

\* A counted stream ends with its last image.
Counted == streamOn /\ cur.num # 0 => remaining >= 1

\* The last command is being notified, or is notified, or has been obeyed.
Streaming == cur = next /\ (streamOn \/ (cur.num # 0 /\ remaining = 0))
Obeyed ==
  up /\ ~missed /\ ~clash =>
    /\ Setting => last = "ON"
    /\ last = "none" => note \intersect CmdBits = {}
    /\ last # "none" /\ ~Setting /\ last \notin note =>
         /\ note \intersect CmdBits = {}
         /\ last = "ON" => Streaming
         /\ last # "ON" => ~streamOn

\* The images the halves of the buffer are promised for.
Held == (IF 0 \in got THEN 1 ELSE 0) + (IF 1 \in got THEN 1 ELSE 0) + (IF pending THEN 1 ELSE 0)
Budgeted ==
  budget # NoBudget =>
    IF streamOn THEN cur.num = budget /\ count.sent + remaining <= budget
    ELSE count.sent + Held <= budget + 2

Invariance ==
  Typed /\ Present /\ Serving /\ Clean /\ Own /\ NothingInherited /\ Counted /\ Obeyed /\ Budgeted

\* An answer is the session's, and dropped when there is no room.
LEMMA Responded ==
  ASSUME RespTyped, NEW of \in 1..MaxSessions, Respond(of)
  PROVE  /\ RespTyped'
         /\ (\A i \in 1..Len(responses) : responses[i] = of)
              => \A i \in 1..Len(responses') : responses'[i] = of
<1>1. CASE Len(responses) < MaxRsps
  <2>1. /\ responses' = Append(responses, of) /\ responses' \in Seq(1..MaxSessions)
        /\ Len(responses') = Len(responses) + 1 /\ responses'[Len(responses) + 1] = of
        /\ \A i \in 1..Len(responses) : responses'[i] = responses[i]
    BY <1>1 DEF Respond, RespTyped
  <2> QED BY <2>1, <1>1 DEF RespTyped
<1>2. CASE ~(Len(responses) < MaxRsps)
  BY <1>2 DEF Respond, RespTyped
<1> QED BY <1>1, <1>2

\* The facts about process_notifications that the actions need.
LEMMA FlagsProcessed ==
  ASSUME HostTyped, RspTyped, FlagsTyped, PaceTyped, BoolsTyped, SeenTyped,
         NEW w \in BOOLEAN, ProcessNotifications(w)
  PROVE  /\ note' = {} /\ FlagsTyped' /\ cur' \in Settings /\ remaining' \in Nat
         /\ clash' \in BOOLEAN /\ SeenTyped'
         /\ ~w /\ note \intersect {"GET", "ON"} = {} => got' = got /\ ~pending'
         /\ streamOn' <=> /\ "OFF" \notin note /\ "REQ" \notin note
                          /\ "ON" \in note \/ (streamOn /\ "GET" \notin note)
         /\ clash' <=> clash \/ \E a, b \in note \intersect CmdBits : a # b
         /\ UNCHANGED <<last, asked, owed, inherited, missed>>
<1>1. note' = {} /\ UNCHANGED <<last, asked, owed, inherited, missed>>
  BY DEF ProcessNotifications
<1>2. /\ streamOn' \in BOOLEAN /\ clash' \in BOOLEAN
      /\ streamOn' <=> /\ "OFF" \notin note /\ "REQ" \notin note
                       /\ "ON" \in note \/ (streamOn /\ "GET" \notin note)
      /\ clash' <=> clash \/ \E a, b \in note \intersect CmdBits : a # b
  BY Zenon DEF ProcessNotifications
<1>3. pending' \in BOOLEAN
  BY Zenon DEF ProcessNotifications
<1>4. got' \subseteq {0, 1}
  BY DEF ProcessNotifications, FlagsTyped
<1>5. ~w /\ note \intersect {"GET", "ON"} = {} => got' = got /\ ~pending'
  BY DEF ProcessNotifications
<1>6. cur' \in Settings /\ remaining' \in Nat
  BY DEF ProcessNotifications, StreamSetup, HostTyped, PaceTyped, Settings, NoStream
<1>7. SeenTyped'
  BY DEF ProcessNotifications, SeenTyped, HostTyped, Settings, NoStream, NoBudget
<1> QED BY <1>1, <1>2, <1>3, <1>4, <1>5, <1>6, <1>7 DEF FlagsTyped

\* ... about the stream and its budget.
LEMMA BudgetProcessed ==
  ASSUME Typed, Counted, Budgeted, NEW w \in BOOLEAN, ~streamOn => (w <=> pending),
         ProcessNotifications(w)
  PROVE  Counted' /\ Budgeted'
         /\ ("ON" \notin note => cur' = cur /\ remaining' = remaining)
         /\ ("ON" \in note => cur' = next /\ remaining' = next.num)
<1>1. /\ "ON" \notin note => cur' = cur /\ remaining' = remaining
      /\ "ON" \in note => cur' = next /\ remaining' = next.num
  BY DEF ProcessNotifications, StreamSetup
<1>2. streamOn' <=> /\ "OFF" \notin note /\ "REQ" \notin note
                    /\ "ON" \in note \/ (streamOn /\ "GET" \notin note)
  BY FlagsProcessed DEF Typed
<1>3. /\ next.num \in Nat /\ cur.num \in Nat /\ remaining \in Nat /\ remaining' \in Nat
      /\ count.sent \in Nat /\ budget \in Nat /\ got \subseteq {0, 1} /\ got' \subseteq {0, 1}
  BY FlagsProcessed DEF Typed, HostTyped, PaceTyped, SeenTyped, Settings, NoStream,
     FlagsTyped
<1>4. /\ "ON" \in note => budget' = next.num
      /\ "ON" \notin note /\ "GET" \in note => budget' = NoBudget
      /\ "ON" \notin note /\ "GET" \notin note => budget' = budget
      /\ "ON" \in note \/ "GET" \in note => count'.sent = 0
      /\ "ON" \notin note /\ "GET" \notin note => count'.sent = count.sent
  BY DEF ProcessNotifications, Typed, SeenTyped
<1>5. Counted'
  BY <1>1, <1>2, <1>3 DEF Counted
<1>6. Held' \in 0..3
  BY <1>3 DEF Held
<1>7. Budgeted'
  <2>1. CASE "ON" \in note
    BY <1>1, <1>2, <1>3, <1>4, <1>6, <2>1 DEF Budgeted, NoBudget
  <2>2. CASE "ON" \notin note /\ "GET" \in note
    BY <1>4, <2>2 DEF Budgeted
  <2>3. CASE "ON" \notin note /\ "GET" \notin note /\ streamOn
    BY <1>1, <1>2, <1>3, <1>4, <1>6, <2>3 DEF Budgeted, Counted, NoBudget
  <2>4. CASE "ON" \notin note /\ "GET" \notin note /\ ~streamOn
    <3>1. Held' <= Held /\ Held \in Nat
      <4>1. (w <=> pending) /\ pending \in BOOLEAN
        BY <2>4 DEF Typed, FlagsTyped
      <4>2. CASE pending /\ ("F0" \in note \/ "F1" \in note)
        <5> DEFINE frames == {n \in {0, 1} : (IF n = 0 THEN "F0" ELSE "F1") \in note}
        <5>1. frames # {} /\ (0 \notin frames => frames = {1})
          BY <4>2
        <5>2. ~pending' /\ got' = got \union (IF 0 \in frames THEN {0} ELSE frames)
          BY <2>4, <4>1, <4>2, <5>1 DEF ProcessNotifications
        <5>3. ~pending' /\ (got' = got \union {0} \/ got' = got \union {1})
          BY <5>1, <5>2
        <5> QED BY ONLY <5>3, <4>2, <1>3 DEF Held
      <4>3. CASE pending /\ "F0" \notin note /\ "F1" \notin note
        <5>1. got' = got
          BY <4>3, <1>3 DEF ProcessNotifications
        <5>2. pending' \in BOOLEAN
          BY FlagsProcessed DEF Typed, FlagsTyped
        <5> QED BY ONLY <5>1, <5>2, <4>3, <1>3 DEF Held
      <4>4. CASE ~pending
        <5>1. got' = got /\ ~pending'
          BY <2>4, <4>1, <4>4 DEF ProcessNotifications
        <5> QED BY ONLY <5>1, <4>4, <1>3 DEF Held
      <4> QED BY <4>1, <4>2, <4>3, <4>4
    <3>2. budget' = budget /\ count'.sent = count.sent /\ ~streamOn'
      BY <1>2, <1>4, <2>4
    <3> QED BY ONLY <3>1, <3>2, <1>3, <1>6, <2>4, Budgeted DEF Budgeted, NoBudget
  <2> QED BY <2>1, <2>2, <2>3, <2>4 DEF Typed, FlagsTyped
<1> QED BY <1>1, <1>5, <1>7

\* ... and about what the session has commanded.
LEMMA CommandsProcessed ==
  ASSUME Invariance, NEW w \in BOOLEAN, ~streamOn => (w <=> pending),
         ProcessNotifications(w), UNCHANGED <<hostVars, connected, responses>>
  PROVE  Serving' /\ Clean' /\ Own' /\ NothingInherited' /\ Obeyed'
<1> USE DEF Invariance, hostVars
<1>1. /\ note' = {} /\ UNCHANGED <<last, asked, owed, inherited, missed>>
      /\ ~w /\ note \intersect {"GET", "ON"} = {} => got' = got /\ ~pending'
      /\ streamOn' <=> /\ "OFF" \notin note /\ "REQ" \notin note
                       /\ "ON" \in note \/ (streamOn /\ "GET" \notin note)
      /\ clash' <=> clash \/ \E a, b \in note \intersect CmdBits : a # b
  BY FlagsProcessed DEF Typed
<1>2. Wanted' => Wanted
  BY <1>1 DEF Wanted, Setting, Typed, FlagsTyped
<1>3. note' \intersect CmdBits = {}
  BY <1>1
<1>4. Clean'
  BY <1>1, <1>2, <1>3 DEF Clean, AllIdle, Idle
<1>5. Own'
  BY <1>1, <1>2 DEF Own
<1>6. NothingInherited'
  BY <1>1 DEF NothingInherited
<1>7. Obeyed'
  <2>1. /\ "ON" \notin note => cur' = cur /\ remaining' = remaining
        /\ "ON" \in note => cur' = next
    BY BudgetProcessed
  <2> SUFFICES ASSUME up, ~missed, ~clash, \A a, b \in note \intersect CmdBits : a = b
               PROVE  /\ Setting => last = "ON"
                      /\ last # "none" /\ ~Setting =>
                           (last = "ON" => Streaming') /\ (last # "ON" => ~streamOn')
    BY <1>1, <1>3 DEF Obeyed, Setting
  <2>2. /\ Setting => last = "ON"
        /\ last # "none" /\ ~Setting /\ last \notin note =>
             /\ note \intersect CmdBits = {}
             /\ last = "ON" => Streaming
             /\ last # "ON" => ~streamOn
    BY DEF Obeyed
  <2>3. CASE last \in note
    BY <2>1, <2>2, <2>3, <1>1 DEF Typed, SeenTyped, CmdBits, Streaming
  <2>4. CASE last \notin note
    BY <2>1, <2>2, <2>4, <1>1 DEF Typed, SeenTyped, CmdBits, Streaming
  <2> QED BY <2>2, <2>3, <2>4
<1>8. Serving'
  BY <1>1 DEF Serving, Idle
<1> QED BY <1>4, <1>5, <1>6, <1>7, <1>8

\* It holds at the start.
LEMMA InitInvariance == ASSUME Init PROVE Invariance
<1> USE DEF Init
<1>1. up \in BOOLEAN /\ connected \in BOOLEAN /\ streamOn \in BOOLEAN /\ pending \in BOOLEAN
      /\ due \in BOOLEAN /\ BoolsTyped
  BY Zenon DEF BoolsTyped
<1>2. RespTyped
  <2>1. responses \in Seq(1..MaxSessions) /\ Len(responses) = 0
    OBVIOUS
  <2> QED BY <2>1 DEF RespTyped
<1>3. Typed
  BY <1>1, <1>2 DEF Typed, HostTyped, RspTyped, FlagsTyped, PaceTyped, SeenTyped,
     Settings, NoBudget, NoCommand, CmdTasks
<1>4. Present /\ Serving /\ Clean /\ Own /\ NothingInherited /\ Counted /\ Obeyed /\ Budgeted
  BY DEF NoCommand, Present, Serving, Idle, Setting, AllIdle, Clean, Wanted, Own,
     NothingInherited, Counted, Obeyed, Budgeted
<1> QED BY <1>3, <1>4 DEF Invariance

\* A session begins: nothing of the one before is left, or its end was missed.
LEMMA KeptByConnect ==
  ASSUME Invariance, NEW t \in CmdTasks, Connect(t) PROVE Invariance'
<1> USE DEF Invariance, Typed, Connect, hostVars, flagVars, paceVars, seenVars
<1>1. HostTyped' /\ RspTyped'
  <2>1. up' \in BOOLEAN /\ connected' \in BOOLEAN
    BY Zenon DEF HostTyped, RspTyped
  <2> QED BY <2>1 DEF HostTyped, RspTyped, Settings, CmdBits, FrameBits
<1>2. FlagsTyped' /\ PaceTyped' /\ BoolsTyped' /\ SeenTyped'
  BY DEF FlagsTyped, PaceTyped, BoolsTyped, SeenTyped
<1>3. RespTyped'
  BY DEF RespTyped
<1>4. /\ ~missed' => ~missed /\ ~connected
      /\ ~missed' => ~Wanted /\ AllIdle /\ responses = <<>> /\ note \intersect CmdBits = {}
  <2>1. ~missed' => ~missed /\ ~connected
    BY Zenon
  <2> QED BY <2>1 DEF Clean
<1>5. Present' /\ Serving' /\ Clean' /\ Own'
  <2>1. Present'
    BY DEF Present, HostTyped
  <2>2. Serving'
    BY <1>4 DEF Serving, AllIdle, Idle
  <2>3. ~missed' => ~Wanted' /\ Len(responses') = 0
    BY <1>4 DEF Wanted, Setting
  <2> QED BY <2>1, <2>2, <2>3 DEF Clean, Own
<1>6. NothingInherited'
  BY DEF NothingInherited, Own, Wanted
<1>7. Counted' /\ Obeyed'
  <2>1. ~missed' => note' \intersect CmdBits = {} /\ ~Setting'
    BY <1>4 DEF Wanted, Setting
  <2>2. last' = "none"
    OBVIOUS
  <2> QED BY <2>1, <2>2 DEF Counted, Obeyed
<1>8. Budgeted'
  BY DEF Budgeted, Held, SeenTyped
<1> QED BY <1>1, <1>2, <1>3, <1>5, <1>6, <1>7, <1>8

\* A session ends: rsp_task had seen it, or misses it.
LEMMA KeptByDisconnect == ASSUME Invariance, Disconnect PROVE Invariance'
<1> USE DEF Invariance, Typed, Disconnect, hostVars, flagVars, paceVars, seenVars
<1>1. HostTyped' /\ RspTyped'
  <2>1. up' \in BOOLEAN /\ connected' \in BOOLEAN
    BY Zenon DEF HostTyped, RspTyped
  <2> QED BY <2>1 DEF HostTyped, RspTyped, Settings, CmdBits, FrameBits
<1>2. FlagsTyped' /\ PaceTyped' /\ BoolsTyped' /\ SeenTyped'
  BY DEF FlagsTyped, PaceTyped, BoolsTyped, SeenTyped
<1>3. RespTyped'
  BY DEF RespTyped
<1>4. Present' /\ Serving'
  BY DEF Present, Serving, Idle, HostTyped
<1>5. Clean' /\ Own'
  BY DEF Clean, Own, Wanted, Setting, AllIdle, Idle, CmdBits, FrameBits
<1>6. NothingInherited'
  BY DEF NothingInherited, Own, Wanted
<1>7. Counted' /\ Obeyed'
  BY DEF Counted, Obeyed, Streaming, Setting, CmdBits, FrameBits
<1>8. Budgeted'
  BY DEF Budgeted, Held, SeenTyped
<1> QED BY <1>1, <1>2, <1>3, <1>4, <1>5, <1>6, <1>7, <1>8

\* A command is received of the session that is there.
LEMMA KeptByReceive ==
  ASSUME Invariance, NEW t \in CmdTasks, Receive(t) PROVE Invariance'
<1> USE DEF Invariance, Typed, Receive, hostVars, flagVars, paceVars, seenVars
<1>1. HostTyped' /\ RspTyped'
  <2>1. up' \in BOOLEAN /\ connected' \in BOOLEAN
    BY Zenon DEF HostTyped, RspTyped
  <2> QED BY <2>1 DEF HostTyped, RspTyped, Settings, CmdTasks, NoCommand, CmdBits,
     FrameBits
<1>2. FlagsTyped' /\ PaceTyped' /\ BoolsTyped' /\ SeenTyped'
  BY DEF FlagsTyped, PaceTyped, BoolsTyped, SeenTyped
<1>3. RespTyped'
  BY DEF RespTyped
<1>4. Present' /\ Serving'
  BY DEF Present, Serving, Idle, HostTyped
<1>5. Clean' /\ Own'
  <2>1. Setting' => Setting
    BY DEF Setting, Idle, HostTyped
  <2> QED BY <2>1 DEF Clean, Own, Wanted
<1>6. NothingInherited'
  BY DEF NothingInherited, Own, Wanted
<1>7. Counted' /\ Obeyed'
  <2>1. Setting' <=> Setting
    BY DEF Setting, Idle, HostTyped
  <2> QED BY <2>1 DEF Counted, Obeyed, Streaming
<1>8. Budgeted'
  BY DEF Budgeted, Held, SeenTyped
<1> QED BY <1>1, <1>2, <1>3, <1>4, <1>5, <1>6, <1>7, <1>8

\* What a command under way tells if no end of a session was missed: it works
\* for the present one, and alone.
LEMMA Alone ==
  ASSUME HostTyped, Serving, NEW t \in CmdTasks, ~Idle(t), ~missed
  PROVE  /\ cmd[t].of = session /\ ~AllIdle
         /\ \A u \in CmdTasks : u # t => Idle(u)
  BY DEF Serving, AllIdle

\* get_image is asked for by the session and notified.
LEMMA KeptByCmdGetImage ==
  ASSUME Invariance, NEW t \in CmdTasks, CmdGetImage(t) PROVE Invariance'
<1> USE DEF Invariance, Typed, CmdGetImage, hostVars, flagVars, paceVars, seenVars,
   Command, Notify
<1>1. HostTyped' /\ RspTyped'
  <2>1. up' \in BOOLEAN /\ connected' \in BOOLEAN
    BY Zenon DEF HostTyped, RspTyped
  <2> QED BY <2>1 DEF HostTyped, RspTyped, Settings, CmdTasks, NoCommand, CmdBits,
     FrameBits
<1>2. FlagsTyped' /\ PaceTyped' /\ BoolsTyped' /\ SeenTyped'
  BY DEF Ask, FlagsTyped, PaceTyped, BoolsTyped, SeenTyped
<1>3. RespTyped'
  BY DEF RespTyped
<1>4. Present' /\ Serving' /\ ~Idle(t)
  BY DEF Present, Serving, Idle, HostTyped, NoCommand
<1>5. Clean' /\ Own'
  <2>1. ~missed => ~AllIdle /\ cmd[t].of = session
    BY <1>4, Alone
  <2>2. ~missed' => connected' \/ up'
    BY <2>1 DEF Clean
  <2>3. ~missed' => (Wanted' => asked')
    BY <2>1 DEF Own, Wanted, Setting, Ask, HostTyped, Idle, NoCommand
  <2> QED BY <2>2, <2>3 DEF Clean, Own
<1>6. NothingInherited'
  BY DEF NothingInherited
<1>7. Counted' /\ Obeyed'
  <2>1. ~missed => cmd[t].of = session /\ \A u \in CmdTasks : u # t => Idle(u)
    BY <1>4, Alone
  <2>2. ~missed => last' = "GET" /\ ~Setting'
    BY <2>1, <1>4 DEF Ask, Setting, Idle, HostTyped, NoCommand
  <2> QED BY <2>2 DEF Counted, Obeyed
<1>8. Budgeted'
  BY DEF Budgeted, Held, SeenTyped
<1> QED BY <1>1, <1>2, <1>3, <1>4, <1>5, <1>6, <1>7, <1>8

\* The parameters are set before the stream is notified.
LEMMA KeptByCmdStreamOn ==
  ASSUME Invariance, NEW t \in CmdTasks, NEW s \in Streams, CmdStreamOn(t, s) PROVE Invariance'
<1> USE DEF Invariance, Typed, CmdStreamOn, hostVars, flagVars, paceVars, seenVars,
   Command
<1>1. HostTyped' /\ RspTyped'
  <2>1. up' \in BOOLEAN /\ connected' \in BOOLEAN
    BY Zenon DEF HostTyped, RspTyped
  <2> QED BY <2>1 DEF HostTyped, RspTyped, Settings, CmdTasks, NoCommand, CmdBits,
     FrameBits
<1>2. FlagsTyped' /\ PaceTyped' /\ BoolsTyped' /\ SeenTyped'
  BY DEF Ask, FlagsTyped, PaceTyped, BoolsTyped, SeenTyped
<1>3. RespTyped'
  BY DEF RespTyped
<1>4. Present' /\ Serving' /\ ~Idle(t)
  BY DEF Present, Serving, Idle, HostTyped, NoCommand
<1>5. Clean' /\ Own'
  <2>1. ~missed => ~AllIdle /\ cmd[t].of = session
    BY <1>4, Alone
  <2>2. ~missed' => connected' \/ up'
    BY <2>1 DEF Clean
  <2>3. ~missed' => (Wanted' => asked')
    BY <2>1 DEF Own, Wanted, Setting, Ask, HostTyped, Idle, NoCommand
  <2> QED BY <2>2, <2>3 DEF Clean, Own
<1>6. NothingInherited'
  BY DEF NothingInherited
<1>7. Counted' /\ Obeyed'
  <2>1. ~missed => cmd[t].of = session /\ \A u \in CmdTasks : u # t => Idle(u)
    BY <1>4, Alone
  <2>2. ~missed => last' = "ON" /\ Setting'
    BY <2>1, <1>4 DEF Ask, Setting, Idle, HostTyped, NoCommand
  <2> QED BY <2>2 DEF Counted, Obeyed
<1>8. Budgeted'
  BY DEF Budgeted, Held, SeenTyped
<1> QED BY <1>1, <1>2, <1>3, <1>4, <1>5, <1>6, <1>7, <1>8

\* The stream is notified.
LEMMA KeptByCmdNotifyOn ==
  ASSUME Invariance, NEW t \in CmdTasks, CmdNotifyOn(t) PROVE Invariance'
<1> USE DEF Invariance, Typed, CmdNotifyOn, hostVars, flagVars, paceVars, seenVars,
   Notify
<1>1. HostTyped' /\ RspTyped'
  <2>1. up' \in BOOLEAN /\ connected' \in BOOLEAN
    BY Zenon DEF HostTyped, RspTyped
  <2> QED BY <2>1 DEF HostTyped, RspTyped, Settings, CmdTasks, NoCommand, CmdBits,
     FrameBits
<1>2. FlagsTyped' /\ PaceTyped' /\ BoolsTyped' /\ SeenTyped'
  BY DEF FlagsTyped, PaceTyped, BoolsTyped, SeenTyped
<1>3. RespTyped'
  BY DEF RespTyped
<1>4. Present' /\ Serving' /\ ~Idle(t)
  BY DEF Present, Serving, Idle, HostTyped, NoCommand
<1>5. Clean' /\ Own'
  <2>1. ~missed => ~AllIdle
    BY <1>4, Alone
  <2>2. ~missed' => connected' \/ up'
    BY <2>1 DEF Clean
  <2>3. Wanted
    BY DEF Wanted, Setting
  <2> QED BY <2>2, <2>3 DEF Clean, Own
<1>6. NothingInherited'
  BY DEF NothingInherited
<1>7. Counted' /\ Obeyed'
  <2>1. Setting /\ (~missed => ~Setting')
    <3>1. ~missed => \A u \in CmdTasks : u # t => Idle(u)
      BY <1>4, Alone
    <3> QED BY <3>1 DEF Setting, Idle, HostTyped
  <2> QED BY <2>1 DEF Counted, Obeyed
<1>8. Budgeted'
  BY DEF Budgeted, Held, SeenTyped
<1> QED BY <1>1, <1>2, <1>3, <1>4, <1>5, <1>6, <1>7, <1>8

\* A stop is notified.
LEMMA KeptByCmdStop ==
  ASSUME Invariance, NEW t \in CmdTasks, NEW bit \in {"OFF", "REQ"}, CmdStop(t, bit)
  PROVE  Invariance'
<1> USE DEF Invariance, Typed, CmdStop, hostVars, flagVars, paceVars, seenVars,
   Command, Notify
<1>1. HostTyped' /\ RspTyped'
  <2>1. up' \in BOOLEAN /\ connected' \in BOOLEAN
    BY Zenon DEF HostTyped, RspTyped
  <2> QED BY <2>1 DEF HostTyped, RspTyped, Settings, CmdTasks, NoCommand, CmdBits,
     FrameBits
<1>2. FlagsTyped' /\ PaceTyped' /\ BoolsTyped' /\ SeenTyped'
  BY DEF Ask, FlagsTyped, PaceTyped, BoolsTyped, SeenTyped
<1>3. RespTyped'
  BY DEF RespTyped
<1>4. Present' /\ Serving' /\ ~Idle(t)
  BY DEF Present, Serving, Idle, HostTyped, NoCommand
<1>5. Clean' /\ Own'
  <2>1. ~missed => ~AllIdle /\ cmd[t].of = session
    BY <1>4, Alone
  <2>2. ~missed' => connected' \/ up'
    BY <2>1 DEF Clean
  <2>3. ~missed' => (Wanted' => asked')
    BY <2>1 DEF Own, Wanted, Setting, Ask, HostTyped, Idle, NoCommand
  <2> QED BY <2>2, <2>3 DEF Clean, Own
<1>6. NothingInherited'
  BY DEF NothingInherited
<1>7. Counted' /\ Obeyed'
  <2>1. ~missed => cmd[t].of = session /\ \A u \in CmdTasks : u # t => Idle(u)
    BY <1>4, Alone
  <2>2. ~missed => last' = bit /\ ~Setting'
    BY <2>1, <1>4 DEF Ask, Setting, Idle, HostTyped, NoCommand
  <2> QED BY <2>2 DEF Counted, Obeyed
<1>8. Budgeted'
  BY DEF Budgeted, Held, SeenTyped
<1> QED BY <1>1, <1>2, <1>3, <1>4, <1>5, <1>6, <1>7, <1>8

\* The answer is the session's.
LEMMA KeptByCmdAck ==
  ASSUME Invariance, NEW t \in CmdTasks, CmdAck(t) PROVE Invariance'
<1> USE DEF Invariance, Typed, CmdAck, hostVars, flagVars, paceVars, seenVars
<1>1. HostTyped' /\ RspTyped'
  <2>1. up' \in BOOLEAN /\ connected' \in BOOLEAN
    BY Zenon DEF HostTyped, RspTyped
  <2> QED BY <2>1 DEF HostTyped, RspTyped, Settings, CmdTasks, NoCommand, CmdBits,
     FrameBits
<1>2. FlagsTyped' /\ PaceTyped' /\ BoolsTyped' /\ SeenTyped'
  BY DEF FlagsTyped, PaceTyped, BoolsTyped, SeenTyped
<1>3. /\ RespTyped'
      /\ ~missed => \A i \in 1..Len(responses') : responses'[i] = session
  <2>1. cmd[t].of \in 1..MaxSessions
    BY DEF HostTyped, Serving, Idle
  <2>2. ~missed => cmd[t].of = session
    BY DEF Serving, Idle
  <2> QED BY <2>1, <2>2, Responded DEF Own
<1>4. Present' /\ Serving' /\ ~Idle(t)
  BY DEF Present, Serving, Idle, HostTyped, NoCommand
<1>5. Clean' /\ Own'
  <2>1. ~missed => ~AllIdle
    BY <1>4, Alone
  <2>2. ~missed' => connected' \/ up'
    BY <2>1 DEF Clean
  <2>3. Setting' => Setting
    BY DEF Setting, HostTyped, NoCommand
  <2> QED BY <1>3, <2>2, <2>3 DEF Clean, Own, Wanted
<1>6. NothingInherited'
  BY DEF NothingInherited
<1>7. Counted' /\ Obeyed'
  <2>1. Setting' <=> Setting
    BY DEF Setting, HostTyped, NoCommand
  <2> QED BY <2>1 DEF Counted, Obeyed, Streaming
<1>8. Budgeted'
  BY DEF Budgeted, Held, SeenTyped
<1> QED BY <1>1, <1>2, <1>3, <1>4, <1>5, <1>6, <1>7, <1>8

\* ... and so it is of a command that only answers.
LEMMA KeptByCmdOther ==
  ASSUME Invariance, NEW t \in CmdTasks, CmdOther(t) PROVE Invariance'
<1> USE DEF Invariance, Typed, CmdOther, hostVars, flagVars, paceVars, seenVars, Command
<1>1. HostTyped' /\ RspTyped'
  <2>1. up' \in BOOLEAN /\ connected' \in BOOLEAN
    BY Zenon DEF HostTyped, RspTyped
  <2> QED BY <2>1 DEF HostTyped, RspTyped, Settings, CmdTasks, NoCommand, CmdBits,
     FrameBits
<1>2. FlagsTyped' /\ PaceTyped' /\ BoolsTyped' /\ SeenTyped'
  BY DEF FlagsTyped, PaceTyped, BoolsTyped, SeenTyped
<1>3. /\ RespTyped'
      /\ ~missed => \A i \in 1..Len(responses') : responses'[i] = session
  <2>1. cmd[t].of \in 1..MaxSessions
    BY DEF HostTyped, Serving, Idle
  <2>2. ~missed => cmd[t].of = session
    BY DEF Serving, Idle
  <2> QED BY <2>1, <2>2, Responded DEF Own
<1>4. Present' /\ Serving' /\ ~Idle(t)
  BY DEF Present, Serving, Idle, HostTyped, NoCommand
<1>5. Clean' /\ Own'
  <2>1. ~missed => ~AllIdle
    BY <1>4, Alone
  <2>2. ~missed' => connected' \/ up'
    BY <2>1 DEF Clean
  <2>3. Setting' => Setting
    BY DEF Setting, HostTyped, NoCommand
  <2> QED BY <1>3, <2>2, <2>3 DEF Clean, Own, Wanted
<1>6. NothingInherited'
  BY DEF NothingInherited
<1>7. Counted' /\ Obeyed'
  <2>1. Setting' <=> Setting
    BY DEF Setting, HostTyped, NoCommand
  <2> QED BY <2>1 DEF Counted, Obeyed, Streaming
<1>8. Budgeted'
  BY DEF Budgeted, Held, SeenTyped
<1> QED BY <1>1, <1>2, <1>3, <1>4, <1>5, <1>6, <1>7, <1>8

\* A frame is no command.
LEMMA KeptByLepFrame == ASSUME Invariance, LepFrame PROVE Invariance'
<1> USE DEF Invariance, Typed, LepFrame, hostVars, flagVars, paceVars, seenVars, Notify
<1>1. HostTyped' /\ RspTyped'
  <2>1. up' \in BOOLEAN /\ connected' \in BOOLEAN
    BY Zenon DEF HostTyped, RspTyped
  <2> QED BY <2>1 DEF HostTyped, RspTyped, Settings, CmdBits, FrameBits
<1>2. FlagsTyped' /\ PaceTyped' /\ BoolsTyped' /\ SeenTyped'
  BY DEF FlagsTyped, PaceTyped, BoolsTyped, SeenTyped
<1>3. RespTyped'
  BY DEF RespTyped
<1>4. Present' /\ Serving'
  BY DEF Present, Serving, Idle, HostTyped
<1>5. Clean' /\ Own'
  BY DEF Clean, Own, Wanted, Setting, AllIdle, Idle, CmdBits, FrameBits
<1>6. NothingInherited'
  BY DEF NothingInherited, Own, Wanted
<1>7. Counted' /\ Obeyed'
  BY DEF Counted, Obeyed, Streaming, Setting, CmdBits, FrameBits
<1>8. Budgeted'
  BY DEF Budgeted, Held, SeenTyped
<1> QED BY <1>1, <1>2, <1>3, <1>4, <1>5, <1>6, <1>7, <1>8

\* Time takes nothing away.
LEMMA KeptByClock == ASSUME Invariance, Clock PROVE Invariance'
<1> USE DEF Invariance, Typed, Clock, hostVars, flagVars, paceVars, seenVars
<1>1. HostTyped' /\ RspTyped'
  <2>1. up' \in BOOLEAN /\ connected' \in BOOLEAN
    BY Zenon DEF HostTyped, RspTyped
  <2> QED BY <2>1 DEF HostTyped, RspTyped, Settings, CmdBits, FrameBits
<1>2. FlagsTyped' /\ PaceTyped' /\ BoolsTyped' /\ SeenTyped'
  BY DEF FlagsTyped, PaceTyped, BoolsTyped, SeenTyped
<1>3. RespTyped'
  BY DEF RespTyped
<1>4. Present' /\ Serving'
  BY DEF Present, Serving, Idle, HostTyped
<1>5. Clean' /\ Own'
  BY DEF Clean, Own, Wanted, Setting, AllIdle, Idle, CmdBits, FrameBits
<1>6. NothingInherited'
  BY DEF NothingInherited, Own, Wanted
<1>7. Counted' /\ Obeyed'
  BY DEF Counted, Obeyed, Streaming, Setting, CmdBits, FrameBits
<1>8. Budgeted'
  BY DEF Budgeted, Held, SeenTyped
<1> QED BY <1>1, <1>2, <1>3, <1>4, <1>5, <1>6, <1>7, <1>8

\* The notifications are taken at the top of the loop.
LEMMA KeptByRspTop == ASSUME Invariance, RspTop PROVE Invariance'
<1> USE DEF Invariance, Typed, RspTop, hostVars, flagVars, paceVars, seenVars, At, Goto
<1>1. /\ EvalStreamReady \in BOOLEAN /\ (~streamOn => (EvalStreamReady <=> pending))
      /\ ProcessNotifications(EvalStreamReady)
  BY Zenon DEF FlagsTyped, EvalStreamReady
<1>2. HostTyped' /\ FlagsTyped' /\ PaceTyped' /\ BoolsTyped' /\ SeenTyped'
  <2>1. due' \in BOOLEAN
    BY Zenon DEF PaceTyped
  <2>2. HostTyped'
    BY DEF HostTyped
  <2>3. /\ FlagsTyped' /\ SeenTyped'
        /\ cur' \in Settings /\ remaining' \in Nat /\ clash' \in BOOLEAN
        /\ UNCHANGED <<asked, owed, inherited, missed>>
    BY <1>1, FlagsProcessed
  <2>4. PaceTyped' /\ BoolsTyped'
    BY ONLY <2>1, <2>3, BoolsTyped DEF PaceTyped, BoolsTyped
  <2> QED BY <2>2, <2>3, <2>4
<1>3. RspTyped'
  <2>1. note' = {}
    BY <1>1, FlagsProcessed
  <2> QED BY <2>1 DEF RspTyped
<1>4. RespTyped'
  BY DEF RespTyped
<1>5. Present'
  BY DEF Present, HostTyped
<1>6. Serving' /\ Clean' /\ Own' /\ NothingInherited' /\ Obeyed'
  BY <1>1, CommandsProcessed
<1>7. Counted' /\ Budgeted'
  BY <1>1, BudgetProcessed
<1> QED BY <1>2, <1>3, <1>4, <1>5, <1>6, <1>7

\* ... and at its bottom.
LEMMA KeptByRspWait == ASSUME Invariance, RspWait PROVE Invariance'
<1> USE DEF Invariance, Typed, RspWait, hostVars, flagVars, paceVars, seenVars, At, Goto
<1>1. pending \in BOOLEAN /\ (~streamOn => (pending <=> pending)) /\ ProcessNotifications(pending)
  BY Zenon DEF FlagsTyped
<1>2. HostTyped' /\ FlagsTyped' /\ PaceTyped' /\ BoolsTyped' /\ SeenTyped'
  <2>1. due' \in BOOLEAN
    BY Zenon DEF PaceTyped
  <2>2. HostTyped'
    BY DEF HostTyped
  <2>3. /\ FlagsTyped' /\ SeenTyped'
        /\ cur' \in Settings /\ remaining' \in Nat /\ clash' \in BOOLEAN
        /\ UNCHANGED <<asked, owed, inherited, missed>>
    BY <1>1, FlagsProcessed
  <2>4. PaceTyped' /\ BoolsTyped'
    BY ONLY <2>1, <2>3, BoolsTyped DEF PaceTyped, BoolsTyped
  <2> QED BY <2>2, <2>3, <2>4
<1>3. RspTyped'
  <2>1. note' = {}
    BY <1>1, FlagsProcessed
  <2> QED BY <2>1 DEF RspTyped
<1>4. RespTyped'
  BY DEF RespTyped
<1>5. Present'
  BY DEF Present, HostTyped
<1>6. Serving' /\ Clean' /\ Own' /\ NothingInherited' /\ Obeyed'
  BY <1>1, CommandsProcessed
<1>7. Counted' /\ Budgeted'
  BY <1>1, BudgetProcessed
<1> QED BY <1>2, <1>3, <1>4, <1>5, <1>6, <1>7

\* The session is seen, or its end.
LEMMA KeptByRspConnection == ASSUME Invariance, RspConnection PROVE Invariance'
<1> USE DEF Invariance, Typed, RspConnection, hostVars, flagVars, paceVars, seenVars,
   At, Goto
<1>1. HostTyped' /\ RspTyped'
  <2>1. up' \in BOOLEAN /\ connected' \in BOOLEAN
    BY Zenon DEF HostTyped, RspTyped
  <2> QED BY <2>1 DEF HostTyped, RspTyped, Settings, CmdBits, FrameBits
<1>2. FlagsTyped' /\ PaceTyped' /\ BoolsTyped' /\ SeenTyped'
  BY DEF FlagsTyped, PaceTyped, BoolsTyped, SeenTyped
<1>3. RespTyped'
  BY DEF RespTyped
<1>4. Present' /\ Serving'
  BY DEF Present, Serving, Idle, HostTyped
<1>5. Clean' /\ Own'
  BY DEF Clean, Own, Wanted, Setting, AllIdle, Idle, CmdBits, FrameBits
<1>6. NothingInherited'
  BY DEF NothingInherited, Own, Wanted
<1>7. Counted' /\ Obeyed'
  BY DEF Counted, Obeyed, Streaming, Setting, CmdBits, FrameBits
<1>8. Budgeted'
  BY DEF Budgeted, Held, SeenTyped
<1> QED BY <1>1, <1>2, <1>3, <1>4, <1>5, <1>6, <1>7, <1>8

\* Nothing is left of the session, or a command came too late.
LEMMA KeptByRspClear == ASSUME Invariance, RspClear PROVE Invariance'
<1> USE DEF Invariance, Typed, RspClear, hostVars, flagVars, paceVars, seenVars, At,
   Goto, ForgetStream, Flush
<1>1. HostTyped' /\ RspTyped'
  <2>1. up' \in BOOLEAN /\ connected' \in BOOLEAN
    BY Zenon DEF HostTyped, RspTyped
  <2> QED BY <2>1 DEF HostTyped, RspTyped, Settings, CmdBits, FrameBits
<1>2. FlagsTyped' /\ PaceTyped' /\ BoolsTyped' /\ SeenTyped'
  BY DEF FlagsTyped, PaceTyped, BoolsTyped, SeenTyped
<1>3. RespTyped'
  BY DEF RespTyped
<1>4. Present' /\ Serving'
  BY DEF Present, Serving, Idle, HostTyped
<1>5. Clean' /\ Own'
  <2>1. ~missed' => ~missed /\ ~up /\ note \intersect CmdBits = {} /\ AllIdle
    BY Zenon DEF AllIdle
  <2>2. ~missed' => ~Wanted' /\ AllIdle'
    BY <2>1 DEF Wanted, Setting, AllIdle, Idle, CmdBits
  <2>3. responses' = <<>> /\ Len(responses') = 0
    OBVIOUS
  <2> QED BY <2>1, <2>2, <2>3 DEF Clean, Own
<1>6. NothingInherited'
  BY DEF NothingInherited, Own, Wanted
<1>7. Counted' /\ Obeyed'
  BY DEF Counted, Obeyed, Streaming, Setting, CmdBits, FrameBits
<1>8. Budgeted'
  <2>1. Held' = 0 /\ Held \in Nat /\ ~streamOn' /\ count' = count /\ budget' = budget
    BY DEF Held
  <2>2. count.sent \in Nat /\ budget \in Nat /\ remaining \in Nat
    BY DEF SeenTyped, PaceTyped
  <2> QED BY <2>1, <2>2 DEF Budgeted
<1> QED BY <1>1, <1>2, <1>3, <1>4, <1>5, <1>6, <1>7, <1>8

\* An image of a half is sent and counted down.
LEMMA KeptByRspImage ==
  ASSUME Invariance, NEW n \in {0, 1}, NEW uploading \in BOOLEAN, NEW lost \in BOOLEAN,
         RspImage(n, uploading, lost)
  PROVE  Invariance'
<1> USE DEF Invariance, Typed, RspImage, hostVars, flagVars, paceVars, seenVars, At,
   Goto, CountDown, Sends
<1>1. /\ remaining' = IF streamOn /\ cur.num # 0 THEN remaining - 1 ELSE remaining
      /\ streamOn' <=> streamOn /\ ~(cur.num # 0 /\ remaining = 1)
      /\ streamOn' \in BOOLEAN
      /\ cur.num \in Nat /\ count.sent \in Nat /\ budget \in Nat /\ remaining \in Nat
  <2>1. streamOn' = (streamOn /\ ~((streamOn /\ cur.num # 0) /\ remaining = 1))
    BY Zenon
  <2>2. streamOn' \in BOOLEAN /\ (streamOn' <=> streamOn /\ ~(cur.num # 0 /\ remaining = 1))
    BY ONLY <2>1, Zenon
  <2>3. cur.num \in Nat /\ count.sent \in Nat /\ budget \in Nat /\ remaining \in Nat
    BY DEF PaceTyped, SeenTyped, Settings, NoStream
  <2> QED BY <2>2, <2>3
<1>2. HostTyped' /\ RspTyped'
  <2>1. up' \in BOOLEAN /\ connected' \in BOOLEAN
    BY Zenon DEF HostTyped, RspTyped
  <2> QED BY <2>1 DEF HostTyped, RspTyped, Settings, CmdBits, FrameBits
<1>3. FlagsTyped' /\ PaceTyped' /\ BoolsTyped' /\ SeenTyped'
  <2>1. FlagsTyped'
    BY <1>1 DEF FlagsTyped
  <2>2. PaceTyped'
    <3>1. remaining' \in Nat
      BY ONLY <1>1, Counted DEF Counted
    <3> QED BY <3>1 DEF PaceTyped
  <2>3. owed' \in BOOLEAN /\ inherited' \in BOOLEAN
    BY Zenon
  <2>4. BoolsTyped'
    BY <2>3 DEF BoolsTyped
  <2>5. SeenTyped'
    BY DEF SeenTyped
  <2> QED BY <2>1, <2>2, <2>4, <2>5
<1>4. RespTyped'
  BY DEF RespTyped
<1>5. Present' /\ Serving'
  BY DEF Present, Serving, Idle, HostTyped
<1>6. Clean' /\ Own'
  BY DEF Clean, Own, Wanted, Setting, AllIdle, Idle, CmdBits, FrameBits
<1>7. NothingInherited'
  BY DEF NothingInherited, Own, Wanted
<1>8. Counted' /\ Obeyed'
  <2>1. Counted'
    <3>1. cur' = cur
      OBVIOUS
    <3> QED BY ONLY <3>1, <1>1, Counted DEF Counted
  <2>2. Obeyed'
    <3>1. Streaming => Streaming'
      <4>1. cur' = cur /\ next' = next
        OBVIOUS
      <4> QED BY ONLY <4>1, <1>1 DEF Streaming
    <3>2. (up' => up) /\ UNCHANGED <<missed, clash, cmd, last, note>>
      BY Zenon
    <3> QED BY ONLY <3>1, <3>2, <1>1, Obeyed DEF Obeyed, Setting
  <2> QED BY <2>1, <2>2
<1>9. Budgeted'
  <2>1. count'.sent = count.sent \/ count'.sent = count.sent + 1
    BY DEF SeenTyped
  <2>2. Held' = Held - 1 /\ Held \in 0..3
    <3>1. pending \in BOOLEAN /\ got \subseteq {0, 1} /\ n \in got
      BY DEF FlagsTyped
    <3>2. n \in {0, 1} /\ got' = got \ {n} /\ pending' = pending
      OBVIOUS
    <3> QED BY ONLY <3>1, <3>2 DEF Held
  <2>3. cur' = cur /\ budget' = budget
    OBVIOUS
  <2> QED BY ONLY <1>1, <2>1, <2>2, <2>3, Budgeted, Counted DEF Budgeted, Counted,
     NoBudget
<1> QED BY <1>2, <1>3, <1>4, <1>5, <1>6, <1>7, <1>8, <1>9

\* No image is due.
LEMMA KeptByRspNoImage == ASSUME Invariance, RspNoImage PROVE Invariance'
<1> USE DEF Invariance, Typed, RspNoImage, hostVars, flagVars, paceVars, seenVars, At,
   Goto
<1>1. HostTyped' /\ RspTyped'
  <2>1. up' \in BOOLEAN /\ connected' \in BOOLEAN
    BY Zenon DEF HostTyped, RspTyped
  <2> QED BY <2>1 DEF HostTyped, RspTyped, Settings, CmdBits, FrameBits
<1>2. FlagsTyped' /\ PaceTyped' /\ BoolsTyped' /\ SeenTyped'
  BY DEF FlagsTyped, PaceTyped, BoolsTyped, SeenTyped
<1>3. RespTyped'
  BY DEF RespTyped
<1>4. Present' /\ Serving'
  BY DEF Present, Serving, Idle, HostTyped
<1>5. Clean' /\ Own'
  BY DEF Clean, Own, Wanted, Setting, AllIdle, Idle, CmdBits, FrameBits
<1>6. NothingInherited'
  BY DEF NothingInherited, Own, Wanted
<1>7. Counted' /\ Obeyed'
  BY DEF Counted, Obeyed, Streaming, Setting, CmdBits, FrameBits
<1>8. Budgeted'
  BY DEF Budgeted, Held, SeenTyped
<1> QED BY <1>1, <1>2, <1>3, <1>4, <1>5, <1>6, <1>7, <1>8

\* The oldest answer is the session's.
LEMMA KeptByRspRespond ==
  ASSUME Invariance, NEW lost \in BOOLEAN, RspRespond(lost) PROVE Invariance'
<1> USE DEF Invariance, Typed, RspRespond, hostVars, flagVars, paceVars, seenVars, At,
   Goto, Sends
<1>1. HostTyped' /\ RspTyped'
  <2>1. up' \in BOOLEAN /\ connected' \in BOOLEAN
    BY Zenon DEF HostTyped, RspTyped
  <2> QED BY <2>1 DEF HostTyped, RspTyped, Settings, CmdBits, FrameBits
<1>2. FlagsTyped' /\ PaceTyped' /\ BoolsTyped' /\ SeenTyped'
  BY DEF FlagsTyped, PaceTyped, BoolsTyped, SeenTyped
<1>3. RespTyped' /\ (~missed => \A i \in 1..Len(responses') : responses'[i] = session)
  <2>1. CASE responses = <<>>
    BY <2>1 DEF RespTyped, Own
  <2>2. CASE responses # <<>>
    <3>1. /\ responses' \in Seq(1..MaxSessions) /\ Len(responses') = Len(responses) - 1
          /\ Len(responses) \in Nat /\ Len(responses) > 0
          /\ \A i \in 1..(Len(responses) - 1) : responses'[i] = responses[i + 1]
      BY <2>2 DEF RespTyped
    <3>2. \A i \in 1..(Len(responses) - 1) : i + 1 \in 1..Len(responses)
      BY <3>1
    <3>3. RespTyped'
      BY <3>1 DEF RespTyped
    <3>4. ~missed => \A i \in 1..Len(responses') : responses'[i] = session
      BY ONLY <3>1, <3>2, Own DEF Own
    <3> QED BY <3>3, <3>4
  <2> QED BY <2>1, <2>2
<1>4. Present' /\ Serving'
  BY DEF Present, Serving, Idle, HostTyped
<1>5. Clean' /\ Own'
  <2>1. Clean'
    <3>1. up' = up \/ connected
      BY Zenon DEF HostTyped
    <3> QED BY <3>1 DEF Clean, Wanted, Setting, AllIdle, Idle
  <2>2. Own'
    <3>1. UNCHANGED <<missed, asked, session, got, pending, streamOn, note, cmd>>
      OBVIOUS
    <3> QED BY ONLY <3>1, <1>3, Own DEF Own, Wanted, Setting
  <2> QED BY <2>1, <2>2
<1>6. NothingInherited'
  <2>1. responses # <<>> /\ ~missed => Head(responses) = session
    <3>1. responses # <<>> => Head(responses) = responses[1] /\ 1 \in 1..Len(responses)
      BY DEF RespTyped
    <3> QED BY <3>1 DEF Own
  <2>2. inherited' <=> \/ inherited
                       \/ connected /\ up /\ responses # <<>> /\ ~lost /\ Head(responses) # session
    BY Zenon
  <2> QED BY <2>1, <2>2 DEF NothingInherited
<1>7. Counted' /\ Obeyed'
  BY DEF Counted, Obeyed, Streaming, Setting, CmdBits, FrameBits
<1>8. Budgeted'
  BY DEF Budgeted, Held, SeenTyped
<1> QED BY <1>1, <1>2, <1>3, <1>4, <1>5, <1>6, <1>7, <1>8

\* No step breaks it.
LEMMA StepInvariance == ASSUME Invariance, [Next]_vars PROVE Invariance'
<1>1. CASE UNCHANGED vars
  BY <1>1 DEF vars, hostVars, flagVars, paceVars, seenVars, Invariance, Typed,
     HostTyped, RspTyped, FlagsTyped, PaceTyped, RespTyped, BoolsTyped, SeenTyped,
     Present, Serving, Idle, Setting, AllIdle, Clean, Wanted, Own, NothingInherited,
     Counted, Obeyed, Streaming, Budgeted, Held
<1>2. CASE Client
  BY <1>2, KeptByConnect, KeptByDisconnect, KeptByReceive DEF Client
<1>3. ASSUME NEW t \in CmdTasks, CmdRun(t) PROVE Invariance'
  BY <1>3, KeptByCmdGetImage, KeptByCmdOther, KeptByCmdStreamOn, KeptByCmdStop,
     KeptByCmdNotifyOn, KeptByCmdAck DEF CmdRun
<1>4. CASE LepFrame \/ Clock
  BY <1>4, KeptByLepFrame, KeptByClock
<1>5. CASE Rsp
  BY <1>5, KeptByRspTop, KeptByRspWait, KeptByRspConnection, KeptByRspClear,
     KeptByRspImage, KeptByRspNoImage, KeptByRspRespond DEF Rsp
<1> QED BY <1>1, <1>2, <1>3, <1>4, <1>5 DEF Next

\* The state of the tasks, the clients and the observations stays what TypeOK
\* says.
THEOREM TypeCorrect == Spec => []TypeOK
<1>1. Invariance => TypeOK
  <2> SUFFICES ASSUME Invariance PROVE TypeOK
    OBVIOUS
  <2> USE DEF Invariance, Typed
  <2>1. {connected, streamOn, pending, due, asked, owed, inherited, missed, clash} \subseteq BOOLEAN
    BY DEF RspTyped, FlagsTyped, PaceTyped, BoolsTyped
  <2> QED BY <2>1 DEF HostTyped, RspTyped, FlagsTyped, PaceTyped, RespTyped,
     SeenTyped, Settings, TypeOK
<1> QED BY <1>1, InitInvariance, StepInvariance, PTL DEF Spec

\* A client is sent nothing another one asked for, unless rsp_task missed the
\* end of a session, however many sessions and answers there are.
THEOREM NothingOfOthers == Spec => []NothingInherited
<1>1. Invariance => NothingInherited
  BY DEF Invariance
<1> QED BY <1>1, InitInvariance, StepInvariance, PTL DEF Spec

\* The last stream command of a session is the one obeyed.
THEOREM LastIsObeyed == Spec => []LastCommandCounts
<1>1. Invariance => LastCommandCounts
  <2> SUFFICES ASSUME Invariance, up, ~missed, ~clash,
                      \A t \in CmdTasks : cmd[t].at \in {"idle", "received"},
                      note \intersect CmdBits = {}
               PROVE  /\ last = "ON" => Streaming
                      /\ last \in {"GET", "OFF", "REQ"} => ~streamOn
    BY DEF LastCommandCounts, Settled, Streaming
  <2>1. last \in CmdBits => last \notin note
    OBVIOUS
  <2> QED BY <2>1 DEF Invariance, Obeyed, Setting, CmdBits
<1> QED BY <1>1, InitInvariance, StepInvariance, PTL DEF Spec

\* A stream of any number of images overshoots by two at most.
THEOREM OvershootIsTwo == Spec => []OvershootBounded
<1>1. Invariance => OvershootBounded
  <2> SUFFICES ASSUME Invariance, budget # NoBudget PROVE count.sent <= budget + 2
    BY DEF OvershootBounded
  <2>1. count.sent \in Nat /\ remaining \in Nat /\ budget \in Nat /\ Held \in Nat
    BY DEF Invariance, Typed, SeenTyped, PaceTyped, Held
  <2> QED BY <2>1 DEF Invariance, Budgeted
<1> QED BY <1>1, InitInvariance, StepInvariance, PTL DEF Spec

\* What get_image has asked for, and was not sent, is still on its way: it is
\* notified, or an image is awaited, or a half of the buffer waits to be sent.
OwedUnderway == up /\ ~missed /\ owed => "GET" \in note \/ pending \/ got # {}

\* No command, no other notification and no lap of rsp_task loses the promise of
\* an image while its client stays: init_state, which would, runs only when
\* rsp_task has seen that nobody is there, or has missed a session.  ImageOwed
\* says that the promise is then kept, of which this is the safety part.
THEOREM PromiseNotLost == Spec => []OwedUnderway
<1>1. Init => OwedUnderway
  BY DEF Init, OwedUnderway
<1>2. ASSUME Invariance, OwedUnderway, [Next]_vars PROVE OwedUnderway'
  <2> USE <1>2 DEF OwedUnderway
  <2>1. CASE UNCHANGED vars
    BY <2>1 DEF vars, hostVars, flagVars, seenVars
  <2>2. CASE Client
    BY <2>2 DEF Client, Connect, Disconnect, Receive, flagVars
  <2>3. ASSUME NEW t \in CmdTasks, CmdRun(t) PROVE OwedUnderway'
    <3>1. CASE CmdGetImage(t)
      BY <3>1 DEF CmdGetImage, Command, Notify
    <3>2. CASE CmdOther(t)
      BY <3>2 DEF CmdOther, Command, flagVars
    <3>3. ASSUME NEW s \in Streams, CmdStreamOn(t, s) PROVE OwedUnderway'
      BY <3>3 DEF CmdStreamOn, Command, Ask, flagVars, Invariance, Typed, BoolsTyped
    <3>4. ASSUME NEW bit \in {"OFF", "REQ"}, CmdStop(t, bit) PROVE OwedUnderway'
      BY <3>4 DEF CmdStop, Command, Notify, Ask, flagVars, Invariance, Typed, BoolsTyped
    <3>5. CASE CmdNotifyOn(t) \/ CmdAck(t)
      BY <3>5 DEF CmdNotifyOn, CmdAck, Notify, flagVars, seenVars
    <3> QED BY <2>3, <3>1, <3>2, <3>3, <3>4, <3>5 DEF CmdRun
  <2>4. ASSUME NEW w \in BOOLEAN, pending => w, UNCHANGED up, ProcessNotifications(w)
        PROVE  OwedUnderway'
    <3>1. CASE w \/ "GET" \in note
      <4>1. "F0" \in note \/ "F1" \in note => got' # {}
        BY <3>1, <2>4 DEF ProcessNotifications
      <4>2. "F0" \notin note /\ "F1" \notin note => pending'
        BY <3>1, <2>4 DEF ProcessNotifications
      <4> QED BY <4>1, <4>2
    <3>2. CASE ~w /\ "GET" \notin note
      <4>1. got \subseteq got' /\ UNCHANGED <<owed, missed>>
        BY <2>4 DEF ProcessNotifications
      <4> QED BY <4>1, <3>2, <2>4
    <3> QED BY <3>1, <3>2
  <2>5. CASE RspTop
    <3>1. EvalStreamReady \in BOOLEAN /\ (pending => EvalStreamReady)
      BY DEF EvalStreamReady, Invariance, Typed, FlagsTyped
    <3> QED BY <2>5, <2>4, <3>1 DEF RspTop, hostVars
  <2>6. CASE RspWait
    BY <2>6, <2>4 DEF RspWait, hostVars, Invariance, Typed, FlagsTyped
  <2>7. CASE LepFrame \/ Clock \/ RspConnection \/ RspNoImage
    BY <2>7 DEF LepFrame, Clock, Notify, RspConnection, RspNoImage, hostVars,
       flagVars, seenVars
  <2>8. CASE RspClear
    BY <2>8 DEF RspClear, Invariance, Typed, HostTyped, BoolsTyped
  <2>9. ASSUME NEW n \in {0, 1}, NEW uploading \in BOOLEAN, NEW lost \in BOOLEAN,
               RspImage(n, uploading, lost)
        PROVE  OwedUnderway'
    BY <2>9 DEF RspImage, Sends, Invariance, Typed, HostTyped
  <2>10. ASSUME NEW lost \in BOOLEAN, RspRespond(lost) PROVE OwedUnderway'
    BY <2>10 DEF RspRespond, Sends, flagVars, Invariance, Typed, HostTyped
  <2> QED BY <2>1, <2>2, <2>3, <2>5, <2>6, <2>7, <2>8, <2>9, <2>10 DEF Next, Rsp
<1> QED BY <1>1, <1>2, InitInvariance, StepInvariance, PTL DEF Spec

=============================================================================
