------------------------------ MODULE CciProofs ------------------------------
(***************************************************************************)
(* Proofs about Cci, for every number of attempts and every bound.          *)
(*                                                                         *)
(* What the properties say of a task at rest is an invariant only together  *)
(* with where a set or a get stands while it is under way: which task is    *)
(* inside the mutex, whose command the sensor runs, and what its registers  *)
(* hold at each access (SetStands, GetStands), as long as nothing that the  *)
(* property excludes has happened.                                          *)
(***************************************************************************)
EXTENDS Cci, FiniteSetTheorems, TLAPS

Ops == {"none", "boot", "run", "set", "get", "rawset", "rawget"}
Calls == [op : Ops, a : Settings, v : 0 .. 2]
Progs == [do : {"none", "config", "raw", "park", "unpark", "ffc", "init"},
          want : 0 .. 1, tries : Nat]
Places == {"idle", "take", "wait", "data", "command", "check", "read", "give", "ret"}

Typed ==
  /\ mutex \in Tasks \union {None} /\ lastErr \in BOOLEAN
  /\ sensor \in [run : Calls, data : 0 .. 2, agc : 0 .. 1, flux : 0 .. 1, shutter : {0, 2}]
  /\ pc \in [Tasks -> Places] /\ call \in [Tasks -> Calls]
  /\ prog \in [Tasks -> Progs] /\ ans \in [Tasks -> 0 .. 3]
  /\ parked \in BOOLEAN /\ lepSt \in [agc : 0 .. 1, flux : 0 .. 1]
  /\ troubles \in Nat /\ clean \in BOOLEAN /\ apart \in BOOLEAN
  /\ touched \in [Tasks -> BOOLEAN] /\ ownErr \in [Tasks -> BOOLEAN]

Configures(t) == prog[t].do \in {"config", "init"}

\* Which task does what, the calls it makes for it, and the accesses of a call.
Sense(t) ==
  /\ (prog[t].do = "none") <=> (pc[t] = "idle")
  /\ prog[t].do \in {"config", "raw", "ffc"} => t = Cmd
  /\ prog[t].do = "init" => t = Lep
  /\ Shuttering(t) => t # Lep
  /\ Configures(t) => \/ call[t].op \in {"set", "get"} /\ call[t].a \in {"agc", "flux"}
                      \/ prog[t].do = "init" /\ call[t] = Run
  /\ Configures(t) /\ call[t].op = "set" => call[t].v = prog[t].want
  /\ prog[t].do = "raw" => call[t] \in RawCalls
  /\ Shuttering(t) => \/ call[t] = Set("shutter", IF prog[t].do = "park" THEN CLOSED ELSE IDLE)
                      \/ prog[t].do = "unpark" /\ call[t] = Run
  /\ prog[t].do = "ffc" => call[t] = Run
  /\ pc[t] = "data" => call[t].op \in {"set", "rawset"}
  /\ pc[t] = "read" => call[t].op \in {"get", "rawget"}

Senses == \A t \in Tasks : Sense(t)

\* The task is between its take and its give of cci_mutex ...
Inside(t) ==
  \/ pc[t] \in {"wait", "data", "command", "check", "give"}
  \/ pc[t] = "read" /\ (call[t].op = "rawget" \/ call[t].a \in ReadInside)

\* ... and then, and only then, it holds it.
Locked == \A t \in Tasks : (mutex = t) <=> Inside(t)

\* While a task's answer is not looked at and nobody used the sensor, nobody is inside.
Untouched == \A t \in Tasks : Unread(t) /\ ~touched[t] => mutex \in {None, t}

\* Nothing was read yet.
Unanswered ==
  \A t \in Tasks :
    \/ pc[t] \in {"take", "wait", "data", "command", "check", "read"}
    \/ pc[t] = "give" /\ call[t].op = "get" /\ call[t].a \notin ReadInside
    => ans[t] = Garbage

\* The flag tells of the raw access from its last wait on.
Status ==
  pc[Cmd] \in {"read", "give", "ret"} /\ prog[Cmd].do = "raw" /\ ~touched[Cmd]
    => (lastErr <=> ownErr[Cmd])

\* What the histories say of the tasks under way.
Alone ==
  /\ clean => \A t, u \in Tasks : Shuttering(t) /\ Shuttering(u) => t = u
  /\ apart => ~(prog[Cmd].do = "config" /\ prog[Lep].do = "init")
  /\ apart => call[Cmd].op # "rawset"
  /\ troubles = 0 => prog[Lep].do # "init"

\* Nothing that could have gone wrong for the task's set did.
Undisturbed(t) ==
  \/ Shuttering(t) /\ clean
  \/ Configures(t) /\ apart
  \/ prog[t].do = "config" /\ troubles = 0

Sets == sensor.run.op \in {"set", "rawset"}
Own(t) == pc[t] = "check" /\ call[t] = sensor.run

\* Whose command the sensor can be executing.
Source ==
  /\ clean /\ Sets /\ sensor.run.a = "shutter" => \E t \in Tasks : Shuttering(t) /\ Own(t)
  /\ apart /\ Sets /\ sensor.run.a # "shutter" => \E t \in Tasks : Configures(t) /\ Own(t)
  /\ troubles = 0 /\ Busy => \E t \in Tasks : Own(t)

\* What sensor and registers hold at each access of a set.
SetStands(t) ==
  /\ pc[t] = "data" => ~Busy
  /\ pc[t] = "command" => ~Busy /\ sensor.data = call[t].v
  /\ pc[t] = "check" /\ Busy => sensor.run = call[t] /\ sensor.data = call[t].v
  /\ pc[t] \in {"give", "ret"} \/ (pc[t] = "check" /\ ~Busy) => sensor[call[t].a] = call[t].v

SetsStand == \A t \in Tasks : Undisturbed(t) /\ call[t].op = "set" => SetStands(t)

\* What an initialisation of the sensor has put into it so far.
InitKnows ==
  apart /\ prog[Lep].do = "init" =>
    /\ call[Lep].op \in {"set", "get"} => prog[Lep].want = lepSt[call[Lep].a]
    /\ call[Lep].op = "get" => sensor[call[Lep].a] = lepSt[call[Lep].a]
    /\ call[Lep].op \in {"set", "get"} /\ call[Lep].a = "flux" => sensor.agc = lepSt.agc

\* set_config: its own setting was written, the other one is untouched.
ConfigKnows ==
  prog[Cmd].do = "config" =>
    /\ (apart \/ troubles = 0) /\ call[Cmd].op = "get" => sensor[call[Cmd].a] = prog[Cmd].want
    /\ apart => \A a \in {"agc", "flux"} \ {call[Cmd].a} : sensor[a] = lepSt[a]

\* What sensor and registers hold at each access of a get in which nothing failed.
GetStands(t) ==
  /\ pc[t] = "check" /\ Busy => sensor.run = call[t]
  /\ pc[t] # "check" => ~Busy
  /\ ~Busy /\ (pc[t] \in {"check", "read"} \/ (pc[t] = "give" /\ call[t].a \notin ReadInside))
       => sensor.data = sensor[call[t].a]
  /\ pc[t] \in {"give", "ret"} /\ ans[t] = prog[t].want => sensor[call[t].a] = prog[t].want

\* The set before the get went well, and nobody has disturbed it since.
SetBefore(t) == sensor[call[t].a] = prog[t].want /\ (Busy => sensor.run = call[t])

\* A get under way for a write that is checked.
Checking(t) ==
  /\ Configures(t) /\ call[t].op = "get" /\ ~touched[t]
  /\ pc[t] \in {"command", "check", "read", "give", "ret"}

\* One failure spoils the set or the get, not both.
OneSpoils == troubles <= 1 => \A t \in Tasks : Checking(t) => SetBefore(t) \/ GetStands(t)

Kept ==
  /\ Typed /\ Senses /\ Locked /\ Untouched /\ Unanswered /\ Status /\ Alone
  /\ Source /\ SetsStand /\ InitKnows /\ ConfigKnows /\ OneSpoils
  /\ ParkAgrees /\ ConfigAgrees

-----------------------------------------------------------------------------
\* Four elements are all different.
LEMMA Four ==
  ASSUME NEW a, NEW b, NEW c, Cardinality({a, b, c}) = 4 PROVE FALSE
<1>1. IsFiniteSet({}) /\ Cardinality({}) = 0
  BY FS_EmptySet
<1>2. IsFiniteSet({a}) /\ Cardinality({a}) \in 0 .. 1
  <2>1. {a} = {} \union {a}
    OBVIOUS
  <2> QED BY <1>1, <2>1, FS_AddElement
<1>3. IsFiniteSet({a, b}) /\ Cardinality({a, b}) \in 0 .. 2
  <2>1. {a, b} = {a} \union {b}
    OBVIOUS
  <2> QED BY <1>2, <2>1, FS_AddElement
<1>4. Cardinality({a, b, c}) \in 0 .. 3
  <2>1. {a, b, c} = {a, b} \union {c}
    OBVIOUS
  <2> QED BY <1>3, <2>1, FS_AddElement
<1> QED BY <1>4

\* The tasks are three, and none of them is None.
LEMMA TasksDiffer ==
  /\ Cmd \in Tasks /\ Lep \in Tasks /\ Rsp \in Tasks /\ None \notin Tasks
  /\ Cmd # Lep /\ Cmd # Rsp /\ Lep # Rsp
<1>1. Cmd # Lep
  <2>1. Cmd = Lep => {Cmd, Lep, Rsp, None} = {Lep, Rsp, None}
    OBVIOUS
  <2> QED BY <2>1, Four, TasksDistinct, Zenon DEF TasksDistinct
<1>2. Cmd # Rsp
  <2>1. Cmd = Rsp => {Cmd, Lep, Rsp, None} = {Lep, Rsp, None}
    OBVIOUS
  <2> QED BY <2>1, Four, TasksDistinct, Zenon DEF TasksDistinct
<1>3. Lep # Rsp
  <2>1. Lep = Rsp => {Cmd, Lep, Rsp, None} = {Cmd, Rsp, None}
    OBVIOUS
  <2> QED BY <2>1, Four, TasksDistinct, Zenon DEF TasksDistinct
<1>4. None \notin Tasks
  <2>1. None \in Tasks => {Cmd, Lep, Rsp, None} = {Cmd, Lep, Rsp}
    BY DEF Tasks
  <2> QED BY <2>1, Four, TasksDistinct, Zenon DEF TasksDistinct
<1> QED BY <1>1, <1>2, <1>3, <1>4 DEF Tasks

\* The invariant at the beginning.
LEMMA InitKept == ASSUME Init PROVE Kept
<1> USE DEF Init, NoCall, NoProg, Fresh
<1>1. Typed
  <2>1. /\ mutex \in Tasks \union {None}
        /\ sensor \in [run : Calls, data : 0 .. 2, agc : 0 .. 1, flux : 0 .. 1, shutter : {0, 2}]
        /\ pc \in [Tasks -> Places] /\ call \in [Tasks -> Calls]
        /\ prog \in [Tasks -> Progs] /\ ans \in [Tasks -> 0 .. 3]
        /\ lepSt \in [agc : 0 .. 1, flux : 0 .. 1] /\ troubles \in Nat
    BY DEF Calls, Ops, Settings, Progs, Places, Garbage, IDLE
  <2>2. /\ lastErr \in BOOLEAN /\ parked \in BOOLEAN /\ clean \in BOOLEAN
        /\ apart \in BOOLEAN /\ touched \in [Tasks -> BOOLEAN]
        /\ ownErr \in [Tasks -> BOOLEAN]
    BY Zenon
  <2> QED BY <2>1, <2>2, Zenon DEF Typed
<1>2. \A t \in Tasks : pc[t] = "idle" /\ prog[t].do = "none" /\ call[t].op = "none"
  OBVIOUS
<1>3. Senses
  BY <1>2 DEF Senses, Sense, Configures, Shuttering
<1>4. Locked /\ Untouched /\ Unanswered /\ Status
  BY <1>2, TasksDiffer DEF Locked, Inside, Untouched, Unread, Unanswered, Status
<1>5. ~Busy /\ ~Sets /\ \A t \in Tasks : ~Shuttering(t) /\ ~Configures(t)
  BY <1>2 DEF Busy, Sets, Shuttering, Configures
<1>6. Alone /\ Source /\ SetsStand /\ OneSpoils
  BY <1>2, <1>5, TasksDiffer DEF Alone, Source, SetsStand, OneSpoils, Undisturbed,
     Checking, Configures
<1>7. InitKnows /\ ConfigKnows
  BY <1>2, TasksDiffer DEF InitKnows, ConfigKnows
<1>8. ParkAgrees /\ ConfigAgrees
  BY DEF ParkAgrees, ConfigAgrees, IDLE, CLOSED
<1> QED BY <1>1, <1>3, <1>4, <1>6, <1>7, <1>8 DEF Kept

\* A step that leaves settings, calls and routines as they are, and forgets no failure,
\* keeps what is known between the calls.
LEMMA SettingsStay ==
  ASSUME Kept, UNCHANGED <<call, prog, parked, lepSt>>,
         \A a \in Settings : sensor'[a] = sensor[a],
         clean' => clean, apart' => apart, troubles' = 0 => troubles = 0
  PROVE  Alone' /\ InitKnows' /\ ConfigKnows' /\ ParkAgrees' /\ ConfigAgrees'
<1> USE DEF Kept, Configures, Shuttering
<1>1. sensor'.agc = sensor.agc /\ sensor'.flux = sensor.flux /\ sensor'.shutter = sensor.shutter
  BY DEF Settings
<1>2. Alone'
  BY DEF Alone
<1>3. InitKnows'
  <2>1. call[Lep].a \in Settings
    BY TasksDiffer DEF Typed, Calls
  <2> QED BY <1>1, <2>1 DEF InitKnows
<1>4. ConfigKnows'
  <2>1. call[Cmd].a \in Settings
    BY TasksDiffer DEF Typed, Calls
  <2> QED BY <1>1, <2>1 DEF ConfigKnows
<1>5. ParkAgrees'
  BY <1>1 DEF ParkAgrees
<1>6. ConfigAgrees'
  BY <1>1 DEF ConfigAgrees
<1> QED BY <1>2, <1>3, <1>4, <1>5, <1>6

\* A step of a routine, between two calls, keeps what is known of the calls under way.
LEMMA CallsStay ==
  ASSUME Kept, NEW t \in Tasks, NEW l \in {"idle", "take"}, pc[t] \in {"idle", "ret"},
         Goto(t, l), UNCHANGED <<mutex, sensor, troubles>>,
         t # Cmd => UNCHANGED lastErr,
         l = "take" => ans'[t] = Garbage,
         \A u \in Tasks \ {t} : /\ call'[u] = call[u] /\ prog'[u] = prog[u] /\ ans'[u] = ans[u]
                                /\ touched'[u] = touched[u] /\ ownErr'[u] = ownErr[u],
         clean' => clean, apart' => apart
  PROVE  Locked' /\ Untouched' /\ Unanswered' /\ Status' /\ Source' /\ SetsStand' /\ OneSpoils'
<1> USE DEF Kept
<1>1. /\ pc'[t] = l /\ \A u \in Tasks \ {t} : pc'[u] = pc[u]
      /\ \A u \in Tasks : mutex = u => u # t
  BY DEF Goto, Typed, Locked, Inside
<1>2. Locked'
  BY <1>1 DEF Locked, Inside
<1>3. Untouched'
  BY <1>1 DEF Untouched, Unread
<1>4. Unanswered'
  BY <1>1 DEF Unanswered
<1>5. Status'
  BY <1>1, TasksDiffer DEF Status
<1>6. Source'
  <2>1. \A u \in Tasks : Own(u) => u # t
    BY DEF Own
  <2>2. \A u \in Tasks : u # t /\ Own(u) => Own(u)'
    BY <1>1 DEF Own
  <2>3. \A u \in Tasks : u # t => /\ Shuttering(u)' <=> Shuttering(u)
                                  /\ Configures(u)' <=> Configures(u)
    BY DEF Shuttering, Configures
  <2> QED BY <2>1, <2>2, <2>3 DEF Source, Sets, Busy
<1>7. SetsStand'
  <2>1. SUFFICES ASSUME NEW u \in Tasks, Undisturbed(u)', call'[u].op = "set" PROVE SetStands(u)'
    BY DEF SetsStand
  <2>2. CASE u = t
    BY <1>1, <2>2 DEF SetStands
  <2>3. CASE u # t
    <3>1. Undisturbed(u)
      BY <2>1, <2>3 DEF Undisturbed, Shuttering, Configures
    <3>2. SetStands(u)
      BY <2>1, <2>3, <3>1 DEF SetsStand
    <3> QED BY <1>1, <2>3, <3>2 DEF SetStands, Busy
  <2> QED BY <2>2, <2>3
<1>8. OneSpoils'
  <2>1. SUFFICES ASSUME troubles <= 1, NEW u \in Tasks, Checking(u)'
                 PROVE  (SetBefore(u) \/ GetStands(u))'
    BY DEF OneSpoils
  <2>2. u # t /\ Checking(u)
    BY <1>1, <2>1 DEF Checking, Configures
  <2>3. SetBefore(u) \/ GetStands(u)
    BY <2>1, <2>2 DEF OneSpoils
  <2>4. SetBefore(u) => SetBefore(u)'
    BY <1>1, <2>2 DEF SetBefore, Busy
  <2>5. GetStands(u) => GetStands(u)'
    BY <1>1, <2>2 DEF GetStands, Busy
  <2> QED BY <2>3, <2>4, <2>5
<1> QED BY <1>2, <1>3, <1>5, <1>6, <1>7, <1>8, <1>4

\* What the other tasks do stays as it is, and makes as much sense.
LEMMA OthersMakeSense ==
  ASSUME Kept, NEW t \in Tasks, Sense(t)',
         \A u \in Tasks \ {t} : pc'[u] = pc[u] /\ call'[u] = call[u] /\ prog'[u] = prog[u]
  PROVE  Senses'
<1>1. ASSUME NEW u \in Tasks \ {t} PROVE Sense(u)'
  <2>1. Sense(u)
    BY DEF Kept, Senses
  <2>2. pc'[u] = pc[u] /\ call'[u] = call[u] /\ prog'[u] = prog[u]
    OBVIOUS
  <2> QED BY <2>1, <2>2 DEF Sense, Configures, Shuttering
<1> QED BY <1>1 DEF Senses

\* A routine enters one more call of cci.c ...
LEMMA EnterTyped ==
  ASSUME Typed, NEW t \in Tasks, NEW c \in Calls, Enter(t, c)
  PROVE  /\ pc' \in [Tasks -> Places] /\ call' \in [Tasks -> Calls]
         /\ ans' \in [Tasks -> 0 .. 3]
         /\ pc'[t] = "take" /\ call'[t] = c /\ ans'[t] = Garbage /\ Goto(t, "take")
         /\ \A u \in Tasks \ {t} : /\ pc'[u] = pc[u] /\ call'[u] = call[u] /\ ans'[u] = ans[u]
<1>1. /\ pc \in [Tasks -> Places] /\ call \in [Tasks -> Calls] /\ ans \in [Tasks -> 0 .. 3]
      /\ pc' = [pc EXCEPT ![t] = "take"] /\ call' = [call EXCEPT ![t] = c]
      /\ ans' = [ans EXCEPT ![t] = 3] /\ "take" \in Places
  BY DEF Typed, Enter, Goto, Garbage, Places
<1> QED BY ONLY <1>1, t \in Tasks, c \in Calls DEF Goto, Garbage

\* ... or leaves.
LEMMA LeaveTyped ==
  ASSUME Typed, NEW t \in Tasks, Leave(t)
  PROVE  /\ pc' \in [Tasks -> Places] /\ call' \in [Tasks -> Calls]
         /\ ans' \in [Tasks -> 0 .. 3]
         /\ prog' \in [Tasks -> Progs] /\ touched' \in [Tasks -> BOOLEAN]
         /\ ownErr' \in [Tasks -> BOOLEAN]
         /\ pc'[t] = "idle" /\ call'[t] = NoCall /\ prog'[t] = NoProg /\ Goto(t, "idle")
         /\ \A u \in Tasks \ {t} :
              /\ pc'[u] = pc[u] /\ call'[u] = call[u] /\ ans'[u] = ans[u]
              /\ prog'[u] = prog[u] /\ touched'[u] = touched[u] /\ ownErr'[u] = ownErr[u]
<1>1. /\ pc \in [Tasks -> Places] /\ call \in [Tasks -> Calls] /\ ans \in [Tasks -> 0 .. 3]
      /\ prog \in [Tasks -> Progs]
      /\ pc' = [pc EXCEPT ![t] = "idle"] /\ call' = [call EXCEPT ![t] = NoCall]
      /\ ans' = [ans EXCEPT ![t] = 3] /\ prog' = [prog EXCEPT ![t] = NoProg]
      /\ "idle" \in Places /\ NoCall \in Calls /\ NoProg \in Progs
  BY DEF Typed, Leave, Goto, Garbage, Places, NoCall, NoProg, Calls, Ops, Settings,
     Progs
<1>2. /\ touched \in [Tasks -> BOOLEAN] /\ touched' = [touched EXCEPT ![t] = FALSE]
      /\ ownErr \in [Tasks -> BOOLEAN] /\ ownErr' = [ownErr EXCEPT ![t] = FALSE]
  BY Zenon DEF Typed, Leave
<1>3. touched' \in [Tasks -> BOOLEAN] /\ ownErr' \in [Tasks -> BOOLEAN]
  BY ONLY <1>2, t \in Tasks
<1>4. \A u \in Tasks \ {t} : touched'[u] = touched[u] /\ ownErr'[u] = ownErr[u]
  BY ONLY <1>2
<1>5. /\ pc' \in [Tasks -> Places] /\ call' \in [Tasks -> Calls] /\ ans' \in [Tasks -> 0 .. 3]
      /\ prog' \in [Tasks -> Progs]
      /\ pc'[t] = "idle" /\ call'[t] = NoCall /\ prog'[t] = NoProg
      /\ \A u \in Tasks \ {t} :
              /\ pc'[u] = pc[u] /\ call'[u] = call[u] /\ ans'[u] = ans[u] /\ prog'[u] = prog[u]
  BY ONLY <1>1, t \in Tasks
<1> QED BY <1>1, <1>3, <1>4, <1>5, Zenon DEF Goto

\* After the write comes the read.
LEMMA ReadBackKept == ASSUME Kept, NEW t \in Tasks, ReadBack(t) PROVE Kept'
<1> DEFINE c == Get(call[t].a)
<1>1. Sense(t) /\ call[t] \in Calls /\ prog[t] \in Progs
  BY DEF Kept, Senses, Typed
<1>2. /\ pc[t] = "ret" /\ Configures(t) /\ call[t].op = "set" /\ call[t].a \in {"agc", "flux"}
      /\ call[t].v = prog[t].want
  BY <1>1 DEF ReadBack, Sense, Configures, Run
<1>3. c \in Calls /\ c.op = "get" /\ c.a = call[t].a
  BY <1>1 DEF Calls, Ops, Get
<1>4. /\ pc' \in [Tasks -> Places] /\ call' \in [Tasks -> Calls] /\ ans' \in [Tasks -> 0 .. 3]
      /\ pc'[t] = "take" /\ call'[t] = c /\ ans'[t] = Garbage /\ Goto(t, "take")
      /\ \A u \in Tasks \ {t} : /\ pc'[u] = pc[u] /\ call'[u] = call[u] /\ ans'[u] = ans[u]
  BY <1>3, EnterTyped DEF ReadBack, Kept
<1>5. UNCHANGED <<core, prog, site, touched, ownErr, clean, apart>>
  BY DEF ReadBack
<1> USE DEF core, site
<1>6. Typed'
  BY <1>4, <1>5 DEF Kept, Typed
<1>7. Senses'
  <2>1. Sense(t)'
    BY <1>1, <1>2, <1>3, <1>4, <1>5 DEF Sense, Configures, Shuttering
  <2> QED BY <1>4, <1>5, <2>1, OthersMakeSense
<1>8. Locked' /\ Untouched' /\ Unanswered' /\ Status' /\ Source' /\ SetsStand' /\ OneSpoils'
  BY <1>2, <1>4, <1>5, CallsStay
<1>9. Alone'
  BY <1>3, <1>4, <1>5, TasksDiffer DEF Kept, Alone, Shuttering
<1>10. Undisturbed(t) => sensor[call[t].a] = prog[t].want
  BY <1>2 DEF Kept, SetsStand, SetStands
<1>11. InitKnows'
  BY <1>2, <1>3, <1>4, <1>5, <1>10, TasksDiffer DEF Kept, InitKnows, Undisturbed,
     Configures
<1>12. ConfigKnows'
  BY <1>1, <1>2, <1>3, <1>4, <1>5, <1>10, TasksDiffer
     DEF Kept, ConfigKnows, Undisturbed, Configures, Sense
<1>13. ParkAgrees'
  BY <1>2, <1>3, <1>4, <1>5 DEF Kept, ParkAgrees, Shuttering, Configures
<1>14. ConfigAgrees'
  BY <1>5 DEF Kept, ConfigAgrees
<1> QED BY <1>6, <1>7, <1>8, <1>9, <1>11, <1>12, <1>13, <1>14 DEF Kept

\* A routine that leaves, with nothing left to settle, keeps everything.
LEMMA DoneKept ==
  ASSUME Kept, NEW t \in Tasks, pc[t] = "ret", Leave(t), ~Configures(t),
         Shuttering(t) => call[t].op = "run", UNCHANGED <<core, site, clean, apart>>
  PROVE  Kept'
<1> USE DEF core, site
<1>1. /\ pc' \in [Tasks -> Places] /\ call' \in [Tasks -> Calls] /\ ans' \in [Tasks -> 0 .. 3]
      /\ prog' \in [Tasks -> Progs] /\ touched' \in [Tasks -> BOOLEAN]
      /\ ownErr' \in [Tasks -> BOOLEAN]
      /\ pc'[t] = "idle" /\ call'[t] = NoCall /\ prog'[t] = NoProg /\ Goto(t, "idle")
      /\ \A u \in Tasks \ {t} :
              /\ pc'[u] = pc[u] /\ call'[u] = call[u] /\ ans'[u] = ans[u]
              /\ prog'[u] = prog[u] /\ touched'[u] = touched[u] /\ ownErr'[u] = ownErr[u]
  BY LeaveTyped DEF Kept
<1>2. Typed'
  BY <1>1 DEF Kept, Typed
<1>3. Senses'
  <2>1. Sense(t)'
    BY <1>1 DEF Sense, Configures, Shuttering, NoProg
  <2> QED BY <1>1, <2>1, OthersMakeSense
<1>4. Locked' /\ Untouched' /\ Unanswered' /\ Status' /\ Source' /\ SetsStand' /\ OneSpoils'
  BY <1>1, CallsStay
<1>5. prog'[t].do = "none" /\ call'[t].op = "none"
  BY <1>1 DEF NoProg, NoCall
<1>6. Alone'
  BY <1>1, <1>5, TasksDiffer DEF Kept, Alone, Shuttering
<1>7. InitKnows' /\ ConfigKnows'
  BY <1>1, <1>5, TasksDiffer DEF Kept, InitKnows, ConfigKnows
<1>8. ParkAgrees'
  BY <1>1, <1>5 DEF Kept, ParkAgrees, Shuttering
<1>9. ConfigAgrees'
  BY <1>1, <1>5, TasksDiffer DEF Kept, ConfigAgrees, Configures
<1> QED BY <1>2, <1>3, <1>4, <1>6, <1>7, <1>8, <1>9 DEF Kept

\* An answered raw access, and a flat field correction that has run.
LEMMA RawAnswerKept == ASSUME Kept, RawAnswer PROVE Kept'
<1>1. ~Configures(Cmd) /\ ~Shuttering(Cmd) /\ pc[Cmd] = "ret" /\ Leave(Cmd)
  BY DEF RawAnswer, Configures, Shuttering
<1> QED BY <1>1, DoneKept, TasksDiffer DEF RawAnswer

\* run_ffc is done.
LEMMA FfcDoneKept == ASSUME Kept, NEW t \in Tasks, FfcDone(t) PROVE Kept'
<1>1. ~Configures(t) /\ call[t].op = "run" /\ pc[t] = "ret" /\ Leave(t)
  BY DEF FfcDone, Configures
<1> QED BY <1>1, DoneKept DEF FfcDone

\* The shutter was written, so the flag may follow.
LEMMA ShutterMovedKept == ASSUME Kept, NEW t \in Tasks, ShutterMoved(t) PROVE Kept'
<1> USE DEF core
<1>1. Sense(t) /\ call[t] \in Calls /\ prog[t] \in Progs
  BY DEF Kept, Senses, Typed
<1>2. /\ pc[t] = "ret" /\ Shuttering(t) /\ call[t].op = "set" /\ ~Configures(t) /\ t # Lep
      /\ call[t] = Set("shutter", IF prog[t].do = "park" THEN CLOSED ELSE IDLE)
  BY <1>1 DEF ShutterMoved, Sense, Shuttering, Configures, Run
<1>3. /\ parked' = (prog[t].do = "park")
      /\ UNCHANGED <<core, lepSt, shown, was, idle, ops, clean, apart>>
  BY DEF ShutterMoved
<1>4. Run \in Calls
  BY DEF Run, Calls, Ops, Settings
<1>5. /\ pc' \in [Tasks -> Places] /\ call' \in [Tasks -> Calls] /\ ans' \in [Tasks -> 0 .. 3]
      /\ prog' \in [Tasks -> Progs] /\ touched' \in [Tasks -> BOOLEAN]
      /\ ownErr' \in [Tasks -> BOOLEAN]
      /\ \A u \in Tasks \ {t} :
              /\ pc'[u] = pc[u] /\ call'[u] = call[u] /\ ans'[u] = ans[u]
              /\ prog'[u] = prog[u] /\ touched'[u] = touched[u] /\ ownErr'[u] = ownErr[u]
  <2>1. CASE prog[t].do = "park"
    BY <2>1, LeaveTyped DEF ShutterMoved, Kept
  <2>2. CASE prog[t].do # "park"
    BY <1>4, <2>2, EnterTyped DEF ShutterMoved, Kept, Typed
  <2> QED BY <2>1, <2>2
<1>6. \/ pc'[t] = "idle" /\ Goto(t, "idle") /\ call'[t] = NoCall /\ prog'[t] = NoProg
      \/ /\ pc'[t] = "take" /\ Goto(t, "take") /\ call'[t] = Run /\ prog'[t] = prog[t]
         /\ ans'[t] = Garbage /\ prog[t].do = "unpark"
  <2>1. CASE prog[t].do = "park"
    BY <2>1, LeaveTyped DEF ShutterMoved, Kept
  <2>2. CASE prog[t].do # "park"
    BY <1>2, <1>4, <2>2, EnterTyped DEF ShutterMoved, Kept, Shuttering
  <2> QED BY <2>1, <2>2
<1>7. Typed'
  BY <1>3, <1>5 DEF Kept, Typed
<1>8. Senses'
  <2>1. Sense(t)'
    BY <1>2, <1>6 DEF Sense, Configures, Shuttering, NoProg, Run
  <2> QED BY <1>5, <2>1, OthersMakeSense
<1>9. Locked' /\ Untouched' /\ Unanswered' /\ Status' /\ Source' /\ SetsStand' /\ OneSpoils'
  BY <1>2, <1>3, <1>5, <1>6, CallsStay
<1>10. /\ prog'[t].do \in {"none", "unpark"} /\ call'[t].op \in {"none", "run"}
       /\ Shuttering(t)' => call'[t].op = "run"
  BY <1>6 DEF NoProg, NoCall, Run, Shuttering
<1>11. Alone'
  <2>1. \A u \in Tasks : Shuttering(u)' => Shuttering(u)
    BY <1>2, <1>5 DEF Shuttering
  <2>2. \A u \in Tasks : Configures(u)' => prog'[u] = prog[u]
    BY <1>5, <1>10 DEF Configures
  <2>3. call'[Cmd].op = "rawset" => call[Cmd].op = "rawset"
    BY <1>5, <1>10, TasksDiffer
  <2> QED BY <1>3, <2>1, <2>2, <2>3, TasksDiffer DEF Kept, Alone, Configures
<1>12. InitKnows' /\ ConfigKnows'
  <2>1. \A u \in Tasks : Configures(u)' => prog'[u] = prog[u] /\ call'[u] = call[u]
    BY <1>5, <1>10 DEF Configures
  <2>2. InitKnows'
    BY <1>3, <2>1, TasksDiffer DEF Kept, InitKnows, Configures
  <2>3. ConfigKnows'
    BY <1>3, <2>1, TasksDiffer DEF Kept, ConfigKnows, Configures
  <2> QED BY <2>2, <2>3
<1>13. ParkAgrees'
  <2>1. clean => sensor[call[t].a] = call[t].v
    BY <1>2 DEF Kept, SetsStand, SetStands, Undisturbed
  <2>2. parked' <=> prog[t].do = "park"
    BY <1>3, Zenon
  <2>3. clean => (parked' <=> sensor.shutter = CLOSED)
    BY <1>2, <2>1, <2>2 DEF Set, CLOSED, IDLE, Shuttering
  <2> QED BY <1>3, <2>3 DEF ParkAgrees
<1>14. ConfigAgrees'
  BY <1>2, <1>3, <1>5, <1>10, TasksDiffer DEF Kept, ConfigAgrees, Configures
<1> QED BY <1>7, <1>8, <1>9, <1>11, <1>12, <1>13, <1>14 DEF Kept

\* A task that was idle begins a routine with a first call that makes sense.
LEMMA BeginKept ==
  ASSUME Kept, NEW t \in Tasks, NEW c \in Calls, NEW p \in Progs,
         pc[t] = "idle", Enter(t, c), prog' = [prog EXCEPT ![t] = p], Sense(t)',
         p.do # "init", c.op # "get", p.do \in {"park", "unpark"} => c.op = "set",
         UNCHANGED <<mutex, sensor, troubles, parked, lepSt, touched, ownErr>>,
         lastErr' \in BOOLEAN, t # Cmd => UNCHANGED lastErr,
         clean' \in BOOLEAN, clean' => clean,
         clean' /\ p.do \in {"park", "unpark"} => \A u \in Tasks \ {t} : ~Shuttering(u),
         apart' \in BOOLEAN, apart' => apart,
         apart' /\ p.do = "config" => prog[Lep].do # "init",
         apart' => c.op # "rawset"
  PROVE  Kept'
<1>1. /\ pc' \in [Tasks -> Places] /\ call' \in [Tasks -> Calls] /\ ans' \in [Tasks -> 0 .. 3]
      /\ pc'[t] = "take" /\ call'[t] = c /\ ans'[t] = Garbage /\ Goto(t, "take")
      /\ \A u \in Tasks \ {t} : /\ pc'[u] = pc[u] /\ call'[u] = call[u] /\ ans'[u] = ans[u]
  BY EnterTyped DEF Kept
<1>2. /\ prog' \in [Tasks -> Progs] /\ prog'[t] = p
      /\ \A u \in Tasks \ {t} : prog'[u] = prog[u]
  BY DEF Kept, Typed
<1>3. Typed'
  BY <1>1, <1>2 DEF Kept, Typed
<1>4. Senses'
  BY <1>1, <1>2, OthersMakeSense
<1>5. Locked' /\ Untouched' /\ Unanswered' /\ Status' /\ Source' /\ SetsStand' /\ OneSpoils'
  BY <1>1, <1>2, CallsStay
<1>6. t # Lep
  BY <1>1, <1>2, TasksDiffer DEF Sense, Shuttering, Progs
<1>7. prog[t].do = "none"
  BY DEF Kept, Senses, Sense
<1>8. Alone'
  <2>1. \A u \in Tasks \ {t} : Shuttering(u)' <=> Shuttering(u)
    BY <1>2 DEF Shuttering
  <2>2. Shuttering(t)' <=> p.do \in {"park", "unpark"}
    BY <1>2 DEF Shuttering
  <2>3. clean' => \A u, w \in Tasks : Shuttering(u)' /\ Shuttering(w)' => u = w
    BY <2>1, <2>2 DEF Kept, Alone
  <2> QED BY <1>1, <1>2, <1>6, <2>3, TasksDiffer DEF Kept, Alone
<1>9. InitKnows'
  BY <1>1, <1>2, <1>6, TasksDiffer DEF Kept, InitKnows
<1>10. ConfigKnows'
  <2>1. CASE t = Cmd
    BY <1>1, <1>2, <1>7, <2>1 DEF Kept, ConfigAgrees, ConfigKnows
  <2>2. CASE t # Cmd
    BY <1>1, <1>2, <2>2, TasksDiffer DEF Kept, ConfigKnows
  <2> QED BY <2>1, <2>2
<1>11. ParkAgrees'
  BY <1>1, <1>2, <1>7 DEF Kept, ParkAgrees, Shuttering
<1>12. ConfigAgrees'
  BY <1>1, <1>2, <1>6, <1>7, TasksDiffer DEF Kept, ConfigAgrees
<1> QED BY <1>3, <1>4, <1>5, <1>8, <1>9, <1>10, <1>11, <1>12 DEF Kept

\* The handlers that begin one.
LEMMA ConfigKept == ASSUME Kept, NEW a \in {"agc", "flux"}, Config(a) PROVE Kept'
<1> DEFINE v == 1 - lepSt[a]
           p == [do |-> "config", want |-> v, tries |-> 1]
<1>1. v \in 0 .. 1
  BY DEF Kept, Typed
<1>2. Set(a, v) \in Calls /\ p \in Progs
  BY <1>1 DEF Set, Calls, Ops, Settings, Progs
<1>3. pc[Cmd] = "idle" /\ Enter(Cmd, Set(a, v)) /\ prog' = [prog EXCEPT ![Cmd] = p]
  BY DEF Config, Room
<1>4. Sense(Cmd)'
  BY <1>2, <1>3, EnterTyped, TasksDiffer
     DEF Kept, Typed, Sense, Configures, Shuttering, Set
<1>5. /\ UNCHANGED <<mutex, sensor, troubles, parked, lepSt, touched, ownErr, lastErr, clean>>
      /\ apart' <=> apart /\ prog[Lep].do # "init"
  BY Zenon DEF Config, core
<1>6. apart' \in BOOLEAN /\ clean' \in BOOLEAN /\ lastErr' \in BOOLEAN
  BY Zenon DEF Config, core, Kept, Typed
<1> QED BY <1>2, <1>3, <1>4, <1>5, <1>6, BeginKept, TasksDiffer DEF Set

\* A raw command.
LEMMA RawKept == ASSUME Kept, NEW c \in RawCalls, Raw(c) PROVE Kept'
<1> DEFINE p == [NoProg EXCEPT !.do = "raw"]
<1>1. c \in Calls /\ c.op \in {"rawget", "rawset"} /\ p \in Progs /\ p.do = "raw"
  BY DEF RawCalls, Calls, Ops, Settings, Progs, NoProg
<1>2. pc[Cmd] = "idle" /\ Enter(Cmd, c) /\ prog' = [prog EXCEPT ![Cmd] = p]
  BY DEF Raw, Room
<1>3. Sense(Cmd)'
  BY <1>1, <1>2, EnterTyped, TasksDiffer
     DEF Kept, Typed, Sense, Configures, Shuttering
<1>4. /\ UNCHANGED <<mutex, sensor, troubles, parked, lepSt, touched, ownErr, clean>>
      /\ apart' <=> apart /\ c.op = "rawget"
  BY Zenon DEF Raw, site
<1>5. apart' \in BOOLEAN /\ clean' \in BOOLEAN /\ lastErr' \in BOOLEAN
  BY Zenon DEF Raw, Kept, Typed
<1> QED BY <1>1, <1>2, <1>3, <1>4, <1>5, BeginKept, TasksDiffer

\* A task begins to move the shutter.
LEMMA ShutterKept ==
  ASSUME Kept, NEW t \in Tasks \ {Lep}, NEW do \in {"park", "unpark"}, pc[t] = "idle",
         Shutter(t, do), UNCHANGED <<core, parked, lepSt, touched, ownErr, apart>>
  PROVE  Kept'
<1> DEFINE p == [NoProg EXCEPT !.do = do]
           c == Set("shutter", IF do = "park" THEN CLOSED ELSE IDLE)
<1>1. c \in Calls /\ c.op = "set" /\ p \in Progs /\ p.do = do
  BY DEF Set, Calls, Ops, Settings, Progs, NoProg, CLOSED, IDLE
<1>2. Enter(t, c) /\ prog' = [prog EXCEPT ![t] = p]
  BY DEF Shutter
<1>3. Sense(t)'
  <2>1. prog'[t] = p /\ pc'[t] = "take" /\ call'[t] = c
    BY <1>1, <1>2, EnterTyped DEF Kept, Typed
  <2> QED BY <1>1, <2>1, TasksDiffer DEF Sense, Configures, Shuttering
<1>4. clean' <=> clean /\ \A u \in Tasks \ {t} : ~Shuttering(u)
  BY Zenon DEF Shutter
<1>5. UNCHANGED <<mutex, sensor, troubles, lastErr>>
  BY DEF core
<1>6. apart' \in BOOLEAN /\ clean' \in BOOLEAN /\ lastErr' \in BOOLEAN
  BY <1>5, Zenon DEF Shutter, Kept, Typed
<1> QED BY <1>1, <1>2, <1>3, <1>4, <1>5, <1>6, BeginKept

\* The command that moves it, from the command channel.
LEMMA SetShutterKept ==
  ASSUME Kept, NEW do \in {"park", "unpark"}, SetShutter(do) PROVE Kept'
<1>1. /\ pc[Cmd] = "idle" /\ Shutter(Cmd, do)
      /\ UNCHANGED <<core, parked, lepSt, touched, ownErr, apart>>
  BY DEF SetShutter, Room
<1> QED BY <1>1, ShutterKept, TasksDiffer

\* The park of rsp_task.
LEMMA RspParkKept == ASSUME Kept, RspPark PROVE Kept'
<1>1. /\ pc[Rsp] = "idle" /\ Shutter(Rsp, "park")
      /\ UNCHANGED <<core, parked, lepSt, touched, ownErr, apart>>
  BY DEF RspPark, Room
<1> QED BY <1>1, ShutterKept, TasksDiffer

\* A flat field correction.
LEMMA RunFfcKept == ASSUME Kept, RunFfc PROVE Kept'
<1> DEFINE p == [NoProg EXCEPT !.do = "ffc"]
<1>1. Run \in Calls /\ Run.op = "run" /\ p \in Progs /\ p.do = "ffc"
  BY DEF Run, Calls, Ops, Settings, Progs, NoProg
<1>2. pc[Cmd] = "idle" /\ Enter(Cmd, Run) /\ prog' = [prog EXCEPT ![Cmd] = p]
  BY DEF RunFfc, Room
<1>3. Sense(Cmd)'
  <2>1. prog'[Cmd] = p /\ pc'[Cmd] = "take" /\ call'[Cmd] = Run
    BY <1>1, <1>2, EnterTyped, TasksDiffer DEF Kept, Typed
  <2> QED BY <1>1, <2>1, TasksDiffer DEF Sense, Configures, Shuttering
<1>4. UNCHANGED <<mutex, sensor, troubles, parked, lepSt, touched, ownErr, clean, apart, lastErr>>
  BY DEF RunFfc, core
<1>5. apart' \in BOOLEAN /\ clean' \in BOOLEAN /\ lastErr' \in BOOLEAN
  BY <1>4, Zenon DEF Kept, Typed
<1> QED BY <1>1, <1>2, <1>3, <1>4, <1>5, BeginKept, TasksDiffer

\* What changes nothing that the invariant is about.
LEMMA ElsewhereKept ==
  ASSUME Kept, UNCHANGED <<mutex, sensor, lastErr, troubles, pc, call, prog, ans, parked,
                           lepSt, touched, ownErr, clean, apart>>
  PROVE  Kept'
<1>1. Typed'
  BY DEF Kept, Typed
<1>2. Senses' /\ Locked' /\ Untouched' /\ Unanswered' /\ Status' /\ Alone'
  BY DEF Kept, Senses, Sense, Configures, Shuttering, Locked, Inside, Untouched, Unread,
     Unanswered, Status, Alone
<1>3. Source' /\ SetsStand' /\ InitKnows' /\ ConfigKnows'
  BY DEF Kept, Source, Sets, Own, Busy, SetsStand, SetStands, Undisturbed, Configures,
     Shuttering, InitKnows, ConfigKnows
<1>4. OneSpoils' /\ ParkAgrees' /\ ConfigAgrees'
  BY DEF Kept, OneSpoils, Checking, SetBefore, GetStands, Configures, Shuttering, Busy,
     ParkAgrees, ConfigAgrees
<1> QED BY <1>1, <1>2, <1>3, <1>4 DEF Kept

\* A viewer comes or goes, or rsp_task has seen that none is left.
LEMMA ViewerKept == ASSUME Kept, Viewer \/ RspIdle PROVE Kept'
<1>1. UNCHANGED <<mutex, sensor, lastErr, troubles, pc, call, prog, ans, parked,
                  lepSt, touched, ownErr, clean, apart>>
  BY DEF Viewer, RspIdle, core, hist
<1> QED BY <1>1, ElsewhereKept

\* rsp_task has seen a viewer.
LEMMA RspNewViewerKept == ASSUME Kept, RspNewViewer PROVE Kept'
<1>1. CASE parked
  <2>1. /\ pc[Rsp] = "idle" /\ Shutter(Rsp, "unpark")
        /\ UNCHANGED <<core, parked, lepSt, touched, ownErr, apart>>
    BY <1>1 DEF RspNewViewer, Room
  <2> QED BY <2>1, ShutterKept, TasksDiffer
<1>2. CASE ~parked
  <2>1. UNCHANGED <<mutex, sensor, lastErr, troubles, pc, call, prog, ans, parked,
                    lepSt, touched, ownErr, clean, apart>>
    BY <1>2 DEF RspNewViewer, core
  <2> QED BY <2>1, ElsewhereKept
<1> QED BY <1>1, <1>2

\* A routine that writes and checks makes its next write.
LEMMA WriteNext ==
  ASSUME Kept, NEW t \in {Cmd, Lep}, NEW a \in {"agc", "flux"}, NEW p \in Progs,
         pc[t] = "ret", Configures(t), p.do = prog[t].do, Enter(t, Set(a, p.want)),
         prog' = [prog EXCEPT ![t] = p],
         UNCHANGED <<core, parked, lepSt, touched, ownErr, clean, apart>>,
         t = Cmd => a = call[Cmd].a /\ p.want = prog[Cmd].want,
         t = Lep /\ apart => /\ p.want = lepSt[a]
                             /\ a = "flux" => sensor.agc = lepSt.agc
  PROVE  Kept'
<1> USE DEF core
<1> DEFINE c == Set(a, p.want)
<1>1. t \in Tasks /\ c \in Calls /\ c.op = "set" /\ c.a = a /\ c.v = p.want
  BY TasksDiffer DEF Set, Calls, Ops, Settings, Progs
<1>2. /\ pc' \in [Tasks -> Places] /\ call' \in [Tasks -> Calls] /\ ans' \in [Tasks -> 0 .. 3]
      /\ pc'[t] = "take" /\ call'[t] = c /\ ans'[t] = Garbage /\ Goto(t, "take")
      /\ \A u \in Tasks \ {t} : /\ pc'[u] = pc[u] /\ call'[u] = call[u] /\ ans'[u] = ans[u]
  BY <1>1, EnterTyped DEF Kept
<1>3. /\ prog' \in [Tasks -> Progs] /\ prog'[t] = p
      /\ \A u \in Tasks \ {t} : prog'[u] = prog[u]
  BY <1>1 DEF Kept, Typed
<1>4. Sense(t) /\ ~Shuttering(t)
  BY <1>1 DEF Kept, Senses, Configures, Shuttering
<1>5. p.do \in {"config", "init"} /\ (p.do = "config" => t = Cmd) /\ (p.do = "init" => t = Lep)
  BY <1>4 DEF Configures, Sense
<1>6. Typed'
  BY <1>2, <1>3 DEF Kept, Typed
<1>7. Senses'
  <2>1. Sense(t)'
    BY <1>1, <1>2, <1>3, <1>5 DEF Sense, Configures, Shuttering
  <2> QED BY <1>1, <1>2, <1>3, <2>1, OthersMakeSense
<1>8. Locked' /\ Untouched' /\ Unanswered' /\ Status' /\ Source' /\ SetsStand' /\ OneSpoils'
  BY <1>1, <1>2, <1>3, CallsStay
<1>9. \A u \in Tasks : prog'[u].do = prog[u].do
  BY <1>3
<1>10. Alone'
  BY <1>1, <1>2, <1>9, TasksDiffer DEF Kept, Alone, Shuttering
<1>11. InitKnows'
  <2>1. CASE t = Lep
    BY <1>1, <1>2, <1>3, <2>1 DEF InitKnows
  <2>2. CASE t # Lep
    BY <1>2, <1>3, <2>2, TasksDiffer DEF Kept, InitKnows
  <2> QED BY <2>1, <2>2
<1>12. ConfigKnows'
  <2>1. CASE t = Cmd
    BY <1>1, <1>2, <1>3, <2>1 DEF Kept, ConfigKnows
  <2>2. CASE t # Cmd
    BY <1>2, <1>3, <2>2, TasksDiffer DEF Kept, ConfigKnows
  <2> QED BY <2>1, <2>2
<1>13. ParkAgrees'
  BY <1>2, <1>4, <1>9 DEF Kept, ParkAgrees, Shuttering
<1>14. ConfigAgrees'
  BY <1>9, TasksDiffer DEF Kept, ConfigAgrees
<1> QED BY <1>6, <1>7, <1>8, <1>10, <1>11, <1>12, <1>13, <1>14 DEF Kept

\* A routine that writes and checks is done: what it knows is what lep_st says then.
LEMMA WriteDone ==
  ASSUME Kept, NEW t \in {Cmd, Lep}, pc[t] = "ret", Configures(t), Leave(t),
         UNCHANGED <<core, parked, clean>>, lepSt' \in [agc : 0 .. 1, flux : 0 .. 1],
         apart' \in BOOLEAN, apart' => apart, t = Lep => lepSt' = lepSt,
         apart' => sensor.agc = lepSt'.agc /\ sensor.flux = lepSt'.flux
  PROVE  Kept'
<1> USE DEF core
<1>1. t \in Tasks
  BY TasksDiffer
<1>2. /\ pc' \in [Tasks -> Places] /\ call' \in [Tasks -> Calls] /\ ans' \in [Tasks -> 0 .. 3]
      /\ prog' \in [Tasks -> Progs] /\ touched' \in [Tasks -> BOOLEAN]
      /\ ownErr' \in [Tasks -> BOOLEAN]
      /\ pc'[t] = "idle" /\ call'[t] = NoCall /\ prog'[t] = NoProg /\ Goto(t, "idle")
      /\ \A u \in Tasks \ {t} :
              /\ pc'[u] = pc[u] /\ call'[u] = call[u] /\ ans'[u] = ans[u]
              /\ prog'[u] = prog[u] /\ touched'[u] = touched[u] /\ ownErr'[u] = ownErr[u]
  BY <1>1, LeaveTyped DEF Kept
<1>3. Sense(t) /\ ~Shuttering(t) /\ prog'[t].do = "none" /\ call'[t].op = "none"
  BY <1>1, <1>2 DEF Kept, Senses, Configures, Shuttering, NoProg, NoCall
<1>4. Typed'
  BY <1>2 DEF Kept, Typed
<1>5. Senses'
  <2>1. Sense(t)'
    BY <1>2, <1>3 DEF Sense, Configures, Shuttering
  <2> QED BY <1>1, <1>2, <2>1, OthersMakeSense
<1>6. Locked' /\ Untouched' /\ Unanswered' /\ Status' /\ Source' /\ SetsStand' /\ OneSpoils'
  BY <1>1, <1>2, CallsStay
<1>7. Alone'
  BY <1>2, <1>3, TasksDiffer DEF Kept, Alone, Shuttering
<1>8. prog[Cmd].do = "config" /\ prog[Lep].do = "init" => ~apart
  BY DEF Kept, Alone
<1>9. InitKnows'
  <2>1. CASE t = Lep
    BY <1>3, <2>1 DEF InitKnows
  <2>2. CASE t # Lep
    BY <1>2, <1>3, <1>8, <2>2, TasksDiffer DEF Kept, InitKnows, Configures, Sense
  <2> QED BY <2>1, <2>2
<1>10. ConfigKnows'
  <2>1. CASE t = Cmd
    BY <1>3, <2>1 DEF ConfigKnows
  <2>2. CASE t # Cmd
    BY <1>2, <2>2, TasksDiffer DEF Kept, ConfigKnows
  <2> QED BY <2>1, <2>2
<1>11. ParkAgrees'
  BY <1>2, <1>3 DEF Kept, ParkAgrees, Shuttering
<1>12. ConfigAgrees'
  BY DEF ConfigAgrees
<1> QED BY <1>4, <1>5, <1>6, <1>7, <1>9, <1>10, <1>11, <1>12 DEF Kept

\* set_config looks at what it read back: it writes again, or lep_st follows.
LEMMA ConfigVerifyKept == ASSUME Kept, ConfigVerify PROVE Kept'
<1>1. /\ Sense(Cmd) /\ prog[Cmd] \in Progs /\ call[Cmd] \in Calls
      /\ lepSt \in [agc : 0 .. 1, flux : 0 .. 1] /\ apart \in BOOLEAN
  BY TasksDiffer DEF Kept, Senses, Typed
<1>2. /\ pc[Cmd] = "ret" /\ prog[Cmd].do = "config" /\ call[Cmd].op = "get"
      /\ call[Cmd].a \in {"agc", "flux"} /\ Configures(Cmd)
  BY <1>1 DEF ConfigVerify, Sense, Configures, Run
<1>3. UNCHANGED <<core, parked, clean, apart>>
  BY DEF ConfigVerify
<1>4. CASE ~Confirmed(Cmd) /\ prog[Cmd].tries < Attempts
  <2> DEFINE p == [prog[Cmd] EXCEPT !.tries = prog[Cmd].tries + 1]
  <2>1. p \in Progs /\ p.do = prog[Cmd].do /\ p.want = prog[Cmd].want
    BY <1>1 DEF Progs
  <2>2. /\ Enter(Cmd, Set(call[Cmd].a, p.want)) /\ prog' = [prog EXCEPT ![Cmd] = p]
        /\ UNCHANGED <<lepSt, touched, ownErr>>
    BY <1>4, <2>1 DEF ConfigVerify
  <2> QED BY <1>2, <1>3, <2>1, <2>2, WriteNext, TasksDiffer
<1>5. CASE ~(~Confirmed(Cmd) /\ prog[Cmd].tries < Attempts)
  <2>1. lepSt' = [lepSt EXCEPT ![call[Cmd].a] = prog[Cmd].want] /\ Leave(Cmd)
    BY <1>5 DEF ConfigVerify
  <2>2. lepSt' \in [agc : 0 .. 1, flux : 0 .. 1]
    BY <1>1, <2>1 DEF Progs
  <2>3. apart => sensor.agc = lepSt'.agc /\ sensor.flux = lepSt'.flux
    BY <1>1, <1>2, <2>1 DEF Kept, ConfigKnows
  <2> QED BY <1>1, <1>2, <1>3, <2>1, <2>2, <2>3, WriteDone, TasksDiffer
<1> QED BY <1>4, <1>5

\* lepton_init goes on to its next setting, gives up, or is done.
LEMMA InitNextKept == ASSUME Kept, InitNext PROVE Kept'
<1>1. /\ Sense(Lep) /\ prog[Lep] \in Progs /\ call[Lep] \in Calls
      /\ lepSt \in [agc : 0 .. 1, flux : 0 .. 1] /\ apart \in BOOLEAN
  BY TasksDiffer DEF Kept, Senses, Typed
<1>2. pc[Lep] = "ret" /\ prog[Lep].do = "init" /\ Configures(Lep)
  BY DEF InitNext, Configures
<1>3. UNCHANGED <<core, parked, lepSt, clean>>
  BY DEF InitNext, site
<1>4. ASSUME InitFails PROVE Kept'
  <2>1. Leave(Lep) /\ ~apart' /\ apart' \in BOOLEAN
    BY <1>4 DEF InitFails
  <2> QED BY <1>1, <1>2, <1>3, <2>1, WriteDone
<1>5. ASSUME NEW a \in {"agc", "flux"}, NEW p \in Progs, p.do = "init",
             Enter(Lep, Set(a, p.want)), prog' = [prog EXCEPT ![Lep] = p],
             UNCHANGED <<touched, ownErr, apart>>,
             apart => p.want = lepSt[a] /\ (a = "flux" => sensor.agc = lepSt.agc)
      PROVE  Kept'
  BY <1>2, <1>3, <1>5, WriteNext, TasksDiffer
<1>6. CASE call[Lep].op = "run"
  <2>1. CASE ownErr[Lep]
    BY <1>4, <1>6, <2>1 DEF InitNext
  <2>2. CASE ~ownErr[Lep]
    <3> DEFINE p == [prog[Lep] EXCEPT !.want = lepSt.agc]
    <3>1. p \in Progs /\ p.do = "init" /\ p.want = lepSt.agc
      BY <1>1, <1>2 DEF Progs
    <3>2. /\ Enter(Lep, Set("agc", p.want)) /\ prog' = [prog EXCEPT ![Lep] = p]
          /\ UNCHANGED <<touched, ownErr, apart>>
      BY <1>6, <2>2, <3>1 DEF InitNext
    <3> QED BY <1>5, <3>1, <3>2
  <2> QED BY <2>1, <2>2
<1>7. CASE call[Lep].op = "get" /\ call[Lep].a = "agc"
  <2>1. CASE ~Confirmed(Lep)
    BY <1>4, <1>7, <2>1 DEF InitNext
  <2>2. CASE Confirmed(Lep)
    <3> DEFINE p == [prog[Lep] EXCEPT !.want = lepSt.flux, !.tries = 1]
    <3>1. p \in Progs /\ p.do = "init" /\ p.want = lepSt.flux
      BY <1>1, <1>2 DEF Progs
    <3>2. /\ Enter(Lep, Set("flux", p.want)) /\ prog' = [prog EXCEPT ![Lep] = p]
          /\ UNCHANGED <<touched, ownErr, apart>>
      BY <1>7, <2>2, <3>1 DEF InitNext
    <3>3. apart => sensor.agc = lepSt.agc
      BY <1>2, <1>7 DEF Kept, InitKnows
    <3> QED BY <1>5, <3>1, <3>2, <3>3
  <2> QED BY <2>1, <2>2
<1>8. CASE call[Lep].op = "get" /\ call[Lep].a = "flux"
  <2>1. apart => /\ prog[Lep].want = lepSt.flux
                 /\ sensor.agc = lepSt.agc /\ sensor.flux = lepSt.flux
    BY <1>2, <1>8 DEF Kept, InitKnows
  <2>2. CASE ~Confirmed(Lep) /\ prog[Lep].tries < Attempts
    <3> DEFINE p == [prog[Lep] EXCEPT !.tries = @ + 1]
    <3>1. p \in Progs /\ p.do = "init" /\ p.want = prog[Lep].want
      BY <1>1, <1>2 DEF Progs
    <3>2. /\ Enter(Lep, Set("flux", p.want)) /\ prog' = [prog EXCEPT ![Lep] = p]
          /\ UNCHANGED <<touched, ownErr, apart>>
      BY <1>8, <2>2, <3>1 DEF InitNext
    <3> QED BY <1>5, <2>1, <3>1, <3>2
  <2>3. CASE ~(~Confirmed(Lep) /\ prog[Lep].tries < Attempts)
    <3>1. Leave(Lep) /\ UNCHANGED apart
      BY <1>8, <2>3 DEF InitNext
    <3> QED BY <1>1, <1>2, <1>3, <2>1, <3>1, WriteDone
  <2> QED BY <2>2, <2>3
<1> QED BY <1>6, <1>7, <1>8 DEF InitNext

\* STATE_RE_INIT: whatever was under way is told so by its history.
LEMMA ResetKept == ASSUME Kept, Reset PROVE Kept'
<1> DEFINE p == [NoProg EXCEPT !.do = "init"]
<1>1. /\ Lep \in Tasks /\ Run \in Calls /\ Run.op = "run" /\ p \in Progs /\ p.do = "init"
  BY TasksDiffer DEF Run, Calls, Ops, Settings, Progs, NoProg
<1>2. /\ pc' \in [Tasks -> Places] /\ call' \in [Tasks -> Calls] /\ ans' \in [Tasks -> 0 .. 3]
      /\ pc'[Lep] = "take" /\ call'[Lep] = Run /\ ans'[Lep] = Garbage
      /\ \A u \in Tasks \ {Lep} : /\ pc'[u] = pc[u] /\ call'[u] = call[u] /\ ans'[u] = ans[u]
  BY <1>1, EnterTyped DEF Reset, Kept
<1>3. /\ prog' \in [Tasks -> Progs] /\ prog'[Lep] = p
      /\ \A u \in Tasks \ {Lep} : prog'[u] = prog[u]
  BY <1>1 DEF Reset, Kept, Typed
<1>4. /\ pc[Lep] = "idle" /\ sensor' = Booting /\ troubles' = troubles + 1
      /\ UNCHANGED <<mutex, lastErr, parked, lepSt, ownErr>>
  BY DEF Reset, Room
<1>5. /\ touched' = [t \in Tasks |-> touched[t] \/ (pc[t] # "idle" /\ call[t].op # "set")]
      /\ clean' <=> clean /\ ~parked /\ \A t \in Tasks : ~Shuttering(t)
      /\ apart' <=> apart /\ prog[Cmd].do # "config"
      /\ clean' \in BOOLEAN /\ apart' \in BOOLEAN
  BY Zenon DEF Reset
<1>6. \A u \in Tasks : /\ pc[u] # "idle" /\ call[u].op # "set" => touched'[u]
                       /\ touched[u] => touched'[u]
  BY ONLY <1>5, Zenon
<1>7. /\ sensor' \in [run : Calls, data : 0 .. 2, agc : 0 .. 1, flux : 0 .. 1, shutter : {0, 2}]
      /\ sensor'.run.op = "boot" /\ sensor'.shutter = IDLE
  BY <1>4 DEF Booting, Fresh, NoCall, IDLE, Calls, Ops, Settings
<1>8. troubles \in Nat /\ troubles' \in Nat /\ troubles' # 0
  BY <1>4 DEF Kept, Typed
<1>9. Typed'
  <2>1. touched' \in [Tasks -> BOOLEAN]
    BY <1>5, Zenon
  <2> QED BY <1>2, <1>3, <1>4, <1>5, <1>7, <1>8, <2>1 DEF Kept, Typed
<1>10. Senses'
  <2>1. Sense(Lep)'
    BY <1>1, <1>2, <1>3, TasksDiffer DEF Sense, Configures, Shuttering
  <2> QED BY <1>1, <1>2, <1>3, <2>1, OthersMakeSense
<1>11. Locked'
  BY <1>2, <1>4 DEF Kept, Locked, Inside
<1>12. Untouched'
  <2>1. \A u \in Tasks : Unread(u)' => u # Lep /\ pc[u] # "idle" /\ call[u].op # "set"
    BY <1>2 DEF Unread
  <2> QED BY <1>6, <2>1 DEF Untouched
<1>13. Unanswered'
  BY <1>2 DEF Kept, Unanswered
<1>14. Status'
  <2>1. prog[Cmd].do = "raw" => call[Cmd].op # "set"
    BY TasksDiffer DEF Kept, Senses, Sense, RawCalls
  <2> QED BY <1>2, <1>3, <1>6, <2>1, TasksDiffer DEF Status
<1>15. Alone'
  <2>1. \A u \in Tasks : Shuttering(u)' => Shuttering(u)
    BY <1>1, <1>3 DEF Shuttering
  <2> QED BY <1>2, <1>3, <1>5, <1>8, <2>1, TasksDiffer DEF Kept, Alone
<1>16. Source'
  BY <1>7, <1>8 DEF Source, Sets
<1>17. \A u \in Tasks : ~(Undisturbed(u)' /\ call'[u].op = "set")
  <2> SUFFICES ASSUME NEW u \in Tasks, Undisturbed(u)', call'[u].op = "set" PROVE FALSE
    OBVIOUS
  <2>1. u # Lep
    BY <1>1, <1>2
  <2>2. Sense(u)
    BY DEF Kept, Senses
  <2> QED BY <1>3, <1>5, <1>8, <2>1, <2>2 DEF Undisturbed, Shuttering, Configures, Sense
<1>18. SetsStand'
  BY <1>17 DEF SetsStand
<1>19. InitKnows'
  BY <1>1, <1>2 DEF InitKnows
<1>20. ConfigKnows'
  BY <1>3, <1>5, <1>8, TasksDiffer DEF ConfigKnows
<1>21. OneSpoils'
  <2>1. \A u \in Tasks : ~Checking(u)'
    BY <1>1, <1>2, <1>6 DEF Checking
  <2> QED BY <2>1 DEF OneSpoils
<1>22. ParkAgrees'
  BY <1>4, <1>5, <1>7 DEF ParkAgrees, IDLE, CLOSED
<1>23. ConfigAgrees'
  BY <1>1, <1>3 DEF ConfigAgrees
<1> QED BY <1>9, <1>10, <1>11, <1>12, <1>13, <1>14, <1>15, <1>16, <1>18, <1>19, <1>20,
   <1>21, <1>22, <1>23 DEF Kept

-----------------------------------------------------------------------------
\* Who else is where while a task is inside.
LEMMA OthersOutside ==
  ASSUME Kept, NEW t \in Tasks, mutex = t, NEW u \in Tasks \ {t}
  PROVE  /\ ~Inside(u) /\ ~Checking(u) /\ ~Own(u)
         /\ call[u].op = "set" => pc[u] \in {"idle", "take", "ret"}
         /\ ~(pc[u] = "ret" /\ prog[u].do = "raw" /\ ~touched[u])
         /\ ~(pc[u] = "read" /\ prog[u].do = "raw" /\ ~touched[u])
<1>1. ~Inside(u) /\ Sense(u) /\ pc[u] \in Places
  BY DEF Kept, Locked, Senses, Typed
<1>2. Unread(u) => touched[u]
  BY TasksDiffer DEF Kept, Untouched
<1> QED BY <1>1, <1>2 DEF Inside, Checking, Own, Unread, Sense, Places, RawCalls,
   Configures

\* As long as nothing failed, a get finds what the set before it left.
LEMMA NoTroubleYet ==
  ASSUME Kept, NEW t \in Tasks, troubles = 0, Configures(t), call[t].op = "get",
         mutex = t \/ (pc[t] \in {"read", "ret"} /\ ~touched[t])
  PROVE  SetBefore(t) /\ (pc[t] # "check" => ~Busy)
<1>1. t = Cmd /\ prog[Cmd].do = "config"
  BY DEF Kept, Senses, Sense, Configures, Alone
<1>2. sensor[call[t].a] = prog[t].want
  BY <1>1 DEF Kept, ConfigKnows
<1>3. mutex \in {None, t}
  BY DEF Kept, Untouched, Unread
<1>4. ASSUME NEW u \in Tasks, Own(u) PROVE u = t
  BY <1>3, <1>4, TasksDiffer DEF Kept, Locked, Inside, Own
<1>5. Busy => Own(t)
  BY <1>4 DEF Kept, Source
<1> QED BY <1>2, <1>5 DEF SetBefore, Own

\* An access of a call keeps the routines as they are; what remains is the call.
LEMMA AccessSense ==
  ASSUME Kept, NEW t \in Tasks, NEW l \in Places, Goto(t, l), UNCHANGED <<call, prog>>,
         pc[t] # "idle", l # "idle", l = "data" => call[t].op \in {"set", "rawset"},
         l = "read" => call[t].op \in {"get", "rawget"}
  PROVE  /\ Senses' /\ pc' \in [Tasks -> Places] /\ pc'[t] = l
         /\ \A u \in Tasks \ {t} : pc'[u] = pc[u]
<1>1. /\ pc' \in [Tasks -> Places] /\ pc'[t] = l /\ \A u \in Tasks \ {t} : pc'[u] = pc[u]
  BY DEF Kept, Typed, Goto
<1>2. Sense(t)
  BY DEF Kept, Senses
<1>3. Sense(t)'
  BY <1>1, <1>2 DEF Sense, Configures, Shuttering
<1> QED BY <1>1, <1>3, OthersMakeSense

\* What an access that may fail does to the histories.
LEMMA MayFail ==
  ASSUME Kept, NEW t \in Tasks, NoFail \/ Fail(t), UNCHANGED prog
  PROVE  /\ troubles' \in Nat /\ clean' \in BOOLEAN /\ apart' \in BOOLEAN
         /\ clean' => clean /\ (NoFail \/ ~Shuttering(t))
         /\ apart' => apart /\ (NoFail \/ ~Configures(t))
         /\ troubles' <= 1 => troubles <= 1 /\ (NoFail \/ troubles = 0)
         /\ troubles' = 0 => troubles = 0 /\ NoFail
         /\ \A u \in Tasks : Undisturbed(u)' => Undisturbed(u)
         /\ Undisturbed(t)' => NoFail
<1>1. ASSUME NoFail
      PROVE  /\ troubles' \in Nat /\ clean' \in BOOLEAN /\ apart' \in BOOLEAN
             /\ clean' => clean
             /\ apart' => apart
             /\ troubles' = troubles
  BY <1>1 DEF NoFail, Kept, Typed
<1>2. ASSUME Fail(t)
      PROVE  /\ troubles' \in Nat /\ clean' \in BOOLEAN /\ apart' \in BOOLEAN
             /\ clean' => clean /\ ~Shuttering(t)
             /\ apart' => apart /\ ~Configures(t)
             /\ troubles' = troubles + 1 /\ troubles \in Nat
  <2>1. /\ clean' <=> clean /\ ~Shuttering(t)
        /\ apart' <=> apart /\ ~Configures(t)
        /\ clean' \in BOOLEAN /\ apart' \in BOOLEAN
    BY <1>2, Zenon DEF Fail, Configures
  <2>2. troubles' = troubles + 1 /\ troubles \in Nat /\ troubles' \in Nat
    BY <1>2 DEF Fail, Kept, Typed
  <2> QED BY <2>1, <2>2
<1>3. /\ troubles' \in Nat /\ clean' \in BOOLEAN /\ apart' \in BOOLEAN
      /\ clean' => clean /\ (NoFail \/ ~Shuttering(t))
      /\ apart' => apart /\ (NoFail \/ ~Configures(t))
      /\ troubles' <= 1 => troubles <= 1 /\ (NoFail \/ troubles = 0)
      /\ troubles' = 0 => troubles = 0 /\ NoFail
  BY <1>1, <1>2
<1>4. \A u \in Tasks : Undisturbed(u)' => Undisturbed(u)
  BY <1>3 DEF Undisturbed, Shuttering, Configures
<1>5. Undisturbed(t)' => NoFail
  BY <1>3 DEF Undisturbed, Shuttering, Configures
<1> QED BY <1>3, <1>4, <1>5

\* The take: whoever has an answer to look at is told that the sensor is used.
LEMMA TakeKept == ASSUME Kept, NEW t \in Tasks, Take(t) PROVE Kept'
<1>1. /\ pc[t] = "take" /\ mutex = None /\ mutex' = t /\ Goto(t, "wait")
      /\ UNCHANGED <<sensor, lastErr, call, prog, ans, parked, lepSt, troubles, ownErr,
                     clean, apart>>
  BY DEF Take, site
<1>2. touched' = [u \in Tasks |-> IF u = t THEN FALSE ELSE touched[u] \/ Unread(u)]
  BY DEF Take
<1>3. \A u \in Tasks \ {t} : (touched[u] => touched'[u]) /\ (Unread(u) => touched'[u])
  BY ONLY <1>2, Zenon
<1>4. "wait" \in Places
  BY DEF Places
<1>5. /\ Senses' /\ pc' \in [Tasks -> Places] /\ pc'[t] = "wait"
      /\ \A u \in Tasks \ {t} : pc'[u] = pc[u]
  BY <1>1, <1>4, AccessSense
<1>6. Typed'
  <2>1. touched' \in [Tasks -> BOOLEAN]
    <3>1. \A u \in Tasks : (IF u = t THEN FALSE ELSE touched[u] \/ Unread(u)) \in BOOLEAN
      BY Zenon DEF Kept, Typed
    <3> QED BY <1>2, <3>1, Zenon
  <2> QED BY <1>1, <1>5, <2>1 DEF Kept, Typed
<1>7. Locked'
  BY <1>1, <1>5, TasksDiffer DEF Kept, Locked, Inside
<1>8. Untouched'
  BY <1>1, <1>3, <1>5 DEF Untouched, Unread
<1>9. Unanswered'
  BY <1>1, <1>5 DEF Kept, Unanswered
<1>10. Status'
  <2>1. pc[Cmd] # "give"
    BY <1>1, TasksDiffer DEF Kept, Locked, Inside
  <2>2. prog[Cmd].do = "raw" /\ pc[Cmd] \in {"read", "ret"} => Unread(Cmd)
    BY TasksDiffer DEF Kept, Senses, Sense, RawCalls, Unread
  <2> QED BY <1>1, <1>3, <1>5, <2>1, <2>2, TasksDiffer DEF Status
<1>11. Source'
  <2>1. \A u \in Tasks : Own(u) => Own(u)'
    BY <1>1, <1>5 DEF Own
  <2> QED BY <1>1, <2>1 DEF Kept, Source, Sets, Busy, Shuttering, Configures
<1>12. SetsStand'
  <2>1. \A u \in Tasks : SetStands(u) => SetStands(u)'
    BY <1>1, <1>5 DEF SetStands, Busy
  <2> QED BY <1>1, <2>1 DEF Kept, SetsStand, Undisturbed, Shuttering, Configures
<1>13. OneSpoils'
  <2>1. ASSUME NEW u \in Tasks, Checking(u)' PROVE u # t /\ Checking(u)
    BY <1>1, <1>3, <1>5, <2>1 DEF Checking, Configures
  <2>2. \A u \in Tasks \ {t} : /\ SetBefore(u) => SetBefore(u)'
                               /\ GetStands(u) => GetStands(u)'
    BY <1>1, <1>5 DEF SetBefore, GetStands, Busy
  <2> QED BY <1>1, <2>1, <2>2 DEF Kept, OneSpoils
<1>14. Alone' /\ InitKnows' /\ ConfigKnows' /\ ParkAgrees' /\ ConfigAgrees'
  BY <1>1, SettingsStay
<1> QED BY <1>5, <1>6, <1>7, <1>8, <1>9, <1>10, <1>11, <1>12, <1>13, <1>14 DEF Kept

\* The wait before the registers are written.
LEMMA WaitKept == ASSUME Kept, NEW t \in Tasks, Wait(t) PROVE Kept'
<1> DEFINE l == IF call[t].op \in {"set", "rawset"} THEN "data" ELSE "command"
<1>1. /\ pc[t] = "wait" /\ Goto(t, l) /\ (NoFail \/ Fail(t)) /\ (NoFail => ~Busy \/ Fail(t))
      /\ UNCHANGED <<mutex, sensor, lastErr, call, prog, ans, parked, lepSt, touched, ownErr>>
  BY DEF Wait, site
<1>2. /\ Senses' /\ pc' \in [Tasks -> Places] /\ pc'[t] = l
      /\ \A u \in Tasks \ {t} : pc'[u] = pc[u]
  BY <1>1, AccessSense DEF Places
<1>3. /\ troubles' \in Nat /\ clean' \in BOOLEAN /\ apart' \in BOOLEAN
      /\ clean' => clean /\ (NoFail \/ ~Shuttering(t))
      /\ apart' => apart /\ (NoFail \/ ~Configures(t))
      /\ troubles' <= 1 => troubles <= 1 /\ (NoFail \/ troubles = 0)
      /\ troubles' = 0 => troubles = 0 /\ NoFail
      /\ \A u \in Tasks : Undisturbed(u)' => Undisturbed(u)
      /\ Undisturbed(t)' => NoFail
  BY <1>1, MayFail
<1>4. ~(NoFail /\ Fail(t))
  BY DEF NoFail, Fail, Kept, Typed
<1>5. mutex = t
  BY <1>1 DEF Kept, Locked, Inside
<1>6. Typed'
  BY <1>1, <1>2, <1>3 DEF Kept, Typed
<1>7. Locked' /\ Untouched' /\ Unanswered' /\ Status'
  <2>1. Locked'
    BY <1>1, <1>2 DEF Kept, Locked, Inside
  <2>2. Untouched'
    BY <1>1, <1>2 DEF Kept, Untouched, Unread
  <2>3. Unanswered'
    BY <1>1, <1>2 DEF Kept, Unanswered
  <2>4. Status'
    BY <1>1, <1>2, TasksDiffer DEF Kept, Status
  <2> QED BY <2>1, <2>2, <2>3, <2>4
<1>8. Source'
  <2>1. \A u \in Tasks : Own(u) => Own(u)'
    BY <1>1, <1>2 DEF Own
  <2> QED BY <1>1, <1>3, <2>1 DEF Kept, Source, Sets, Busy, Shuttering, Configures
<1>9. SetsStand'
  <2>1. \A u \in Tasks \ {t} : SetStands(u) => SetStands(u)'
    BY <1>1, <1>2 DEF SetStands, Busy
  <2>2. Undisturbed(t)' /\ call[t].op = "set" => SetStands(t)'
    BY <1>1, <1>2, <1>3, <1>4 DEF SetStands, Busy
  <2> QED BY <1>1, <1>3, <2>1, <2>2 DEF Kept, SetsStand
<1>10. OneSpoils'
  <2> SUFFICES ASSUME troubles' <= 1, NEW u \in Tasks, Checking(u)'
               PROVE  SetBefore(u)' \/ GetStands(u)'
    BY DEF OneSpoils
  <2>1. CASE u # t
    BY <1>1, <1>2, <1>5, <2>1, OthersOutside DEF Checking, Configures
  <2>2. CASE u = t /\ NoFail
    BY <1>1, <1>2, <1>4, <2>2 DEF GetStands, Busy, Checking
  <2>3. CASE u = t /\ ~NoFail
    <3>1. troubles = 0 /\ Configures(t) /\ call[t].op = "get"
      BY <1>1, <1>3, <2>3 DEF Checking, Configures
    <3> QED BY <1>1, <1>5, <2>3, <3>1, NoTroubleYet DEF SetBefore, Busy
  <2> QED BY <2>1, <2>2, <2>3
<1>11. Alone' /\ InitKnows' /\ ConfigKnows' /\ ParkAgrees' /\ ConfigAgrees'
  BY <1>1, <1>3, SettingsStay
<1> QED BY <1>2, <1>6, <1>7, <1>8, <1>9, <1>10, <1>11 DEF Kept

\* The data of a set.
LEMMA WriteDataKept == ASSUME Kept, NEW t \in Tasks, WriteData(t) PROVE Kept'
<1>1. /\ pc[t] = "data" /\ (NoFail \/ Fail(t))
      /\ UNCHANGED <<mutex, call, prog, ans, parked, lepSt, touched>>
  BY DEF WriteData, site
<1>2. /\ Sense(t) /\ call[t] \in Calls /\ call[t].op \in {"set", "rawset"} /\ mutex = t
      /\ prog[t] \in Progs
  BY <1>1 DEF Kept, Senses, Typed, Sense, Locked, Inside
<1>3. /\ NoFail => /\ sensor' = IF Busy THEN sensor ELSE [sensor EXCEPT !.data = call[t].v]
                   /\ Goto(t, "command") /\ UNCHANGED <<lastErr, ownErr>>
      /\ ~NoFail => sensor' = sensor
      /\ \/ Goto(t, "command") /\ UNCHANGED <<lastErr, ownErr>>
         \/ /\ Goto(t, "give") /\ call[t].op = "rawset"
            /\ lastErr' = TRUE /\ ownErr' = [ownErr EXCEPT ![t] = TRUE]
  BY DEF WriteData, NoFail, Fail, Kept, Typed
<1>4. /\ troubles' \in Nat /\ clean' \in BOOLEAN /\ apart' \in BOOLEAN
      /\ clean' => clean /\ (NoFail \/ ~Shuttering(t))
      /\ apart' => apart /\ (NoFail \/ ~Configures(t))
      /\ troubles' <= 1 => troubles <= 1 /\ (NoFail \/ troubles = 0)
      /\ troubles' = 0 => troubles = 0 /\ NoFail
      /\ \A u \in Tasks : Undisturbed(u)' => Undisturbed(u)
      /\ Undisturbed(t)' => NoFail
  BY <1>1, MayFail
<1>5. /\ Senses' /\ pc' \in [Tasks -> Places] /\ pc'[t] \in {"command", "give"}
      /\ pc'[t] = "give" => call[t].op = "rawset"
      /\ \A u \in Tasks \ {t} : pc'[u] = pc[u]
  BY <1>1, <1>3, AccessSense DEF Places
<1>6. /\ sensor' \in [run : Calls, data : 0 .. 2, agc : 0 .. 1, flux : 0 .. 1, shutter : {0, 2}]
      /\ sensor'.run = sensor.run /\ \A a \in Settings : sensor'[a] = sensor[a]
      /\ NoFail /\ ~Busy => sensor'.data = call[t].v
  BY <1>2, <1>3 DEF Kept, Typed, Calls, Settings
<1>7. Busy' <=> Busy
  BY <1>6 DEF Busy
<1>8. Typed'
  <2>1. lastErr' \in BOOLEAN /\ ownErr' \in [Tasks -> BOOLEAN]
    <3>1. CASE UNCHANGED <<lastErr, ownErr>>
      BY <3>1 DEF Kept, Typed
    <3>2. CASE lastErr' = TRUE /\ ownErr' = [ownErr EXCEPT ![t] = TRUE]
      BY <3>2, Zenon DEF Kept, Typed
    <3> QED BY <1>3, <3>1, <3>2
  <2> QED BY <1>1, <1>4, <1>5, <1>6, <2>1 DEF Kept, Typed
<1>9. Locked' /\ Untouched' /\ Unanswered'
  BY <1>1, <1>2, <1>5 DEF Kept, Locked, Inside, Untouched, Unread, Unanswered
<1>10. Status'
  <2>1. CASE t = Cmd /\ pc'[Cmd] = "give"
    BY <1>3, <2>1 DEF Status, Goto, Kept, Typed
  <2>2. CASE t = Cmd /\ pc'[Cmd] # "give"
    BY <1>5, <2>2 DEF Status
  <2>3. CASE t # Cmd
    <3>1. call[t].op # "rawset"
      BY <1>1, <1>2, <2>3 DEF Sense, Configures, Shuttering, Progs, Set, Run
    <3>2. UNCHANGED <<lastErr, ownErr>>
      BY <1>3, <3>1
    <3> QED BY <1>1, <1>5, <2>3, <3>2, TasksDiffer DEF Kept, Status
  <2> QED BY <2>1, <2>2, <2>3
<1>11. Source'
  <2>1. \A u \in Tasks : Own(u) => Own(u)'
    BY <1>1, <1>5, <1>6 DEF Own
  <2> QED BY <1>1, <1>4, <1>6, <1>7, <2>1 DEF Kept, Source, Sets, Shuttering, Configures
<1>12. SetsStand'
  <2> SUFFICES ASSUME NEW u \in Tasks, Undisturbed(u)', call[u].op = "set" PROVE SetStands(u)'
    BY <1>1 DEF SetsStand
  <2>1. SetStands(u) /\ Undisturbed(u) /\ call[u] \in Calls
    BY <1>4 DEF Kept, SetsStand, Typed
  <2>2. CASE u = t
    BY <1>1, <1>4, <1>5, <1>6, <1>7, <2>1, <2>2 DEF SetStands
  <2>3. CASE u # t
    <3>1. pc[u] \in {"idle", "take", "ret"} /\ pc'[u] = pc[u]
      BY <1>2, <1>5, <2>3, OthersOutside
    <3> QED BY <1>1, <1>6, <2>1, <3>1 DEF SetStands, Calls
  <2> QED BY <2>2, <2>3
<1>13. OneSpoils'
  <2>1. \A u \in Tasks : ~Checking(u)'
    BY <1>1, <1>2, <1>5, OthersOutside DEF Checking, Configures
  <2> QED BY <2>1 DEF OneSpoils
<1>14. Alone' /\ InitKnows' /\ ConfigKnows' /\ ParkAgrees' /\ ConfigAgrees'
  BY <1>1, <1>4, <1>6, SettingsStay
<1> QED BY <1>5, <1>8, <1>9, <1>10, <1>11, <1>12, <1>13, <1>14 DEF Kept

\* The command of a call.
LEMMA WriteCommandKept == ASSUME Kept, NEW t \in Tasks, WriteCommand(t) PROVE Kept'
<1>1. /\ pc[t] = "command" /\ (NoFail \/ Fail(t)) /\ Goto(t, "check")
      /\ UNCHANGED <<mutex, lastErr, call, prog, ans, parked, lepSt, touched, ownErr>>
  BY DEF WriteCommand, site
<1>2. Sense(t) /\ call[t] \in Calls /\ mutex = t /\ prog[t] \in Progs
  BY <1>1 DEF Kept, Senses, Typed, Locked, Inside
<1>3. /\ NoFail => sensor' = IF Busy THEN sensor ELSE [sensor EXCEPT !.run = call[t]]
      /\ ~NoFail => sensor' = sensor
  BY DEF WriteCommand, NoFail, Fail, Kept, Typed
<1>4. /\ troubles' \in Nat /\ clean' \in BOOLEAN /\ apart' \in BOOLEAN
      /\ clean' => clean /\ (NoFail \/ ~Shuttering(t))
      /\ apart' => apart /\ (NoFail \/ ~Configures(t))
      /\ troubles' <= 1 => troubles <= 1 /\ (NoFail \/ troubles = 0)
      /\ troubles' = 0 => troubles = 0 /\ NoFail
      /\ \A u \in Tasks : Undisturbed(u)' => Undisturbed(u)
      /\ Undisturbed(t)' => NoFail
  BY <1>1, MayFail
<1>5. /\ Senses' /\ pc' \in [Tasks -> Places] /\ pc'[t] = "check"
      /\ \A u \in Tasks \ {t} : pc'[u] = pc[u]
  BY <1>1, AccessSense DEF Places
<1>6. /\ sensor' \in [run : Calls, data : 0 .. 2, agc : 0 .. 1, flux : 0 .. 1, shutter : {0, 2}]
      /\ sensor'.data = sensor.data /\ \A a \in Settings : sensor'[a] = sensor[a]
      /\ NoFail /\ ~Busy => sensor'.run = call[t]
      /\ ~(NoFail /\ ~Busy) => sensor'.run = sensor.run
  BY <1>2, <1>3 DEF Kept, Typed, Calls, Settings
<1>7. Typed'
  BY <1>1, <1>4, <1>5, <1>6 DEF Kept, Typed
<1>8. Locked' /\ Untouched' /\ Unanswered'
  BY <1>1, <1>2, <1>5 DEF Kept, Locked, Inside, Untouched, Unread, Unanswered
<1>9. Status'
  BY <1>1, <1>5, TasksDiffer DEF Kept, Status
<1>10. Source'
  <2>1. CASE NoFail /\ ~Busy
    <3>1. Own(t)'
      BY <1>1, <1>5, <1>6, <2>1 DEF Own
    <3>2. Shuttering(t)' <=> Shuttering(t)
      BY <1>1 DEF Shuttering
    <3>3. Configures(t)' <=> Configures(t)
      BY <1>1 DEF Configures
    <3>4. call[t].op \in {"set", "rawset"} /\ call[t].a = "shutter" => Shuttering(t)
      BY <1>1, <1>2 DEF Sense, Configures, Shuttering, RawCalls, Run, Progs
    <3>5. call[t].op \in {"set", "rawset"} /\ call[t].a # "shutter"
          => Configures(t) \/ (t = Cmd /\ call[t].op = "rawset")
      BY <1>1, <1>2 DEF Sense, Configures, Shuttering, RawCalls, Run, Progs, Set
    <3>6. apart => ~(t = Cmd /\ call[t].op = "rawset")
      BY DEF Kept, Alone
    <3> QED BY <1>4, <1>6, <2>1, <3>1, <3>2, <3>3, <3>4, <3>5, <3>6 DEF Source, Sets
  <2>2. CASE ~(NoFail /\ ~Busy)
    <3>1. \A u \in Tasks : Own(u) => Own(u)'
      BY <1>1, <1>5, <1>6, <2>2 DEF Own
    <3> QED BY <1>1, <1>4, <1>6, <2>2, <3>1 DEF Kept, Source, Sets, Busy, Shuttering,
       Configures
  <2> QED BY <2>1, <2>2
<1>11. SetsStand'
  <2> SUFFICES ASSUME NEW u \in Tasks, Undisturbed(u)', call[u].op = "set" PROVE SetStands(u)'
    BY <1>1 DEF SetsStand
  <2>1. SetStands(u) /\ Undisturbed(u) /\ call[u] \in Calls
    BY <1>4 DEF Kept, SetsStand, Typed
  <2>2. CASE u = t
    BY <1>1, <1>4, <1>5, <1>6, <2>1, <2>2 DEF SetStands, Busy
  <2>3. CASE u # t
    <3>1. pc[u] \in {"idle", "take", "ret"} /\ pc'[u] = pc[u]
      BY <1>2, <1>5, <2>3, OthersOutside
    <3> QED BY <1>1, <1>6, <2>1, <3>1 DEF SetStands, Calls
  <2> QED BY <2>2, <2>3
<1>12. OneSpoils'
  <2> SUFFICES ASSUME troubles' <= 1, NEW u \in Tasks, Checking(u)'
               PROVE  SetBefore(u)' \/ GetStands(u)'
    BY DEF OneSpoils
  <2>1. u = t
    BY <1>1, <1>2, <1>5, OthersOutside DEF Checking, Configures
  <2>2. Checking(t)
    BY <1>1, <2>1 DEF Checking, Configures
  <2>3. CASE NoFail
    <3>1. SetBefore(t) \/ GetStands(t)
      BY <1>4, <2>2 DEF Kept, OneSpoils
    <3>2. SetBefore(t) => SetBefore(t)'
      BY <1>1, <1>2, <1>6, <2>3 DEF SetBefore, Busy, Calls
    <3>3. GetStands(t) => GetStands(t)'
      BY <1>1, <1>2, <1>5, <1>6, <2>2, <2>3 DEF GetStands, Busy, Checking
    <3> QED BY <2>1, <3>1, <3>2, <3>3
  <2>4. CASE ~NoFail
    <3>1. SetBefore(t)
      BY <1>2, <1>4, <2>2, <2>4, NoTroubleYet DEF Checking
    <3> QED BY <1>1, <1>2, <1>6, <2>1, <2>4, <3>1 DEF SetBefore, Busy, Calls
  <2> QED BY <2>3, <2>4
<1>13. Alone' /\ InitKnows' /\ ConfigKnows' /\ ParkAgrees' /\ ConfigAgrees'
  BY <1>1, <1>4, <1>6, SettingsStay
<1> QED BY <1>5, <1>7, <1>8, <1>9, <1>10, <1>11, <1>12, <1>13 DEF Kept

\* The wait after the command: the flag tells how it went.
LEMMA CheckKept == ASSUME Kept, NEW t \in Tasks, Check(t) PROVE Kept'
<1> DEFINE l == IF \/ call[t].op = "rawget"
                   \/ call[t].op = "get" /\ call[t].a \in ReadInside THEN "read" ELSE "give"
<1>1. /\ pc[t] = "check" /\ (NoFail \/ Fail(t)) /\ Goto(t, l)
      /\ UNCHANGED <<mutex, sensor, call, prog, ans, parked, lepSt, touched>>
  BY DEF Check, site
<1>2. Sense(t) /\ call[t] \in Calls /\ mutex = t
  BY <1>1 DEF Kept, Senses, Typed, Locked, Inside
<1>3. /\ NoFail => ~Busy
      /\ \/ lastErr' = TRUE /\ ownErr' = [ownErr EXCEPT ![t] = TRUE]
         \/ lastErr' = FALSE /\ ownErr' = [ownErr EXCEPT ![t] = FALSE]
  BY DEF Check, NoFail, Fail, Kept, Typed
<1>4. /\ troubles' \in Nat /\ clean' \in BOOLEAN /\ apart' \in BOOLEAN
      /\ clean' => clean /\ (NoFail \/ ~Shuttering(t))
      /\ apart' => apart /\ (NoFail \/ ~Configures(t))
      /\ troubles' <= 1 => troubles <= 1 /\ (NoFail \/ troubles = 0)
      /\ troubles' = 0 => troubles = 0 /\ NoFail
      /\ \A u \in Tasks : Undisturbed(u)' => Undisturbed(u)
      /\ Undisturbed(t)' => NoFail
  BY <1>1, MayFail
<1>5. /\ Senses' /\ pc' \in [Tasks -> Places] /\ pc'[t] = l
      /\ \A u \in Tasks \ {t} : pc'[u] = pc[u]
  BY <1>1, AccessSense DEF Places
<1>6. Typed'
  <2>1. lastErr' \in BOOLEAN /\ ownErr' \in [Tasks -> BOOLEAN]
    BY <1>3, Zenon DEF Kept, Typed
  <2> QED BY <1>1, <1>4, <1>5, <2>1 DEF Kept, Typed
<1>7. Locked' /\ Untouched' /\ Unanswered'
  BY <1>1, <1>2, <1>5 DEF Kept, Locked, Inside, Untouched, Unread, Unanswered
<1>8. Status'
  <2>1. CASE t = Cmd
    BY <1>3, <2>1 DEF Status, Kept, Typed
  <2>2. CASE t # Cmd
    <3>1. ~Inside(Cmd) /\ (prog[Cmd].do = "raw" => pc[Cmd] \notin {"read", "ret"} \/ touched[Cmd])
      BY <1>2, <2>2, OthersOutside, TasksDiffer
    <3> QED BY <1>1, <1>5, <2>2, <3>1, TasksDiffer DEF Status, Inside
  <2> QED BY <2>1, <2>2
<1>9. Source'
  <2>1. \A u \in Tasks \ {t} : Own(u) => Own(u)'
    BY <1>1, <1>5 DEF Own
  <2>2. NoFail => ~Sets /\ ~Busy
    BY <1>3 DEF Sets, Busy
  <2> QED BY <1>1, <1>4, <2>1, <2>2 DEF Kept, Source, Sets, Busy, Shuttering, Configures
<1>10. SetsStand'
  <2> SUFFICES ASSUME NEW u \in Tasks, Undisturbed(u)', call[u].op = "set" PROVE SetStands(u)'
    BY <1>1 DEF SetsStand
  <2>1. SetStands(u)
    BY <1>4 DEF Kept, SetsStand
  <2>2. CASE u = t
    BY <1>1, <1>3, <1>4, <1>5, <2>1, <2>2 DEF SetStands, Busy
  <2>3. CASE u # t
    BY <1>1, <1>5, <2>1, <2>3 DEF SetStands, Busy
  <2> QED BY <2>2, <2>3
<1>11. OneSpoils'
  <2> SUFFICES ASSUME troubles' <= 1, NEW u \in Tasks, Checking(u)'
               PROVE  SetBefore(u)' \/ GetStands(u)'
    BY DEF OneSpoils
  <2>1. u = t
    BY <1>1, <1>2, <1>5, OthersOutside DEF Checking, Configures
  <2>2. Checking(t)
    BY <1>1, <2>1 DEF Checking, Configures
  <2>3. SetBefore(t) => SetBefore(t)'
    BY <1>1 DEF SetBefore, Busy
  <2>4. CASE NoFail
    <3>1. SetBefore(t) \/ GetStands(t)
      BY <1>4, <2>2 DEF Kept, OneSpoils
    <3>2. ans[t] = Garbage /\ prog[t].want \in 0 .. 1
      BY <1>1 DEF Kept, Unanswered, Typed, Progs
    <3>3. GetStands(t) => GetStands(t)'
      BY <1>1, <1>3, <1>5, <2>4, <3>2 DEF GetStands, Busy, Garbage
    <3> QED BY <2>1, <2>3, <3>1, <3>3
  <2>5. CASE ~NoFail
    <3>1. SetBefore(t)
      BY <1>2, <1>4, <2>2, <2>5, NoTroubleYet DEF Checking
    <3> QED BY <2>1, <2>3, <3>1
  <2> QED BY <2>4, <2>5
<1>12. Alone' /\ InitKnows' /\ ConfigKnows' /\ ParkAgrees' /\ ConfigAgrees'
  BY <1>1, <1>4, SettingsStay
<1> QED BY <1>5, <1>6, <1>7, <1>8, <1>9, <1>10, <1>11, <1>12 DEF Kept

\* The read of the answer, inside the mutex or behind it.
LEMMA ReadKept == ASSUME Kept, NEW t \in Tasks, Read(t) PROVE Kept'
<1> DEFINE l == IF mutex = t THEN "give" ELSE "ret"
<1>1. /\ pc[t] = "read" /\ (NoFail \/ Fail(t)) /\ Goto(t, l)
      /\ UNCHANGED <<mutex, sensor, lastErr, call, prog, parked, lepSt, touched, ownErr>>
  BY DEF Read, site
<1>2. /\ Sense(t) /\ call[t] \in Calls /\ call[t].op \in {"get", "rawget"}
      /\ prog[t].want \in 0 .. 1 /\ sensor.data \in 0 .. 2
  BY <1>1 DEF Kept, Senses, Sense, Typed, Progs
<1>3. \/ NoFail /\ ans' = [ans EXCEPT ![t] = sensor.data]
      \/ ~NoFail /\ ans' = [ans EXCEPT ![t] = Garbage]
  BY DEF Read, NoFail, Fail, Kept, Typed
<1>4. /\ troubles' \in Nat /\ clean' \in BOOLEAN /\ apart' \in BOOLEAN
      /\ clean' => clean /\ (NoFail \/ ~Shuttering(t))
      /\ apart' => apart /\ (NoFail \/ ~Configures(t))
      /\ troubles' <= 1 => troubles <= 1 /\ (NoFail \/ troubles = 0)
      /\ troubles' = 0 => troubles = 0 /\ NoFail
      /\ \A u \in Tasks : Undisturbed(u)' => Undisturbed(u)
      /\ Undisturbed(t)' => NoFail
  BY <1>1, MayFail
<1>5. /\ Senses' /\ pc' \in [Tasks -> Places] /\ pc'[t] = l
      /\ \A u \in Tasks \ {t} : pc'[u] = pc[u]
  BY <1>1, AccessSense DEF Places
<1>6. /\ ans' \in [Tasks -> 0 .. 3] /\ ans'[t] \in {sensor.data, Garbage}
      /\ \A u \in Tasks \ {t} : ans'[u] = ans[u]
  BY <1>2, <1>3 DEF Kept, Typed, Garbage
<1>7. Typed'
  BY <1>1, <1>4, <1>5, <1>6 DEF Kept, Typed
<1>8. Locked'
  BY <1>1, <1>5 DEF Kept, Locked, Inside
<1>9. Untouched'
  BY <1>1, <1>5 DEF Kept, Untouched, Unread
<1>10. Unanswered'
  BY <1>1, <1>2, <1>5, <1>6 DEF Kept, Unanswered, Locked, Inside
<1>11. Status'
  BY <1>1, <1>5, TasksDiffer DEF Kept, Status
<1>12. Source'
  <2>1. \A u \in Tasks : Own(u) => Own(u)'
    BY <1>1, <1>5 DEF Own
  <2> QED BY <1>1, <1>4, <2>1 DEF Kept, Source, Sets, Busy, Shuttering, Configures
<1>13. SetsStand'
  <2>1. \A u \in Tasks : call[u].op = "set" /\ SetStands(u) => SetStands(u)'
    BY <1>1, <1>2, <1>5 DEF SetStands, Busy
  <2> QED BY <1>1, <1>4, <2>1 DEF Kept, SetsStand
<1>14. OneSpoils'
  <2> SUFFICES ASSUME troubles' <= 1, NEW u \in Tasks, Checking(u)'
               PROVE  SetBefore(u)' \/ GetStands(u)'
    BY DEF OneSpoils
  <2>1. Checking(u)
    BY <1>1, <1>5 DEF Checking, Configures
  <2>2. SetBefore(u) \/ GetStands(u)
    BY <1>4, <2>1 DEF Kept, OneSpoils
  <2>3. SetBefore(u) => SetBefore(u)'
    BY <1>1 DEF SetBefore, Busy
  <2>4. CASE u # t
    BY <1>1, <1>5, <1>6, <2>2, <2>3, <2>4 DEF GetStands, Busy
  <2>5. CASE u = t
    BY <1>1, <1>2, <1>5, <1>6, <2>2, <2>3, <2>5 DEF GetStands, Busy, Garbage
  <2> QED BY <2>4, <2>5
<1>15. Alone' /\ InitKnows' /\ ConfigKnows' /\ ParkAgrees' /\ ConfigAgrees'
  BY <1>1, <1>4, SettingsStay
<1> QED BY <1>5, <1>7, <1>8, <1>9, <1>10, <1>11, <1>12, <1>13, <1>14, <1>15 DEF Kept

\* The give.
LEMMA GiveKept == ASSUME Kept, NEW t \in Tasks, Give(t) PROVE Kept'
<1> DEFINE l == IF call[t].op = "get" /\ call[t].a \notin ReadInside THEN "read" ELSE "ret"
<1>1. /\ pc[t] = "give" /\ mutex' = None /\ Goto(t, l)
      /\ UNCHANGED <<sensor, lastErr, call, prog, ans, parked, lepSt, troubles, touched,
                     ownErr, clean, apart>>
  BY DEF Give, site, hist
<1>2. mutex = t
  BY <1>1 DEF Kept, Locked, Inside
<1>3. /\ Senses' /\ pc' \in [Tasks -> Places] /\ pc'[t] = l
      /\ \A u \in Tasks \ {t} : pc'[u] = pc[u]
  BY <1>1, AccessSense DEF Places
<1>4. Typed'
  BY <1>1, <1>3 DEF Kept, Typed
<1>5. Locked'
  BY <1>1, <1>2, <1>3, TasksDiffer DEF Kept, Locked, Inside
<1>6. Untouched'
  BY <1>1 DEF Untouched
<1>7. Unanswered'
  BY <1>1, <1>3 DEF Kept, Unanswered
<1>8. Status'
  BY <1>1, <1>3, TasksDiffer DEF Kept, Status
<1>9. Source'
  <2>1. \A u \in Tasks : Own(u) => Own(u)'
    BY <1>1, <1>3 DEF Own
  <2> QED BY <1>1, <2>1 DEF Kept, Source, Sets, Busy, Shuttering, Configures
<1>10. SetsStand'
  <2>1. \A u \in Tasks : call[u].op = "set" /\ SetStands(u) => SetStands(u)'
    BY <1>1, <1>3 DEF SetStands, Busy
  <2> QED BY <1>1, <2>1 DEF Kept, SetsStand, Undisturbed, Shuttering, Configures
<1>11. OneSpoils'
  <2> SUFFICES ASSUME troubles <= 1, NEW u \in Tasks, Checking(u)'
               PROVE  SetBefore(u)' \/ GetStands(u)'
    BY <1>1 DEF OneSpoils
  <2>1. Checking(u)
    BY <1>1, <1>3 DEF Checking, Configures
  <2>2. SetBefore(u) \/ GetStands(u)
    BY <2>1 DEF Kept, OneSpoils
  <2>3. SetBefore(u) => SetBefore(u)'
    BY <1>1 DEF SetBefore, Busy
  <2>4. CASE u # t
    BY <1>1, <1>3, <2>2, <2>3, <2>4 DEF GetStands, Busy
  <2>5. CASE u = t
    BY <1>1, <1>3, <2>1, <2>2, <2>3, <2>5 DEF GetStands, Busy, Checking
  <2> QED BY <2>4, <2>5
<1>12. Alone' /\ InitKnows' /\ ConfigKnows' /\ ParkAgrees' /\ ConfigAgrees'
  BY <1>1, SettingsStay
<1> QED BY <1>3, <1>4, <1>5, <1>6, <1>7, <1>8, <1>9, <1>10, <1>11, <1>12 DEF Kept

-----------------------------------------------------------------------------
\* What the sensor does with the command it has: it writes the setting, or the data.
LEMMA SensorEffect ==
  ASSUME Kept, SensorRuns
  PROVE  /\ Busy
         /\ sensor' \in [run : Calls, data : 0 .. 2, agc : 0 .. 1, flux : 0 .. 1,
                         shutter : {0, 2}]
         /\ ~Busy' /\ ~Sets'
         /\ Sets /\ sensor.data \in Value(sensor.run.a)
              => sensor'[sensor.run.a] = sensor.data /\ sensor'.data = sensor.data
         /\ sensor.run.op \in {"get", "rawget"} => sensor'.data = sensor[sensor.run.a]
         /\ \A a \in Settings : ~(Sets /\ sensor.run.a = a) => sensor'[a] = sensor[a]
<1>1. sensor.run \in Calls /\ Busy
  BY DEF SensorRuns, Kept, Typed
<1>2. NoCall \in Calls /\ NoCall.op = "none"
  BY DEF NoCall, Calls, Ops, Settings
<1>3. sensor \in [run : Calls, data : 0 .. 2, agc : 0 .. 1, flux : 0 .. 1, shutter : {0, 2}]
  BY DEF Kept, Typed
<1>4. CASE Sets /\ sensor.data \in Value(sensor.run.a)
  <2>1. sensor' = [[sensor EXCEPT ![sensor.run.a] = sensor.data] EXCEPT !.run = NoCall]
    BY <1>4 DEF SensorRuns, Sets
  <2>2. CASE sensor.run.a = "agc"
    <3>1. sensor.data \in 0 .. 1
      BY <1>4, <2>2 DEF Value
    <3> QED BY <1>2, <1>3, <1>4, <2>1, <2>2, <3>1 DEF Busy, Sets, Settings
  <2>3. CASE sensor.run.a = "flux"
    <3>1. sensor.data \in 0 .. 1
      BY <1>4, <2>3 DEF Value
    <3> QED BY <1>2, <1>3, <1>4, <2>1, <2>3, <3>1 DEF Busy, Sets, Settings
  <2>4. CASE sensor.run.a = "shutter"
    BY <1>1, <1>2, <1>3, <1>4, <2>1, <2>4 DEF Value, Busy, Sets, Settings
  <2> QED BY <1>1, <2>2, <2>3, <2>4 DEF Calls, Settings
<1>5. CASE sensor.run.op \in {"get", "rawget"}
  <2>1. sensor' = [[sensor EXCEPT !.data = sensor[sensor.run.a]] EXCEPT !.run = NoCall]
    BY <1>5 DEF SensorRuns
  <2>2. sensor[sensor.run.a] \in 0 .. 2
    BY <1>1, <1>3 DEF Calls, Settings
  <2> QED BY <1>1, <1>2, <1>3, <1>5, <2>1, <2>2 DEF Busy, Sets, Settings
<1>6. CASE ~(Sets /\ sensor.data \in Value(sensor.run.a)) /\ sensor.run.op \notin {"get", "rawget"}
  <2>1. sensor' = [sensor EXCEPT !.run = NoCall]
    BY <1>6 DEF SensorRuns, Sets
  <2> QED BY <1>1, <1>2, <1>3, <1>6, <2>1 DEF Busy, Sets, Settings
<1> QED BY <1>4, <1>5, <1>6

\* A set in the sensor is that of the task that is waiting for it.
LEMMA WhoSets ==
  ASSUME Kept, Sets
  PROVE  /\ clean /\ sensor.run.a = "shutter"
              => \E u \in Tasks : Shuttering(u) /\ Own(u) /\ call[u].op = "set"
         /\ apart /\ sensor.run.a # "shutter"
              => \E u \in Tasks : Configures(u) /\ Own(u) /\ call[u].op = "set"
         /\ troubles = 0 => \E u \in Tasks : Own(u)
<1>1. ASSUME NEW u \in Tasks, Own(u), Shuttering(u) \/ Configures(u) PROVE call[u].op = "set"
  <2>1. Sense(u) /\ call[u].op \in {"set", "rawset"}
    BY <1>1 DEF Kept, Senses, Own, Sets
  <2> QED BY <1>1, <2>1 DEF Sense, Set, Run
<1> QED BY <1>1 DEF Kept, Source, Sets, Busy

\* The sensor finishes the command it has.
LEMMA SensorRunsKept == ASSUME Kept, SensorRuns PROVE Kept'
<1>1. UNCHANGED <<mutex, lastErr, pc, call, prog, ans, parked, lepSt, troubles, touched,
                  ownErr, clean, apart>>
  BY DEF SensorRuns, site, hist
<1>2. /\ Busy
      /\ sensor' \in [run : Calls, data : 0 .. 2, agc : 0 .. 1, flux : 0 .. 1, shutter : {0, 2}]
      /\ ~Busy' /\ ~Sets'
      /\ Sets /\ sensor.data \in Value(sensor.run.a)
           => sensor'[sensor.run.a] = sensor.data /\ sensor'.data = sensor.data
      /\ sensor.run.op \in {"get", "rawget"} => sensor'.data = sensor[sensor.run.a]
      /\ \A a \in Settings : ~(Sets /\ sensor.run.a = a) => sensor'[a] = sensor[a]
  BY SensorEffect
<1>3. Typed'
  BY <1>1, <1>2 DEF Kept, Typed
<1>4. Senses' /\ Locked' /\ Untouched' /\ Unanswered' /\ Status' /\ Alone'
  BY <1>1 DEF Kept, Senses, Sense, Configures, Shuttering, Locked, Inside, Untouched,
     Unread,
     Unanswered, Status, Alone
<1>5. Source'
  BY <1>2 DEF Source
<1>6. SetsStand'
  <2> SUFFICES ASSUME NEW t \in Tasks, Undisturbed(t), call[t].op = "set" PROVE SetStands(t)'
    BY <1>1 DEF SetsStand, Undisturbed, Shuttering, Configures
  <2>1. SetStands(t) /\ Sense(t) /\ call[t] \in Calls /\ prog[t] \in Progs
    BY DEF Kept, SetsStand, Senses, Typed
  <2>2. pc[t] \notin {"data", "command"}
    BY <1>2, <2>1 DEF SetStands
  <2>3. Shuttering(t) \/ Configures(t)
    BY DEF Undisturbed, Configures
  <2>4. CASE pc[t] = "check"
    <3>1. sensor.run = call[t] /\ sensor.data = call[t].v /\ Sets
      BY <1>2, <2>1, <2>4 DEF SetStands, Sets
    <3>2. call[t].v \in Value(call[t].a)
      BY <2>1, <2>3
         DEF Sense, Value, Set, Run, Shuttering, Configures, IDLE, CLOSED, Progs
    <3>3. sensor'[call[t].a] = call[t].v
      BY <1>2, <3>1, <3>2
    <3> QED BY <1>1, <1>2, <2>4, <3>3 DEF SetStands
  <2>5. CASE pc[t] \in {"give", "ret"}
    <3>1. sensor[call[t].a] = call[t].v /\ call[t].a \in Settings
      BY <2>1, <2>5 DEF SetStands, Calls
    <3>2. ASSUME Sets, sensor.run.a = call[t].a PROVE FALSE
      <4>1. ~Own(t)
        BY <2>5 DEF Own
      <4>2. CASE Shuttering(t) /\ clean
        <5>1. call[t].a = "shutter"
          BY <2>1, <4>2 DEF Sense, Set, Run
        <5>2. PICK u \in Tasks : Shuttering(u) /\ Own(u)
          BY <3>2, <4>2, <5>1, WhoSets
        <5> QED BY <4>1, <4>2, <5>2 DEF Kept, Alone
      <4>3. CASE Configures(t) /\ apart
        <5>1. call[t].a # "shutter" /\ t \in {Cmd, Lep}
          BY <2>1, <4>3 DEF Sense, Configures, Run
        <5>2. PICK u \in Tasks : Configures(u) /\ Own(u)
          BY <3>2, <4>3, <5>1, WhoSets
        <5>3. Sense(u)
          BY DEF Kept, Senses
        <5> QED BY <2>1, <4>1, <4>3, <5>2, <5>3 DEF Kept, Alone, Configures, Sense
      <4>4. CASE prog[t].do = "config" /\ troubles = 0
        <5>1. t = Cmd /\ call[t].a # "shutter"
          BY <2>1, <4>4 DEF Sense, Configures, Run
        <5>2. PICK u \in Tasks : Own(u)
          BY <3>2, <4>4, WhoSets
        <5>3. Sense(u) /\ u # Cmd /\ call[u] = sensor.run /\ prog[u] \in Progs /\ pc[u] = "check"
          BY <4>1, <5>1, <5>2 DEF Kept, Senses, Own, Typed
        <5>4. prog[u].do # "init"
          BY <4>4, <5>3 DEF Kept, Alone, Sense
        <5> QED BY <3>2, <5>1, <5>3, <5>4
           DEF Sense, Configures, Shuttering, Progs, Set, Run, Sets
      <4> QED BY <4>2, <4>3, <4>4 DEF Undisturbed
    <3>3. sensor'[call[t].a] = call[t].v
      BY <1>2, <3>1, <3>2
    <3> QED BY <1>1, <1>2, <2>5, <3>3 DEF SetStands
  <2> QED BY <1>1, <2>2, <2>4, <2>5 DEF SetStands
<1>7. InitKnows'
  <2> SUFFICES ASSUME apart, prog[Lep].do = "init" PROVE InitKnows'
    BY <1>1 DEF InitKnows
  <2>1. ASSUME Sets, sensor.run.a # "shutter"
        PROVE  call[Lep] = sensor.run /\ call[Lep].op = "set"
    <3>1. PICK u \in Tasks : Configures(u) /\ Own(u) /\ call[u].op = "set"
      BY <2>1, WhoSets
    <3>2. u = Lep
      BY <3>1 DEF Kept, Senses, Sense, Alone, Configures
    <3> QED BY <3>1, <3>2 DEF Own
  <2>2. call[Lep].a \in Settings /\ Sense(Lep)
    BY TasksDiffer DEF Kept, Typed, Calls, Senses
  <2>3. call[Lep].op \in {"set", "get"} => call[Lep].a # "shutter"
    BY <2>2 DEF Sense, Configures, Run
  <2>4. call[Lep].op = "get" => sensor'[call[Lep].a] = sensor[call[Lep].a]
    BY <1>2, <2>1, <2>2, <2>3
  <2>5. call[Lep].op \in {"set", "get"} /\ call[Lep].a = "flux" => sensor'.agc = sensor.agc
    BY <1>2, <2>1 DEF Settings
  <2> QED BY <1>1, <2>4, <2>5 DEF Kept, InitKnows
<1>8. ConfigKnows'
  <2> SUFFICES ASSUME prog[Cmd].do = "config" PROVE ConfigKnows'
    BY <1>1 DEF ConfigKnows
  <2>1. call[Cmd].a \in {"agc", "flux"} /\ call[Cmd].op \in {"set", "get"}
    BY TasksDiffer DEF Kept, Senses, Sense, Configures, Run
  <2>2. ASSUME apart, Sets, sensor.run.a # "shutter"
        PROVE  call[Cmd] = sensor.run /\ call[Cmd].op = "set"
    <3>1. PICK u \in Tasks : Configures(u) /\ Own(u) /\ call[u].op = "set"
      BY <2>2, WhoSets
    <3>2. u = Cmd
      BY <2>2, <3>1 DEF Kept, Senses, Sense, Alone, Configures
    <3> QED BY <3>1, <3>2 DEF Own
  <2>3. ASSUME troubles = 0, Sets, sensor.run.a # "shutter" PROVE call[Cmd].op = "set"
    <3>1. PICK u \in Tasks : Own(u)
      BY <2>3, WhoSets
    <3>2. Sense(u) /\ prog[u] \in Progs /\ pc[u] = "check" /\ call[u] = sensor.run
      BY <3>1 DEF Kept, Senses, Own, Typed
    <3>3. u = Cmd
      BY <2>3, <3>2
         DEF Kept, Alone, Sense, Configures, Shuttering, Progs, Set, Run, Sets, RawCalls
    <3> QED BY <2>1, <2>3, <3>2, <3>3 DEF Sets
  <2>4. (apart \/ troubles = 0) /\ call[Cmd].op = "get"
          => sensor'[call[Cmd].a] = sensor[call[Cmd].a]
    BY <1>2, <2>1, <2>2, <2>3 DEF Settings
  <2>5. apart => \A a \in {"agc", "flux"} \ {call[Cmd].a} : sensor'[a] = sensor[a]
    BY <1>2, <2>2 DEF Settings
  <2> QED BY <1>1, <2>4, <2>5 DEF Kept, ConfigKnows
<1>9. ParkAgrees'
  <2> SUFFICES ASSUME clean, \A t \in Tasks : ~Shuttering(t) \/ call[t].op = "run"
               PROVE  parked <=> sensor'.shutter = CLOSED
    BY <1>1 DEF ParkAgrees, Shuttering
  <2>1. ~(Sets /\ sensor.run.a = "shutter")
    BY WhoSets
  <2>2. sensor'.shutter = sensor.shutter
    BY <1>2, <2>1 DEF Settings
  <2> QED BY <2>2 DEF Kept, ParkAgrees
<1>10. ConfigAgrees'
  <2> SUFFICES ASSUME apart, prog[Cmd].do # "config", prog[Lep].do # "init"
               PROVE  \A a \in {"agc", "flux"} : sensor'[a] = lepSt[a]
    BY <1>1 DEF ConfigAgrees
  <2>1. \A u \in Tasks : ~Configures(u)
    BY DEF Kept, Senses, Sense, Configures
  <2>2. ~(Sets /\ sensor.run.a # "shutter")
    BY <2>1, WhoSets
  <2>3. sensor'.agc = sensor.agc /\ sensor'.flux = sensor.flux
    BY <1>2, <2>2 DEF Settings
  <2> QED BY <2>3 DEF Kept, ConfigAgrees
<1>11. OneSpoils'
  <2> SUFFICES ASSUME troubles <= 1, NEW t \in Tasks, Checking(t)
               PROVE  SetBefore(t)' \/ GetStands(t)'
    BY <1>1 DEF OneSpoils, Checking, Configures
  <2>1. SetBefore(t) \/ GetStands(t)
    BY DEF Kept, OneSpoils
  <2>2. sensor.run = call[t]
    BY <1>2, <2>1 DEF SetBefore, GetStands
  <2>3. call[t].a \in Settings /\ call[t].op = "get"
    BY DEF Kept, Typed, Calls, Checking
  <2>4. sensor'[call[t].a] = sensor[call[t].a] /\ sensor'.data = sensor'[call[t].a]
    BY <1>2, <2>2, <2>3 DEF Sets
  <2>5. SetBefore(t) => SetBefore(t)'
    BY <1>1, <1>2, <2>4 DEF SetBefore
  <2>6. GetStands(t) => GetStands(t)'
    BY <1>1, <1>2, <2>4 DEF GetStands
  <2> QED BY <2>1, <2>5, <2>6
<1> QED BY <1>3, <1>4, <1>5, <1>6, <1>7, <1>8, <1>9, <1>10, <1>11 DEF Kept

\* The sensor fails it.
LEMMA SensorLosesKept == ASSUME Kept, SensorLoses PROVE Kept'
<1>1. /\ UNCHANGED <<mutex, lastErr, pc, call, prog, ans, parked, lepSt, touched, ownErr>>
      /\ troubles' = troubles + 1 /\ sensor' = [sensor EXCEPT !.run = NoCall]
      /\ Busy
  BY DEF SensorLoses, site, Busy
<1>2. clean' <=> clean /\ sensor.run.a # "shutter"
  BY Zenon DEF SensorLoses
<1>3. apart' = FALSE /\ clean' \in BOOLEAN
  BY Zenon DEF SensorLoses
<1>4. NoCall \in Calls /\ NoCall.op = "none"
  BY DEF NoCall, Calls, Ops, Settings
<1>5. /\ sensor' \in [run : Calls, data : 0 .. 2, agc : 0 .. 1, flux : 0 .. 1, shutter : {0, 2}]
      /\ ~Busy' /\ ~Sets' /\ \A a \in Settings : sensor'[a] = sensor[a]
  BY <1>1, <1>4 DEF Kept, Typed, Busy, Sets, Settings
<1>6. troubles \in Nat /\ troubles' \in Nat /\ troubles' # 0
  BY <1>1 DEF Kept, Typed
<1>7. Typed'
  BY <1>1, <1>3, <1>5, <1>6 DEF Kept, Typed
<1>8. Senses' /\ Locked' /\ Untouched' /\ Unanswered' /\ Status'
  BY <1>1 DEF Kept, Senses, Sense, Configures, Shuttering, Locked, Inside, Untouched,
     Unread,
     Unanswered, Status
<1>9. Source'
  BY <1>5 DEF Source
<1>10. SetsStand'
  <2> SUFFICES ASSUME NEW t \in Tasks, Undisturbed(t)', call[t].op = "set" PROVE SetStands(t)'
    BY <1>1 DEF SetsStand
  <2>1. Shuttering(t) /\ clean /\ sensor.run.a # "shutter"
    BY <1>1, <1>2, <1>3, <1>6 DEF Undisturbed, Shuttering
  <2>2. SetStands(t) /\ Sense(t)
    BY <2>1 DEF Kept, SetsStand, Undisturbed, Senses
  <2>3. call[t].a = "shutter"
    BY <2>1, <2>2 DEF Sense, Set, Run
  <2> QED BY <1>1, <1>5, <2>1, <2>2, <2>3 DEF SetStands, Settings
<1>11. OneSpoils'
  <2> SUFFICES ASSUME troubles' <= 1, NEW t \in Tasks, Checking(t)
               PROVE  SetBefore(t)' \/ GetStands(t)'
    BY <1>1 DEF OneSpoils, Checking, Configures
  <2>1. troubles = 0 /\ Configures(t) /\ call[t].op = "get" /\ call[t].a \in Settings
    BY <1>1, <1>6 DEF Checking, Kept, Typed, Calls
  <2>2. mutex = t \/ (pc[t] \in {"read", "ret"} /\ ~touched[t])
    BY DEF Kept, Locked, Inside, Checking
  <2>3. SetBefore(t)
    BY <2>1, <2>2, NoTroubleYet
  <2> QED BY <1>1, <1>5, <2>1, <2>3 DEF SetBefore
<1>12. Alone' /\ InitKnows' /\ ConfigKnows' /\ ParkAgrees' /\ ConfigAgrees'
  BY <1>1, <1>2, <1>3, <1>5, <1>6, SettingsStay
<1> QED BY <1>7, <1>8, <1>9, <1>10, <1>11, <1>12 DEF Kept

-----------------------------------------------------------------------------
\* Every step of every task and of the sensor keeps the invariant.
LEMMA StepKept == ASSUME Kept, [Next]_vars PROVE Kept'
<1>1. ASSUME NEW t \in Tasks, Access(t) PROVE Kept'
  BY <1>1, TakeKept, WaitKept, WriteDataKept, WriteCommandKept, CheckKept, ReadKept,
     GiveKept
     DEF Access
<1>2. ASSUME NEW t \in Tasks, Routine(t) PROVE Kept'
  BY <1>2, ReadBackKept, ShutterMovedKept, FfcDoneKept, ConfigVerifyKept, RawAnswerKept,
     InitNextKept DEF Routine
<1>3. CASE SensorRuns \/ SensorLoses
  BY <1>3, SensorRunsKept, SensorLosesKept
<1>4. ASSUME NEW a \in {"agc", "flux"}, Config(a) PROVE Kept'
  BY <1>4, ConfigKept
<1>5. ASSUME NEW c \in RawCalls, Raw(c) PROVE Kept'
  BY <1>5, RawKept
<1>6. ASSUME NEW do \in {"park", "unpark"}, SetShutter(do) PROVE Kept'
  BY <1>6, SetShutterKept
<1>7. CASE RunFfc \/ Viewer \/ RspNewViewer \/ RspIdle \/ RspPark \/ Reset
  BY <1>7, RunFfcKept, ViewerKept, RspNewViewerKept, RspParkKept, ResetKept
<1>8. CASE UNCHANGED vars
  <2>1. UNCHANGED <<mutex, sensor, lastErr, troubles, pc, call, prog, ans, parked,
                    lepSt, touched, ownErr, clean, apart>>
    BY <1>8 DEF vars
  <2> QED BY <2>1, ElsewhereKept
<1> QED BY <1>1, <1>2, <1>3, <1>4, <1>5, <1>6, <1>7, <1>8 DEF Next

\* Whatever the tasks, the sensor and the failures do, the invariant stands.
THEOREM Invariance == Spec => []Kept
<1>1. Kept /\ [Next]_vars => Kept'
  BY StepKept
<1> QED BY <1>1, InitKept, PTL DEF Spec

\* cci_mutex excludes, although every access of a call is a step of its own: two tasks
\* are never both between its take and its give, in any routine and through any reset.
\* Nor does a path of a routine leave it behind: whoever holds it has its give ahead.
THEOREM OneInside ==
  Spec => [](/\ \A t, u \in Tasks : Inside(t) /\ Inside(u) => t = u
             /\ mutex # None => \E t \in Tasks : mutex = t /\ Inside(t))
<1>1. Kept => /\ \A t, u \in Tasks : Inside(t) /\ Inside(u) => t = u
              /\ mutex # None => \E t \in Tasks : mutex = t /\ Inside(t)
  BY DEF Kept, Locked, Typed
<1> QED BY <1>1, Invariance, PTL

\* The shutter is where shutter_parked says, whatever the other tasks do meanwhile.
THEOREM ParkedAgrees == Spec => []ParkAgrees
<1>1. Kept => ParkAgrees
  BY DEF Kept
<1> QED BY <1>1, Invariance, PTL

\* The sensor's configuration is the one in lep_st, through any reset.
THEOREM ReportedConfig == Spec => []ConfigAgrees
<1>1. Kept => ConfigAgrees
  BY DEF Kept
<1> QED BY <1>1, Invariance, PTL

\* The status a raw access reports is its own.
THEOREM OwnStatus == Spec => []StatusIsOwn
<1>1. Kept => StatusIsOwn
  BY DEF Kept, Status, StatusIsOwn
<1> QED BY <1>1, Invariance, PTL

\* One failure never lets the check of a write succeed that did not stick.
THEOREM CheckedWrites == Spec => []VerifiedSticks
<1>1. ASSUME Kept PROVE VerifiedSticks
  <2> SUFFICES ASSUME NEW t \in Tasks, prog[t].do # "none", call[t].op = "get",
                      pc[t] \in {"give", "ret"}, ans[t] = prog[t].want, troubles <= 1,
                      ~touched[t]
               PROVE  sensor[call[t].a] = prog[t].want
    BY DEF VerifiedSticks
  <2>1. Sense(t) /\ prog[t] \in Progs
    BY <1>1 DEF Kept, Senses, Typed
  <2>2. Configures(t)
    BY <2>1 DEF Sense, Configures, Shuttering, Progs, RawCalls, Set, Run
  <2>3. SetBefore(t) \/ GetStands(t)
    BY <1>1, <2>2 DEF Kept, OneSpoils, Checking
  <2> QED BY <2>3 DEF SetBefore, GetStands
<1> QED BY <1>1, Invariance, PTL
=============================================================================
