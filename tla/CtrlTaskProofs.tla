-------------------------- MODULE CtrlTaskProofs --------------------------
(***************************************************************************)
(* Proofs about CtrlTask, for all codes of faults and all durations.       *)
(*                                                                         *)
(* A reset is owed to a press while the button is held and while it is     *)
(* announced (Owed); a fault whose notification was handled is counted     *)
(* from its code, and what could take its state away was remembered.       *)
(***************************************************************************)
EXTENDS CtrlTask, TLAPS

USE FaultsAssumption, TicksAssumption, BudgetsAssumption
    DEF FaultsAssumption, TicksAssumption, BudgetsAssumption

\* The types of what TypeOK does not name.
Typed ==
  /\ TypeOK
  /\ asked \in Int /\ left \in [faults : Nat, updates : Nat, moves : Nat]
  /\ struck \in BOOLEAN /\ failed \in BOOLEAN /\ covered \in BOOLEAN

\* An announced reset has its time, and the state is set before it happens.
Announced == (state = "alert" => alert >= 1) /\ (pc = "reinit" => state = "action")

\* The resets that presses still have to their credit.
ByButton == IF (button.down /\ button.timer # 0) \/ (~button.down /\ button.pin) THEN 1 ELSE 0
ByState == IF state = "alert" \/ pc = "reinit" THEN 1 ELSE 0
Owed == ~struck => pre \notin {"alert", "action"} /\ asked >= ByButton + ByState

\* A notification is on its way.
Pending(b) == b \in note \/ b \in bits \/ sets["lep"] = b \/ sets["rsp"] = b

Coded ==
  ~failed /\ ~Pending("fault") /\ state = "fault" /\ fault # 0 =>
    led \in FaultLeds /\ count \in 0..fault /\ (led # "flt_idle" => count >= 1)

\* Before the start-up was handled nothing is, and what is taken is handled.
Early ==
  /\ "startup" \in note => pc = "wait" /\ bits = {} /\ state = "startup"
  /\ "startup" \in bits => state = "startup"
  /\ pc \in {"wait", "led", "sm"} \/ (pc = "reinit" /\ back = "wait") => bits = {}

\* No clearing escapes notice, and a fault that was notified has its state.
Noticed ==
  /\ ~covered => ~Pending("clear")
  /\ ~covered /\ fault # 0 /\ ~Pending("fault") => state \in {"fault", "alert", "action"}

Invariance == Typed /\ Announced /\ Owed /\ Coded /\ Early /\ Noticed

\* Notifications are handled in their order, the start-up first.
LEMMA FirstIsTaken ==
  ASSUME NEW b \in SUBSET Bits, b # {}
  PROVE  FirstOf(b) \in b /\ ("startup" \in b => FirstOf(b) = "startup")
<1> DEFINE Is(i) == Order[i] \in b /\ \A j \in 1..(i - 1) : Order[j] \notin b
<1>1. \E i \in 1..7 : Is(i)
  <2>1. PICK k \in 1..7 : Order[k] \in b
    BY DEF Bits
  <2>2. CASE Order[1] \in b
    BY <2>2
  <2>3. CASE Order[1] \notin b /\ Order[2] \in b
    BY <2>3
  <2>4. CASE Order[1] \notin b /\ Order[2] \notin b /\ Order[3] \in b
    BY <2>4
  <2>5. CASE Order[1] \notin b /\ Order[2] \notin b /\ Order[3] \notin b /\ Order[4] \in b
    BY <2>5
  <2>6. CASE Order[1] \notin b /\ Order[2] \notin b /\ Order[3] \notin b /\ Order[4] \notin b
             /\ Order[5] \in b
    BY <2>6
  <2>7. CASE Order[1] \notin b /\ Order[2] \notin b /\ Order[3] \notin b /\ Order[4] \notin b
             /\ Order[5] \notin b /\ Order[6] \in b
    BY <2>7
  <2>8. CASE Order[1] \notin b /\ Order[2] \notin b /\ Order[3] \notin b /\ Order[4] \notin b
             /\ Order[5] \notin b /\ Order[6] \notin b
    BY <2>1, <2>8
  <2> QED BY <2>2, <2>3, <2>4, <2>5, <2>6, <2>7, <2>8
<1>2. PICK i \in 1..7 : Is(i) /\ FirstOf(b) = Order[i]
  BY <1>1, Zenon DEF FirstOf
<1>3. "startup" \in b => i = 1
  BY <1>2 DEF Order
<1> QED BY <1>2, <1>3 DEF Order

\* It holds at the start.
LEMMA InitInvariance == ASSUME Init PROVE Invariance
<1> USE DEF Init
<1>1. Typed
  <2>1. sif \in BOOLEAN /\ struck \in BOOLEAN /\ failed \in BOOLEAN /\ covered \in BOOLEAN
    BY Zenon
  <2>2. button \in [pin : BOOLEAN, prev : BOOLEAN, down : BOOLEAN, timer : 0..PressTicks]
    OBVIOUS
  <2>3. /\ note \subseteq Bits /\ state \in States /\ pre \in States /\ led \in Leds
        /\ count \in -1..(FwFault + LepFault) /\ alert \in 0..AlertTicks
        /\ sets \in [{"lep", "rsp"} -> {"none", "fault", "clear"}]
    BY DEF Bits, Order, States, Leds
  <2>4. asked \in Int /\ left \in [faults : Nat, updates : Nat, moves : Nat]
    OBVIOUS
  <2> QED BY <2>1, <2>2, <2>3, <2>4, Zenon DEF Typed, TypeOK
<1>2. Announced /\ Owed /\ Coded /\ Early /\ Noticed
  BY DEF Announced, Owed, ByButton, ByState, Coded, Early, Noticed, Pending
<1> QED BY <1>1, <1>2 DEF Invariance

TaskNames == {"lep", "rsp"}

\* What the tasks keep for rsp_task and for the bounds has its type.
Apart == upd' \in {"idle", "req", "proc"} /\ told' \subseteq {"en", "end"}
         /\ left' \in [faults : Nat, updates : Nat, moves : Nat]

\* The first step of ctrl_set_fault_type, by either task.
LEMMA KeptBySetFault ==
  ASSUME Invariance, Apart, NEW t \in TaskNames, NEW f \in {FwFault, LepFault}, SetFault(t, f)
  PROVE  Invariance'
<1> USE DEF Invariance
<1>a. /\ ~struck' => ~struck /\ state \notin {"alert", "action"}
      /\ struck' \in BOOLEAN /\ failed' \in BOOLEAN /\ covered' \in BOOLEAN
  <2>1. ~struck' => ~struck /\ state \notin {"alert", "action"}
    BY Zenon DEF SetFault
  <2>2. struck' \in BOOLEAN
    BY Zenon DEF SetFault
  <2>3. covered' \in BOOLEAN
    <3> DEFINE p == "clear" \in note \cup bits \cup {sets["lep"], sets["rsp"]}
    <3>1. covered' = p
      BY Zenon DEF SetFault
    <3>2. p \in BOOLEAN
      OBVIOUS
    <3> HIDE DEF p
    <3> QED BY <3>1, <3>2, Zenon
  <2> QED BY <2>1, <2>2, <2>3, Zenon DEF SetFault, others, Typed
<1>b. ~covered' => "clear" \notin note \cup bits \cup {sets["lep"], sets["rsp"]}
  BY Zenon DEF SetFault
<1>c. /\ pre' \in {state, pre} /\ fault' = f /\ sets' = [sets EXCEPT ![t] = "fault"]
      /\ note' = note
      /\ sif' = sif /\ pc' = pc /\ back' = back /\ bits' = bits /\ state' = state
      /\ led' = led /\ count' = count
      /\ alert' = alert /\ button' = button /\ asked' = asked /\ failed' = failed
  BY DEF SetFault, others, loop, shown
<1>1. Typed'
  BY <1>a, <1>b, <1>c DEF TaskNames, Apart, Typed, TypeOK
<1>2. Announced'
  BY <1>a, <1>b, <1>c DEF TaskNames, Apart, Announced, Typed, TypeOK
<1>3. Owed'
  BY <1>a, <1>b, <1>c DEF TaskNames, Apart, Owed, ByButton, ByState, Announced, Typed,
     TypeOK
<1>4. Coded'
  BY <1>a, <1>b, <1>c DEF TaskNames, Apart, Coded, Pending, Early, Typed, TypeOK
<1>5. Early'
  BY <1>a, <1>b, <1>c DEF TaskNames, Apart, Early, Pending, Announced, Typed, TypeOK
<1>6. Noticed'
  BY <1>a, <1>b, <1>c DEF TaskNames, Apart, Noticed, Pending, Early, Typed, TypeOK
<1> QED BY <1>1, <1>2, <1>3, <1>4, <1>5, <1>6, Zenon DEF Invariance

\* The first step of ctrl_clear_fault_type.
LEMMA KeptByClearFault ==
  ASSUME Invariance, Apart, NEW t \in TaskNames, ClearFault(t)
  PROVE  Invariance'
<1> USE DEF Invariance
<1>a. /\ struck' = struck /\ struck' \in BOOLEAN /\ failed' \in BOOLEAN /\ covered' = TRUE
  BY Zenon DEF ClearFault, others, Typed
<1>c. /\ pre' = pre /\ fault' = 0 /\ sets' = [sets EXCEPT ![t] = "clear"] /\ note' = note
      /\ sif' = sif /\ pc' = pc /\ back' = back /\ bits' = bits /\ state' = state
      /\ led' = led /\ count' = count
      /\ alert' = alert /\ button' = button /\ asked' = asked
  BY DEF ClearFault, others, loop, shown
<1>1. Typed'
  BY <1>a, <1>c DEF TaskNames, Apart, Typed, TypeOK
<1>2. Announced'
  BY <1>a, <1>c DEF TaskNames, Apart, Announced, Typed, TypeOK
<1>3. Owed'
  BY <1>a, <1>c DEF TaskNames, Apart, Owed, ByButton, ByState, Announced, Typed, TypeOK
<1>4. Coded'
  BY <1>a, <1>c DEF TaskNames, Apart, Coded, Pending, Early, Typed, TypeOK
<1>5. Early'
  BY <1>a, <1>c DEF TaskNames, Apart, Early, Pending, Announced, Typed, TypeOK
<1>6. Noticed'
  BY <1>a, <1>c DEF TaskNames, Apart, Noticed, Pending, Early, Typed, TypeOK
<1> QED BY <1>1, <1>2, <1>3, <1>4, <1>5, <1>6, Zenon DEF Invariance

\* Their second step.
LEMMA KeptByNotify ==
  ASSUME Invariance, NEW t \in TaskNames, Notify(t)
  PROVE  Invariance'
<1> USE DEF Invariance
<1>a. /\ struck' = struck /\ failed' = failed /\ covered' = covered
  BY Zenon DEF Notify, others
<1>c. /\ pre' = pre /\ fault' = fault /\ sets' = [sets EXCEPT ![t] = "none"]
      /\ note' = note \cup {sets[t]}
      /\ sif' = sif /\ pc' = pc /\ back' = back /\ bits' = bits /\ state' = state
      /\ led' = led /\ count' = count
      /\ alert' = alert /\ button' = button /\ asked' = asked /\ sets[t] # "none"
      /\ left' = left
      /\ upd' = upd /\ told' = told
  BY DEF Notify, others, loop, shown, rspv
<1>d. sets[t] \in {"fault", "clear"} /\ {"fault", "clear"} \subseteq Bits
  BY <1>c DEF Bits, Order, Typed, TypeOK, TaskNames
<1>1. Typed'
  BY <1>a, <1>c, <1>d DEF TaskNames, Typed, TypeOK
<1>2. Announced'
  BY <1>a, <1>c, <1>d DEF TaskNames, Announced, Typed, TypeOK
<1>3. Owed'
  BY <1>a, <1>c, <1>d DEF TaskNames, Owed, ByButton, ByState, Announced, Typed, TypeOK
<1>4. Coded'
  BY <1>a, <1>c, <1>d DEF TaskNames, Coded, Pending, Early, Typed, TypeOK
<1>5. Early'
  BY <1>a, <1>c, <1>d DEF TaskNames, Early, Pending, Announced, Typed, TypeOK
<1>6. Noticed'
  BY <1>a, <1>c, <1>d DEF TaskNames, Noticed, Pending, Early, Typed, TypeOK
<1> QED BY <1>1, <1>2, <1>3, <1>4, <1>5, <1>6, Zenon DEF Invariance

\* A report of rsp_task about an update.
LEMMA KeptByReport ==
  ASSUME Invariance, Apart, NEW b \in SUBSET {"req", "process", "done", "reboot"},
         RspReport(b), covered' = covered
  PROVE  Invariance'
<1> USE DEF Invariance
<1>a. /\ struck' = struck /\ failed' = failed /\ covered' = covered
  BY Zenon DEF RspReport, others
<1>c. /\ pre' = pre /\ fault' = fault /\ sets' = sets /\ note' = note \cup b
      /\ sif' = sif /\ pc' = pc /\ back' = back /\ bits' = bits /\ state' = state
      /\ led' = led /\ count' = count
      /\ alert' = alert /\ button' = button /\ asked' = asked
  BY DEF RspReport, others, loop, shown
<1>d. {"req", "process", "done", "reboot"} \subseteq Bits
  BY DEF Bits, Order
<1>1. Typed'
  <2>1. note' \subseteq Bits /\ Typed
    BY <1>c, <1>d DEF Typed, TypeOK
  <2>2. TypeOK'
    BY ONLY <1>c, <2>1, Apart DEF Apart, Typed, TypeOK
  <2>3. asked' \in Int /\ left' \in [faults : Nat, updates : Nat, moves : Nat]
    BY ONLY <1>c, <2>1, Apart DEF Apart, Typed
  <2>4. struck' \in BOOLEAN /\ failed' \in BOOLEAN /\ covered' \in BOOLEAN
    BY ONLY <1>a, <2>1, Zenon DEF Typed
  <2> QED BY <2>2, <2>3, <2>4 DEF Typed
<1>2. Announced'
  BY <1>a, <1>c, <1>d DEF Apart, Announced, Typed, TypeOK
<1>3. Owed'
  BY <1>a, <1>c, <1>d DEF Apart, Owed, ByButton, ByState, Announced, Typed, TypeOK
<1>4. Coded'
  BY <1>a, <1>c, <1>d DEF Apart, Coded, Pending, Early, Typed, TypeOK
<1>5. Early'
  BY <1>a, <1>c, <1>d DEF Apart, Early, Pending, Announced, Typed, TypeOK
<1>6. Noticed'
  BY <1>a, <1>c, <1>d DEF Apart, Noticed, Pending, Early, Typed, TypeOK
<1> QED BY <1>1, <1>2, <1>3, <1>4, <1>5, <1>6, Zenon DEF Invariance

\* Nothing that the invariant speaks of changes.
LEMMA KeptByNothing ==
  ASSUME Invariance, Apart,
         UNCHANGED <<sif, loop, state, pre, shown, alert, button, fault, note, sets,
                     asked, struck, failed, covered>>
  PROVE  Invariance'
BY DEF Invariance, Typed, TypeOK, Announced, Owed, ByButton, ByState, Coded, Early,
   Noticed,
       Pending, Apart, loop, shown

-----------------------------------------------------------------------------
(* The loop.                                                               *)

\* A press adds a credit when it begins.
LEMMA KeptByPress ==
  ASSUME Invariance, Press
  PROVE  Invariance'
<1> USE DEF Invariance
<1>a. struck' = struck /\ failed' = failed /\ covered' = covered
  BY Zenon DEF Press
<1>b. /\ left' \in [faults : Nat, updates : Nat, moves : Nat] /\ upd' = upd /\ told' = told
  BY DEF Press, Spend, rspv, Typed
<1>c. /\ button' = [button EXCEPT !.pin = ~@] /\ asked' = asked + (IF button.pin THEN 0 ELSE 1)
      /\ pre' = pre /\ fault' = fault /\ sets' = sets /\ note' = note
      /\ sif' = sif /\ pc' = pc /\ back' = back /\ bits' = bits /\ state' = state
      /\ led' = led /\ count' = count
      /\ alert' = alert
  BY DEF Press, loop, shown
<1>d. button.pin \in BOOLEAN /\ button.down \in BOOLEAN /\ button.prev \in BOOLEAN
      /\ button' = [pin |-> ~button.pin, prev |-> button.prev, down |-> button.down, timer |-> button.timer]
  BY <1>c DEF Typed, TypeOK
<1>e. button' \in [pin : BOOLEAN, prev : BOOLEAN, down : BOOLEAN, timer : 0..PressTicks]
  BY <1>d DEF Typed, TypeOK
<1>1. Typed'
  BY <1>a, <1>b, <1>c, <1>d, <1>e DEF Invariance, Typed, TypeOK
<1>2. Announced'
  BY <1>a, <1>b, <1>c, <1>d, <1>e DEF Invariance, Announced, Typed, TypeOK
<1>3. Owed'
  BY <1>a, <1>b, <1>c, <1>d, <1>e DEF Invariance, Owed, ByButton, ByState, Announced,
     Typed, TypeOK
<1>4. Coded'
  BY <1>a, <1>b, <1>c, <1>d, <1>e DEF Invariance, Coded, Pending, Early, Typed, TypeOK
<1>5. Early'
  BY <1>a, <1>b, <1>c, <1>d, <1>e DEF Invariance, Early, Pending, Announced, Typed,
     TypeOK
<1>6. Noticed'
  BY <1>a, <1>b, <1>c, <1>d, <1>e DEF Invariance, Noticed, Pending, Early, Typed, TypeOK
<1> QED BY <1>1, <1>2, <1>3, <1>4, <1>5, <1>6, Zenon DEF Invariance

\* Taking the notifications loses none.
LEMMA KeptByTake ==
  ASSUME Invariance, Take
  PROVE  Invariance'
<1> USE DEF Invariance
<1>a. struck' = struck /\ failed' = failed /\ covered' = covered
  BY Zenon DEF Take
<1>c. /\ pc = "wait" /\ pc' = "bits" /\ bits' = note /\ note' = {}
      /\ sif' = sif /\ back' = back /\ state' = state /\ pre' = pre /\ led' = led
      /\ count' = count
      /\ alert' = alert /\ button' = button /\ fault' = fault /\ sets' = sets /\ upd' = upd
      /\ told' = told
      /\ left' = left /\ asked' = asked
  BY DEF Take, world, shown
<1>1. Typed'
  BY <1>a, <1>c DEF Invariance, Typed, TypeOK
<1>2. Announced'
  BY <1>a, <1>c DEF Invariance, Announced, Typed, TypeOK
<1>3. Owed'
  BY <1>a, <1>c DEF Invariance, Owed, ByButton, ByState, Announced, Typed, TypeOK
<1>4. Coded'
  BY <1>a, <1>c DEF Invariance, Coded, Pending, Early, Typed, TypeOK
<1>5. Early'
  BY <1>a, <1>c DEF Invariance, Early, Pending, Announced, Typed, TypeOK
<1>6. Noticed'
  BY <1>a, <1>c DEF Invariance, Noticed, Pending, Early, Typed, TypeOK
<1> QED BY <1>1, <1>2, <1>3, <1>4, <1>5, <1>6, Zenon DEF Invariance

\* Nor does the end of their handling.
LEMMA KeptByNoBits ==
  ASSUME Invariance, NoBits
  PROVE  Invariance'
<1> USE DEF Invariance
<1>a. struck' = struck /\ failed' = failed /\ covered' = covered
  BY Zenon DEF NoBits
<1>c. /\ pc = "bits" /\ bits = {} /\ pc' = "led" /\ bits' = bits /\ note' = note
      /\ sif' = sif /\ back' = back /\ state' = state /\ pre' = pre /\ led' = led
      /\ count' = count
      /\ alert' = alert /\ button' = button /\ fault' = fault /\ sets' = sets /\ upd' = upd
      /\ told' = told
      /\ left' = left /\ asked' = asked
  BY DEF NoBits, world, shown
<1>1. Typed'
  BY <1>a, <1>c DEF Invariance, Typed, TypeOK
<1>2. Announced'
  BY <1>a, <1>c DEF Invariance, Announced, Typed, TypeOK
<1>3. Owed'
  BY <1>a, <1>c DEF Invariance, Owed, ByButton, ByState, Announced, Typed, TypeOK
<1>4. Coded'
  BY <1>a, <1>c DEF Invariance, Coded, Pending, Early, Typed, TypeOK
<1>5. Early'
  BY <1>a, <1>c DEF Invariance, Early, Pending, Announced, Typed, TypeOK
<1>6. Noticed'
  BY <1>a, <1>c DEF Invariance, Noticed, Pending, Early, Typed, TypeOK
<1> QED BY <1>1, <1>2, <1>3, <1>4, <1>5, <1>6, Zenon DEF Invariance

\* The LED of a fault counts down from the code and starts again.
LEMMA KeptByEvalLed ==
  ASSUME Invariance, EvalLed
  PROVE  Invariance'
<1> USE DEF Invariance
<1>a. struck' = struck /\ failed' = failed /\ covered' = covered
  BY Zenon DEF EvalLed
<1>b. \/ led' = led /\ count' = count
      \/ led \notin FaultLeds /\ led' \in Leds /\ count' = count
      \/ led = "flt_on" /\ led' = "flt_off" /\ count' = count
      \/ /\ led = "flt_off" /\ count' = (IF count <= 0 THEN -1 ELSE count - 1)
         /\ led' = IF count = 1 THEN "flt_idle" ELSE "flt_on"
      \/ led = "flt_idle" /\ led' = "flt_on" /\ count' = fault
  <2>1. CASE Alternate /\ UNCHANGED count
    <3>1. PICK i \in 1..4, j \in 1..2 : led = Phases[i][j] /\ led' = Phases[i][3 - j]
      BY <2>1, Zenon DEF Alternate
    <3>2. led' \in {Phases[m][n] : m \in 1..4, n \in 1..2}
      BY <3>1
    <3>3. led \notin FaultLeds
      BY <3>1 DEF Phases, FaultLeds
    <3> QED BY <2>1, <3>2, <3>3 DEF Leds
  <2> QED BY <2>1 DEF EvalLed, shown
<1>c. /\ pc = "led" /\ pc' = "sm" /\ bits' = bits /\ note' = note
      /\ sif' = sif /\ back' = back /\ state' = state /\ pre' = pre
      /\ alert' = alert /\ button' = button /\ fault' = fault /\ sets' = sets /\ upd' = upd
      /\ told' = told
      /\ left' = left /\ asked' = asked
  BY DEF EvalLed, world
<1>d. {"flt_on", "flt_off", "flt_idle"} \subseteq Leds
  BY DEF Leds, FaultLeds
<1>1. Typed'
  BY <1>a, <1>b, <1>c, <1>d DEF FaultLeds, Typed, TypeOK
<1>2. Announced'
  BY <1>a, <1>b, <1>c, <1>d DEF FaultLeds, Announced, Typed, TypeOK
<1>3. Owed'
  BY <1>a, <1>b, <1>c, <1>d DEF FaultLeds, Owed, ByButton, ByState, Announced, Typed,
     TypeOK
<1>4. Coded'
  BY <1>a, <1>b, <1>c, <1>d DEF FaultLeds, Coded, Pending, Early, Typed, TypeOK
<1>5. Early'
  BY <1>a, <1>b, <1>c, <1>d DEF FaultLeds, Early, Pending, Announced, Typed, TypeOK
<1>6. Noticed'
  BY <1>a, <1>b, <1>c, <1>d DEF FaultLeds, Noticed, Pending, Early, Typed, TypeOK
<1> QED BY <1>1, <1>2, <1>3, <1>4, <1>5, <1>6, Zenon DEF Invariance

\* The reset itself spends the credit.
LEMMA KeptByReinit ==
  ASSUME Invariance, Reinit
  PROVE  Invariance'
<1> USE DEF Invariance
<1>a. struck' = struck /\ covered' = covered /\ failed' \in BOOLEAN
  BY Zenon DEF Reinit, Typed
<1>b. \/ state' = state /\ led' = led /\ failed' = failed
      \/ state' = "fault" /\ led' = "flt_on" /\ failed' = TRUE
  BY Zenon DEF Reinit
<1>c. /\ pc = "reinit" /\ pc' = back /\ bits' = bits /\ note' = note /\ asked' = asked - 1
      /\ sif' = sif /\ back' = back /\ pre' = pre /\ count' = count
      /\ alert' = alert /\ button' = button /\ fault' = fault /\ sets' = sets /\ upd' = upd
      /\ told' = told
      /\ left' = left
  BY DEF Reinit, world
<1>d. "flt_on" \in Leds /\ "fault" \in States
  BY DEF Leds, FaultLeds, States
<1>1. Typed'
  BY <1>a, <1>b, <1>c, <1>d DEF FaultLeds, Typed, TypeOK
<1>2. Announced'
  BY <1>a, <1>b, <1>c, <1>d DEF FaultLeds, Announced, Typed, TypeOK
<1>3. Owed'
  BY <1>a, <1>b, <1>c, <1>d DEF FaultLeds, Owed, ByButton, ByState, Announced, Typed,
     TypeOK
<1>4. Coded'
  BY <1>a, <1>b, <1>c, <1>d DEF FaultLeds, Coded, Pending, Early, Typed, TypeOK
<1>5. Early'
  BY <1>a, <1>b, <1>c, <1>d DEF FaultLeds, Early, Pending, Announced, Typed, TypeOK
<1>6. Noticed'
  BY <1>a, <1>b, <1>c, <1>d DEF FaultLeds, Noticed, Pending, Early, Typed, TypeOK
<1> QED BY <1>1, <1>2, <1>3, <1>4, <1>5, <1>6, Zenon DEF Invariance

\* ctrl_set_state leaves the LED and the counter of a fault that is shown.
LEMMA StateSet ==
  ASSUME Typed, NEW s \in States, SetState(s)
  PROVE  /\ state' = s /\ led' \in Leds /\ count' \in -1..(FwFault + LepFault)
         /\ alert' \in 0..AlertTicks /\ (s = "alert" => alert' >= 1) /\ (s # "alert" => alert' = alert)
         /\ s = "fault" /\ fault # 0 => led' = "flt_on" /\ count' = fault
<1>1. state' = s /\ alert' = IF s = "alert" THEN AlertTicks ELSE alert
  BY Zenon DEF SetState
<1>2. count' = IF s = "fault" /\ fault # 0 THEN fault ELSE count
  BY Zenon DEF SetState
<1>3. led' = IF s = "fault" /\ fault # 0 THEN "flt_on" ELSE LedOf(s)
  BY Zenon DEF SetState
<1>4. {"solid", "blink_on", "rst_on", "req_r", "upd_on", "flt_on"} \subseteq Leds
  <2>1. \A i \in 1..4 : Phases[i][1] \in Leds
    BY DEF Leds
  <2>2. "solid" \in Leds /\ "flt_on" \in Leds
    BY DEF Leds, FaultLeds
  <2>3. Phases[1][1] = "blink_on" /\ Phases[2][1] = "rst_on" /\ Phases[3][1] = "req_r" /\ Phases[4][1] = "upd_on"
    BY DEF Phases
  <2> QED BY <2>1, <2>2, <2>3
<1>5. LedOf(s) \in Leds
  BY <1>4 DEF LedOf, Typed, TypeOK
<1>6. led' \in Leds
  BY <1>3, <1>4, <1>5
<1>7. count' \in -1..(FwFault + LepFault)
  BY <1>2 DEF Typed, TypeOK
<1> QED BY <1>1, <1>2, <1>3, <1>6, <1>7 DEF Typed, TypeOK

\* A long press turns the credit of the button into one of the state.
LEMMA KeptByEvalSm ==
  ASSUME Invariance, EvalSm
  PROVE  Invariance'
<1> USE DEF Invariance
<1>a. struck' = struck /\ failed' = failed /\ covered' = covered
  BY Zenon DEF EvalSm
<1>c. /\ pc = "sm" /\ bits' = bits /\ note' = note /\ asked' = asked
      /\ sif' = sif /\ pre' = pre /\ fault' = fault /\ sets' = sets /\ upd' = upd
      /\ left' = left
  BY DEF EvalSm, world
<1>d. told' \subseteq {"en", "end"}
  BY DEF EvalSm, Typed, TypeOK
<1>e. /\ button.pin \in BOOLEAN /\ button.prev \in BOOLEAN /\ button.down \in BOOLEAN
      /\ button.timer \in 0..PressTicks
  BY DEF Typed, TypeOK
<1>f. button' \in [pin : BOOLEAN, prev : BOOLEAN, down : BOOLEAN, timer : 0..PressTicks]
  <2>1. Down \in BOOLEAN
    BY <1>e, Zenon DEF Down, Pressed, Released
  <2>2. Timer \in 0..PressTicks
    BY <1>e DEF Timer
  <2> QED BY <1>e, <2>1, <2>2 DEF EvalSm, Debounced
<1>g. ByButton' <= ByButton /\ (Long => ByButton = 1 /\ ByButton' = 0)
  <2>1. button' = Debounced
    BY Zenon DEF EvalSm
  <2> QED BY <1>e, <2>1 DEF ByButton, Debounced, Down, Timer, Pressed, Released, Long
<1>h. \/ Long /\ SetState("alert") /\ pc' = "wait" /\ back' = back
         /\ state \in {"no_net", "net", "client", "fault"}
      \/ \E s \in Successors : s # state /\ SetState(s) /\ GoOn(s, "wait")
      \/ /\ state \in Successors /\ state' = state /\ led' = led /\ count' = count /\ back' = back /\ pc' = "wait"
         /\ alert' = IF state = "alert" THEN alert - 1 ELSE alert
  BY DEF EvalSm, Resets, shown
<1>i. /\ Successors \subseteq States
      /\ state = "alert" => Successors = {IF alert = 1 THEN "action" ELSE "alert"}
      /\ \A s \in Successors : /\ s # state => s # "alert"
                               /\ s = "action" /\ s # state => state = "alert"
                               /\ state = "fault" => s = "fault"
                               /\ state = "startup" => s = "startup"
                               /\ state = "action" /\ fault # 0 => s \in {"action", "fault"}
  BY DEF Successors, States, Typed, TypeOK
<1>1. CASE Long /\ SetState("alert") /\ pc' = "wait" /\ back' = back
           /\ state \in {"no_net", "net", "client", "fault"}
  <2> "alert" \in States
    BY DEF States
  <2>a. /\ state' = "alert" /\ led' \in Leds /\ count' \in -1..(FwFault + LepFault)
        /\ alert' \in 0..AlertTicks /\ alert' >= 1
    BY <1>1, StateSet
  <2>1. Typed'
    BY <1>1, <2>a, <1>a, <1>c, <1>d, <1>f, <1>g DEF Invariance, Typed, TypeOK
  <2>2. Announced'
    BY <1>1, <2>a, <1>a, <1>c, <1>d, <1>f, <1>g DEF Invariance, Announced, Typed, TypeOK
  <2>3. Owed'
    BY <1>1, <2>a, <1>a, <1>c, <1>d, <1>f, <1>g DEF Invariance, Owed, ByButton,
       ByState, Announced, Typed, TypeOK
  <2>4. Coded'
    BY <1>1, <2>a, <1>a, <1>c, <1>d, <1>f, <1>g DEF Invariance, Coded, Pending, Early,
       Typed, TypeOK
  <2>5. Early'
    BY <1>1, <2>a, <1>a, <1>c, <1>d, <1>f, <1>g DEF Invariance, Early, Pending,
       Announced, Typed, TypeOK
  <2>6. Noticed'
    BY <1>1, <2>a, <1>a, <1>c, <1>d, <1>f, <1>g DEF Invariance, Noticed, Pending,
       Early, Typed, TypeOK
  <2> QED BY <2>1, <2>2, <2>3, <2>4, <2>5, <2>6, Zenon DEF Invariance
<1>2. ASSUME NEW s \in Successors, s # state, SetState(s), GoOn(s, "wait") PROVE Invariance'
  <2>a. /\ state' = s /\ led' \in Leds /\ count' \in -1..(FwFault + LepFault)
        /\ alert' \in 0..AlertTicks /\ alert' = alert
        /\ s = "fault" /\ fault # 0 => led' = "flt_on" /\ count' = fault
    BY <1>2, <1>i, StateSet
  <2>b. \/ s = "action" /\ pc' = "reinit" /\ back' = "wait"
        \/ s # "action" /\ pc' = "wait" /\ back' = back
    BY <1>2, Zenon DEF GoOn
  <2>c. s \in States /\ s # "alert" /\ (s = "action" => state = "alert")
        /\ state # "fault" /\ state # "startup" /\ (state = "alert" => s = "action")
        /\ (state = "action" /\ fault # 0 => s = "fault")
    BY <1>2, <1>i
  <2>1. Typed'
    BY <2>a, <2>b, <2>c, <1>a, <1>c, <1>d, <1>f, <1>g DEF FaultLeds, Typed, TypeOK
  <2>2. Announced'
    BY <2>a, <2>b, <2>c, <1>a, <1>c, <1>d, <1>f, <1>g DEF FaultLeds, Announced, Typed,
       TypeOK
  <2>3. Owed'
    BY <2>a, <2>b, <2>c, <1>a, <1>c, <1>d, <1>f, <1>g DEF FaultLeds, Owed, ByButton,
       ByState, Announced, Typed, TypeOK
  <2>4. Coded'
    BY <2>a, <2>b, <2>c, <1>a, <1>c, <1>d, <1>f, <1>g DEF FaultLeds, Coded, Pending,
       Early, Typed, TypeOK
  <2>5. Early'
    BY <2>a, <2>b, <2>c, <1>a, <1>c, <1>d, <1>f, <1>g DEF FaultLeds, Early, Pending,
       Announced, Typed, TypeOK
  <2>6. Noticed'
    BY <2>a, <2>b, <2>c, <1>a, <1>c, <1>d, <1>f, <1>g DEF FaultLeds, Noticed, Pending,
       Early, Typed, TypeOK
  <2> QED BY <2>1, <2>2, <2>3, <2>4, <2>5, <2>6, Zenon DEF Invariance
<1>3. CASE /\ state \in Successors /\ state' = state /\ led' = led /\ count' = count /\ back' = back /\ pc' = "wait"
           /\ alert' = IF state = "alert" THEN alert - 1 ELSE alert
  <2>a. state = "alert" => alert >= 2
    BY <1>3, <1>i DEF Announced, Typed, TypeOK
  <2>1. Typed'
    BY <1>3, <2>a, <1>a, <1>c, <1>d, <1>f, <1>g DEF FaultLeds, Typed, TypeOK
  <2>2. Announced'
    BY <1>3, <2>a, <1>a, <1>c, <1>d, <1>f, <1>g DEF FaultLeds, Announced, Typed, TypeOK
  <2>3. Owed'
    BY <1>3, <2>a, <1>a, <1>c, <1>d, <1>f, <1>g DEF FaultLeds, Owed, ByButton,
       ByState, Announced, Typed, TypeOK
  <2>4. Coded'
    BY <1>3, <2>a, <1>a, <1>c, <1>d, <1>f, <1>g DEF FaultLeds, Coded, Pending, Early,
       Typed, TypeOK
  <2>5. Early'
    BY <1>3, <2>a, <1>a, <1>c, <1>d, <1>f, <1>g DEF FaultLeds, Early, Pending,
       Announced, Typed, TypeOK
  <2>6. Noticed'
    BY <1>3, <2>a, <1>a, <1>c, <1>d, <1>f, <1>g DEF FaultLeds, Noticed, Pending,
       Early, Typed, TypeOK
  <2> QED BY <2>1, <2>2, <2>3, <2>4, <2>5, <2>6, Zenon DEF Invariance
<1> QED BY <1>h, <1>1, <1>2, <1>3, Zenon

\* Where a notification leads.
StateOf(n) ==
  CASE n = "startup" -> IF sif THEN "client" ELSE "no_net"
    [] n = "fault" -> "fault"
    [] n \in {"clear", "done"} -> pre
    [] n = "req" -> "upd_req"
    [] n = "process" -> "upd_proc"
    [] n = "reboot" -> "off"

\* One notification: where it leads was established by who sent it.
LEMMA KeptByHandleBit ==
  ASSUME Invariance, HandleBit
  PROVE  Invariance'
<1> USE DEF Invariance
<1> DEFINE n == FirstOf(bits)
<1>a. n \in bits /\ n \in Bits /\ ("startup" \in bits => n = "startup") /\ pc = "bits"
  BY FirstIsTaken DEF HandleBit, Typed, TypeOK
<1>b. /\ bits' = bits \ {n} /\ note' = note /\ asked' = asked /\ button' = button
      /\ sif' = sif /\ fault' = fault /\ sets' = sets /\ upd' = upd /\ left' = left
      /\ told' = told
      /\ pre' = IF n = "req" /\ state # "fault" THEN state ELSE pre
  BY DEF HandleBit, world
<1>c. failed' = failed /\ failed' \in BOOLEAN
  BY Zenon DEF HandleBit, Typed
<1>d. covered' \in BOOLEAN /\ (~covered' => ~covered /\ n \notin {"req", "process", "done"})
  <2>1. covered' = (covered \/ n \in {"req", "process", "done"})
    BY Zenon DEF HandleBit
  <2> HIDE DEF n
  <2> QED BY <2>1, Zenon
<1>e. struck' \in BOOLEAN /\ (~struck' => ~struck /\ (n = "req" => state \notin {"alert", "action"}))
  <2>1. struck' = (struck \/ (n = "req" /\ state \in {"alert", "action"}))
    BY Zenon DEF HandleBit
  <2> HIDE DEF n
  <2> QED BY <2>1, Zenon
<1>f. \/ /\ n = "reboot" /\ pc' = "off"
         /\ state' = state /\ led' = led /\ count' = count /\ alert' = alert /\ back' = back
      \/ /\ n # "reboot"
         /\ SetState(StateOf(n)) /\ GoOn(StateOf(n), "bits")
  <2>1. n = "startup" => state # "fault"
    BY <1>a DEF Early
  <2>2. IF n = "reboot" THEN pc' = "off" /\ SameState /\ UNCHANGED back
        ELSE IF n = "startup" /\ state = "fault" THEN SameState /\ UNCHANGED <<pc, back>>
        ELSE SetState(StateOf(n)) /\ GoOn(StateOf(n), "bits")
    BY Zenon DEF HandleBit, StateOf
  <2> HIDE DEF n
  <2> QED BY <2>1, <2>2 DEF SameState, shown
<1>g. n # "reboot" => StateOf(n) \in States
  BY <1>a DEF StateOf, States, Typed, TypeOK, Bits, Order
<1>h. /\ n = "startup" => StateOf(n) \in {"client", "no_net"}
      /\ n = "fault" => StateOf(n) = "fault"
      /\ n \in {"req", "process"} => StateOf(n) \in {"upd_req", "upd_proc"}
      /\ n \in {"clear", "done"} => StateOf(n) = pre
      /\ n \in {"startup", "fault", "clear", "req", "process", "done", "reboot"}
  BY <1>a DEF StateOf, Bits, Order
<1>j. ByButton' = ByButton /\ ByButton \in 0..1
  BY <1>b DEF ByButton
<1> HIDE DEF n
<1>1. CASE /\ n = "reboot" /\ pc' = "off"
           /\ state' = state /\ led' = led /\ count' = count /\ alert' = alert /\ back' = back
  <2>1. Typed'
    BY <1>1, <1>a, <1>b, <1>c, <1>d, <1>e, <1>j DEF Invariance, Typed, TypeOK
  <2>2. Announced'
    BY <1>1, <1>a, <1>b, <1>c, <1>d, <1>e, <1>j DEF Invariance, Announced, Typed, TypeOK
  <2>3. Owed'
    BY <1>1, <1>a, <1>b, <1>c, <1>d, <1>e, <1>j DEF Invariance, Owed, ByButton,
       ByState, Announced, Typed, TypeOK
  <2>4. Coded'
    BY <1>1, <1>a, <1>b, <1>c, <1>d, <1>e, <1>j DEF Invariance, Coded, Pending, Early,
       Typed, TypeOK
  <2>5. Early'
    BY <1>1, <1>a, <1>b, <1>c, <1>d, <1>e, <1>j DEF Invariance, Early, Pending,
       Announced, Typed, TypeOK
  <2>6. Noticed'
    BY <1>1, <1>a, <1>b, <1>c, <1>d, <1>e, <1>j DEF Invariance, Noticed, Pending,
       Early, Typed, TypeOK
  <2> QED BY <2>1, <2>2, <2>3, <2>4, <2>5, <2>6, Zenon DEF Invariance
<1>2. CASE n # "reboot" /\ SetState(StateOf(n)) /\ GoOn(StateOf(n), "bits")
  <2> DEFINE s == StateOf(n)
  <2>a. /\ state' = s /\ led' \in Leds /\ count' \in -1..(FwFault + LepFault)
        /\ alert' \in 0..AlertTicks /\ (s = "alert" => alert' >= 1)
        /\ s = "fault" /\ fault # 0 => led' = "flt_on" /\ count' = fault
    BY <1>2, <1>g, StateSet DEF Typed
  <2>b. \/ s = "action" /\ pc' = "reinit" /\ back' = "bits"
        \/ s # "action" /\ pc' = "bits" /\ back' = back
    BY <1>2, Zenon DEF GoOn
  <2>c. s \in States
    BY <1>2, <1>g
  <2>d. ~struck => s \notin {"alert", "action"}
    BY <1>2, <1>h DEF Owed
  <2> HIDE DEF s
  <2>e. ~covered' /\ fault # 0 /\ ~Pending("fault")' => s \in {"fault", "alert", "action"}
    <3>1. CASE n = "startup"
      BY <3>1, <1>a, <1>b, <1>d DEF Noticed, Pending, Early
    <3>2. CASE n = "fault"
      BY <3>2, <1>h DEF s
    <3>3. CASE n = "clear"
      BY <3>3, <1>a, <1>d DEF Noticed, Pending
    <3>4. CASE n \in {"req", "process", "done"}
      BY <3>4, <1>d
    <3> QED BY <1>2, <1>h, <3>1, <3>2, <3>3, <3>4
  <2>1. Typed'
    BY <2>a, <2>b, <2>c, <2>d, <2>e, <1>a, <1>b, <1>c, <1>d, <1>e, <1>j DEF FaultLeds,
       Typed, TypeOK
  <2>2. Announced'
    BY <2>a, <2>b, <2>c, <2>d, <2>e, <1>a, <1>b, <1>c, <1>d, <1>e, <1>j DEF FaultLeds,
       Announced, Typed, TypeOK
  <2>3. Owed'
    BY <2>a, <2>b, <2>c, <2>d, <2>e, <1>a, <1>b, <1>c, <1>d, <1>e, <1>j DEF FaultLeds,
       Owed, ByButton, ByState, Announced, Typed, TypeOK
  <2>4. Coded'
    BY <2>a, <2>b, <2>c, <2>d, <2>e, <1>a, <1>b, <1>c, <1>d, <1>e, <1>j DEF FaultLeds,
       Coded, Pending, Early, Typed, TypeOK
  <2>5. Early'
    BY <2>a, <2>b, <2>c, <2>d, <2>e, <1>a, <1>b, <1>c, <1>d, <1>e, <1>j DEF FaultLeds,
       Early, Pending, Announced, Typed, TypeOK
  <2>6. Noticed'
    BY <2>a, <2>b, <2>c, <2>d, <2>e, <1>a, <1>b, <1>c, <1>d, <1>e, <1>j DEF FaultLeds,
       Noticed, Pending, Early, Typed, TypeOK
  <2> QED BY <2>1, <2>2, <2>3, <2>4, <2>5, <2>6, Zenon DEF Invariance
<1> QED BY <1>f, <1>1, <1>2, Zenon

\* The other tasks.
LEMMA KeptByOthers == ASSUME Invariance, Others PROVE Invariance'
<1> USE DEF TaskNames
<1>0. /\ upd \in {"idle", "req", "proc"} /\ told \subseteq {"en", "end"}
      /\ left \in [faults : Nat, updates : Nat, moves : Nat]
  BY DEF Invariance, Typed, TypeOK
<1>1. \A what \in {"faults", "updates", "moves"} :
        Spend(what) => left' \in [faults : Nat, updates : Nat, moves : Nat]
  BY <1>0 DEF Spend
<1>2. CASE LepSetsFault
  <2>1. Apart
    BY <1>0, <1>1, <1>2 DEF LepSetsFault, Apart, rspv
  <2> QED BY <1>2, <2>1, KeptBySetFault DEF LepSetsFault
<1>3. CASE LepClears
  <2>1. Apart
    BY <1>0, <1>1, <1>3 DEF LepClears, Apart, rspv
  <2> QED BY <1>3, <2>1, KeptByClearFault DEF LepClears
<1>4. CASE UpdRequest
  <2>1. Apart
    BY <1>0, <1>1, <1>4 DEF UpdRequest, Apart
  <2>2. RspReport({"req"}) /\ covered' = covered
    BY <1>4, Zenon DEF UpdRequest
  <2> QED BY <2>1, <2>2, KeptByReport
<1>5. CASE UpdStart
  <2>1. Apart
    BY <1>0, <1>5 DEF UpdStart, Apart
  <2>2. CASE RspReport({"process"}) /\ UNCHANGED covered
    BY <2>1, <2>2, KeptByReport
  <2>3. CASE SetFault("rsp", FwFault)
    BY <2>1, <2>3, KeptBySetFault
  <2>4. CASE UNCHANGED <<others, upd, pre, fault, note, sets, struck, covered>>
    <3>1. UNCHANGED <<sif, loop, state, pre, shown, alert, button, fault, note, sets,
                      asked, struck, failed, covered>>
      BY <2>4 DEF others
    <3> QED BY <2>1, <3>1, KeptByNothing
  <2> QED BY <1>5, <2>2, <2>3, <2>4, Zenon DEF UpdStart
<1>6. CASE UpdEnd
  <2>1. Apart
    BY <1>0, <1>6 DEF UpdEnd, Apart
  <2>2. CASE RspReport({"done"}) /\ UNCHANGED covered
    BY <2>1, <2>2, KeptByReport
  <2>3. CASE RspReport({"done", "reboot"}) /\ UNCHANGED covered
    BY <2>1, <2>3, KeptByReport
  <2>4. CASE SetFault("rsp", FwFault)
    BY <2>1, <2>4, KeptBySetFault
  <2> QED BY <1>6, <2>2, <2>3, <2>4, Zenon DEF UpdEnd
<1>7. CASE UpdStop
  <2>1. Apart
    BY <1>0, <1>7 DEF UpdStop, Apart
  <2>2. RspReport({"done"}) /\ covered' = covered
    BY <1>7, Zenon DEF UpdStop
  <2> QED BY <2>1, <2>2, KeptByReport
<1>8. CASE Press
  BY <1>8, KeptByPress
<1> QED BY <1>2, <1>3, <1>4, <1>5, <1>6, <1>7, <1>8, Zenon DEF Others

\* Every step keeps the invariant.
LEMMA StepInvariance == ASSUME Invariance, [Next]_vars PROVE Invariance'
<1>1. CASE Loop
  BY <1>1, KeptByTake, KeptByHandleBit, KeptByNoBits, KeptByEvalLed, KeptByEvalSm,
     KeptByReinit, Zenon DEF Loop
<1>2. CASE Others
  BY <1>2, KeptByOthers
<1>3. CASE Notifies
  BY <1>3, KeptByNotify, Zenon DEF Notifies, TaskNames
<1>4. CASE UNCHANGED vars
  <2>1. Apart
    BY <1>4 DEF Invariance, Typed, TypeOK, Apart, vars, rspv
  <2>2. UNCHANGED <<sif, loop, state, pre, shown, alert, button, fault, note, sets,
                    asked, struck, failed, covered>>
    BY <1>4 DEF vars
  <2> QED BY <2>1, <2>2, KeptByNothing
<1> QED BY <1>1, <1>2, <1>3, <1>4, Zenon DEF Next

\* It holds in every behaviour.
LEMMA AlwaysInvariance == Spec => []Invariance
BY InitInvariance, StepInvariance, PTL DEF Spec

-----------------------------------------------------------------------------
(* The properties.                                                         *)

\* Every variable of the task keeps its type: the counter of blinks stays
\* between -1 and the codes, and the alert's timer does not pass zero.
THEOREM TypeCorrect == Spec => []TypeOK
<1>1. Invariance => TypeOK
  BY DEF Invariance, Typed
<1> QED BY <1>1, AlwaysInvariance, PTL

\* Every network reset is one that somebody held the button for, unless a
\* fault or an update request arrived during a reset.
THEOREM ResetsAreAsked == Spec => []ResetAsked
<1>1. Invariance => ResetAsked
  BY DEF Invariance, Typed, Owed, ByButton, ByState, ResetAsked
<1> QED BY <1>1, AlwaysInvariance, PTL

\* A fault is blinked with its own code, unless a network reset has failed.
THEOREM CodeIsBlinked == Spec => []BlinksCode
<1>1. Invariance => BlinksCode
  BY DEF Invariance, Coded, Pending, Settled, BlinksCode, Typed, TypeOK
<1> QED BY <1>1, AlwaysInvariance, PTL

\* A fault nobody cleared is shown once its notification was handled, also
\* after a network reset, unless an update took over.
THEOREM FaultIsShown == Spec => []FaultShown
<1>1. Invariance => FaultShown
  BY DEF Invariance, Noticed, Pending, Settled, FaultShown, Typed, TypeOK
<1> QED BY <1>1, AlwaysInvariance, PTL
=============================================================================
