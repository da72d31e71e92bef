----------------------------- MODULE SavedNets -----------------------------
(***************************************************************************)
(* The saved networks of ps_utilities.c: the table in RAM and its copy in  *)
(* flash, the network settings beside it, and those who change them: the   *)
(* command task (set_wifi, forget_wifi), ctrl_task (the network reset) and *)
(* ps_init after every start.  Writing to flash may fail before or after   *)
(* it took effect, reading may fail, and power may be lost at any step.    *)
(***************************************************************************)
EXTENDS Integers, FiniteSets

CONSTANTS Ssids, Pws,      \* the networks and the passwords they are given
          NoNet, NoPw,     \* an empty string
          NoTable,         \* no blob under the key
          Slots,           \* PS_NUM_SAVED_NETS
          MaxOps,          \* commands and joins, and
          MaxTroubles      \* failing accesses and power losses looked at

ASSUME EmptyIsNone == NoNet \notin Ssids /\ NoPw \notin Pws
ASSUME SlotsAssumption == Slots \in Nat \ {0}
ASSUME BoundsAreNat == MaxOps \in Nat /\ MaxTroubles \in Nat

Index == 1..Slots
Entry == [ssid : Ssids, pw : Pws]
Free == [ssid |-> NoNet, pw |-> NoPw]
Table == [Index -> Entry \cup {Free}]
Blank == [i \in Index |-> Free]

ASSUME NoTableIsNone == NoTable \notin Table

VARIABLES
  stage,     \* where ps_init is: "off", "info", "erased", "nets", or "run"
  nets,      \* ps_saved_nets
  blob,      \* its copy in flash, or NoTable
  info,      \* sta_ssid and sta_pw of ps_wifi_info, and
  finfo,     \* its copy in flash: [kind: "none", "old" (layout) or "new", net]
  run,       \* wifi_info of wifi_utilities.c: the network in use
  job,       \* process_set_wifi: what it does next, with which network
  ops, troubles,
  dead,      \* history: networks forgotten and not named since
  owed,      \* history: entries the flash took and nobody replaced since
  leak,      \* history: a write failed, or set_wifi copied the current network
  torn       \* history: power was lost between erase and rewrite, a read or
             \* the first write of the table failed

vars == <<stage, nets, blob, info, finfo, run, job, ops, troubles, dead, owed, leak, torn>>

ram == <<nets, info, run, job>>
hist == <<dead, owed, leak, torn>>
NoJob == [do |-> "none", net |-> Free]

(* A new camera, or one whose settings still have the old layout.          *)
Init ==
  /\ stage = "off" /\ nets = Blank /\ info = Free /\ run = Free /\ job = NoJob
  /\ blob = NoTable
  /\ \/ finfo = [kind |-> "none", net |-> Free] /\ owed = {}
     \/ \E e \in Entry : finfo = [kind |-> "old", net |-> e] /\ owed = {e}
  /\ ops = 0 /\ troubles = 0 /\ dead = {} /\ leak = FALSE /\ torn = FALSE

-----------------------------------------------------------------------------
(* The table.                                                              *)

First(S) == CHOOSE i \in S : \A j \in S : i <= j
At(t, s) == {i \in Index : t[i].ssid = s}

(* The same ssid, else the first free slot, else the last one.             *)
Slot(t, s) ==
  IF At(t, s) # {} THEN First(At(t, s))
  ELSE IF At(t, NoNet) # {} THEN First(At(t, NoNet)) ELSE Slots

(* Plausible bug: a network that is there already is left as it is.        *)
UpsertedOnce(t, e) ==
  IF At(t, e.ssid) # {} THEN t ELSE [t EXCEPT ![Slot(t, e.ssid)] = e]

Upserted(t, e) == [t EXCEPT ![Slot(t, e.ssid)] = e]

(* Plausible bug: the loop that shifts stops one slot early.               *)
ForgottenShort(t, s) ==
  IF At(t, s) = {} THEN t
  ELSE [i \in Index |-> IF i < First(At(t, s)) \/ i = Slots - 1 THEN t[i]
                        ELSE IF i < Slots THEN t[i + 1] ELSE Free]

(* Plausible bug: the slot is cleared where it is.                         *)
ForgottenHole(t, s) ==
  [i \in Index |-> IF t[i].ssid = s THEN Free ELSE t[i]]

(* The rest is shifted up so that the free slots stay at the end.          *)
Forgotten(t, s) ==
  IF At(t, s) = {} THEN t
  ELSE [i \in Index |-> IF i < First(At(t, s)) THEN t[i]
                        ELSE IF i < Slots THEN t[i + 1] ELSE Free]

Entries(t) == {t[i] : i \in Index} \ {Free}

-----------------------------------------------------------------------------
(* Flash: nvs_set_blob and nvs_commit.                                     *)

Trouble == troubles < MaxTroubles /\ troubles' = troubles + 1

(* ps_write_saved_nets of table t: both calls succeed, or the first or the *)
(* second fails, with or without effect on what a restart will read.       *)
Written(t) == blob' = t /\ UNCHANGED troubles
Unwritten(t) == Trouble /\ (blob' = t \/ blob' = blob)

(* ps_write_net_info of settings n.                                        *)
InfoWritten(n) == finfo' = [kind |-> "new", net |-> n] /\ UNCHANGED troubles
InfoUnwritten(n) == Trouble /\ (finfo' = [kind |-> "new", net |-> n] \/ finfo' = finfo)
WriteInfo(n) == InfoWritten(n) \/ InfoUnwritten(n)

-----------------------------------------------------------------------------
(* ps_init.                                                                *)

PowerOn ==
  /\ stage = "off" /\ stage' = "info"
  /\ UNCHANGED <<ram, blob, finfo, ops, troubles, hist>>

(* The power fails: what was in RAM is gone.                               *)
PowerLoss ==
  /\ stage # "off" /\ Trouble
  /\ stage' = "off" /\ nets' = Blank /\ info' = Free /\ run' = Free /\ job' = NoJob
  /\ torn' = (torn \/ stage = "erased")
  /\ UNCHANGED <<blob, finfo, ops, dead, owed, leak>>

(* ps_wifi_info: read it, or take over the old layout and erase it, or     *)
(* start with the defaults.                                                *)
LoadInfo ==
  /\ stage = "info"
  /\ \/ /\ finfo.kind = "new"
        /\ info' = finfo.net /\ stage' = "nets"
        /\ UNCHANGED <<finfo, troubles>>
     \/ /\ finfo.kind = "old"
        /\ info' = finfo.net /\ stage' = "erased"
        /\ \/ finfo' = [kind |-> "none", net |-> Free] /\ UNCHANGED troubles
           \/ Trouble /\ UNCHANGED finfo
     \/ /\ finfo.kind = "none"
        /\ info' = Free /\ stage' = "nets"
        /\ WriteInfo(Free)
  /\ UNCHANGED <<nets, blob, run, job, ops, hist>>

RewriteInfo ==
  /\ stage = "erased" /\ stage' = "nets"
  /\ WriteInfo(info)
  /\ torn' = (torn \/ finfo'.kind = "none")
  /\ UNCHANGED <<ram, blob, ops, dead, owed, leak>>

(* What an unreadable table is replaced with.                              *)
Seed == IF info = Free THEN Blank ELSE [Blank EXCEPT ![1] = info]

(* ps_load_saved_nets.  net_init then reads the settings.                  *)
LoadNets ==
  /\ stage = "nets" /\ stage' = "run" /\ run' = info
  /\ \/ /\ blob # NoTable
        /\ nets' = blob
        /\ UNCHANGED <<blob, troubles, leak, torn>>
     \/ /\ blob = NoTable
        /\ nets' = Seed
        /\ \/ Written(Seed) /\ UNCHANGED <<leak, torn>>
           \/ Unwritten(Seed) /\ leak' = TRUE /\ torn' = TRUE
     \/ /\ blob # NoTable               \* nvs_get_blob fails
        /\ Trouble
        /\ nets' = Seed /\ blob' = Seed /\ leak' = TRUE /\ torn' = TRUE
  /\ UNCHANGED <<info, finfo, job, ops, dead, owed>>

-----------------------------------------------------------------------------
(* Commands.                                                               *)

Command == stage = "run" /\ job = NoJob /\ ops < MaxOps /\ ops' = ops + 1

(* set_wifi with a network, which gives its password too; an empty         *)
(* sta_ssid is refused.                                                    *)
SetWifi(e) ==
  /\ Command
  /\ job' = [do |-> "upsert", net |-> e]
  /\ dead' = dead \ {e.ssid}
  /\ UNCHANGED <<stage, nets, blob, info, finfo, run, troubles, owed, leak, torn>>

(* set_wifi without one: the network in use is copied.                     *)
SetWifiOther ==
  /\ Command
  /\ job' = [do |-> IF run = Free THEN "info" ELSE "upsert", net |-> run]
  /\ leak' = (leak \/ run.ssid \in dead)
  /\ UNCHANGED <<stage, nets, blob, info, finfo, run, troubles, dead, owed, torn>>

(* ps_upsert_saved_net; its result is ignored.                             *)
Upsert ==
  /\ job.do = "upsert"
  /\ LET t == Upserted(nets, job.net) IN
     /\ nets' = t
     /\ \/ Written(t) /\ UNCHANGED leak
           /\ owed' = {e \in owed : e \in Entries(t)} \cup {job.net}
        \/ Unwritten(t) /\ leak' = TRUE
           /\ owed' = {e \in owed : e \in Entries(t)}
  /\ job' = [job EXCEPT !.do = "info"]
  /\ UNCHANGED <<stage, info, finfo, run, ops, dead, torn>>

(* ps_set_net_info, then net_reinit reads the settings back.               *)
StoreInfo ==
  /\ job.do = "info"
  /\ info' = job.net /\ run' = job.net /\ job' = NoJob
  /\ WriteInfo(job.net)
  /\ UNCHANGED <<stage, nets, blob, ops, hist>>

(* Plausible bug: the table is changed in RAM only.                        *)
ForgetInRam(s) ==
  /\ Command
  /\ nets' = Forgotten(nets, s)
  /\ dead' = dead \cup ({s} \cap Ssids)
  /\ owed' = {e \in owed : e.ssid # s}
  /\ UNCHANGED <<stage, blob, info, finfo, run, job, troubles, leak, torn>>

(* ps_forget_saved_net: any string is accepted, and the empty one matches  *)
(* the first free slot.                                                    *)
Forget(s) ==
  /\ Command
  /\ LET t == Forgotten(nets, s) IN
     /\ nets' = t
     /\ IF At(nets, s) = {} THEN UNCHANGED <<blob, troubles, leak>>
        ELSE \/ Written(t) /\ UNCHANGED leak
             \/ Unwritten(t) /\ leak' = TRUE
  /\ dead' = dead \cup ({s} \cap Ssids)
  /\ owed' = {e \in owed : e.ssid # s}
  /\ UNCHANGED <<stage, info, finfo, run, job, torn>>

(* The camera joins one of its saved networks (connect_to_saved).          *)
Join ==
  /\ stage = "run" /\ ops < MaxOps /\ ops' = ops + 1
  /\ run' \in Entries(nets)
  /\ UNCHANGED <<stage, nets, blob, info, finfo, job, troubles, hist>>

(* ctrl_task: ps_reinit_net, and net_reinit when that went well.           *)
NetworkReset ==
  /\ stage = "run" /\ ops < MaxOps /\ ops' = ops + 1
  /\ info' = Free
  /\ \/ InfoWritten(Free) /\ run' = Free
     \/ InfoUnwritten(Free) /\ UNCHANGED run
  /\ UNCHANGED <<stage, nets, blob, job, hist>>

-----------------------------------------------------------------------------
Next ==
  \/ PowerOn \/ PowerLoss \/ LoadInfo \/ RewriteInfo \/ LoadNets
  \/ \E e \in Entry : SetWifi(e)
  \/ SetWifiOther \/ Upsert \/ StoreInfo \/ Join \/ NetworkReset
  \/ \E s \in Ssids \cup {NoNet} : Forget(s)

Spec == Init /\ [][Next]_vars

-----------------------------------------------------------------------------
TypeOK ==
  /\ stage \in {"off", "info", "erased", "nets", "run"}
  /\ nets \in Table /\ blob \in Table \cup {NoTable}
  /\ info \in Entry \cup {Free} /\ run \in Entry \cup {Free}
  /\ finfo \in [kind : {"none", "old", "new"}, net : Entry \cup {Free}]
  /\ job \in [do : {"none", "upsert", "info"}, net : Entry \cup {Free}]

(* No network twice, and the free slots at the end (ps_utilities.c:393).   *)
Sound(t) ==
  /\ \A i, j \in Index : t[i].ssid = t[j].ssid /\ t[i].ssid # NoNet => i = j
  /\ \A i, j \in Index : i < j /\ t[i].ssid = NoNet => t[j].ssid = NoNet

(* The table in RAM and the one a restart will find are sound after any    *)
(* sequence of insertions, evictions and removals, also of the empty name. *)
TableSound == Sound(nets) /\ (blob # NoTable => Sound(blob))

(* A network the user has forgotten does not come back, over any number of *)
(* restarts, before a command names it: unless a write failed on the way,  *)
(* or a set_wifi that named no network copied it back from the settings in *)
(* use (json_utilities.c:738).                                             *)
ForgottenStays ==
  stage = "run" /\ ~leak => \A e \in Entries(nets) : e.ssid \notin dead

(* A network the flash has taken, with its password, is there whenever the *)
(* camera runs until it is forgotten, changed or evicted, including the    *)
(* network of a camera whose settings had the old layout: unless the power *)
(* failed between erasing and rewriting those, or a read or the first      *)
(* write of the table failed.                                              *)
KnownStays ==
  stage = "run" /\ ~torn => \A e \in owed : e \in Entries(nets)

(* The table implements the promise of NetStore.                           *)
AsStore(t) == [s \in {e.ssid : e \in Entries(t)} |-> t[First(At(t, s))].pw]
Store == INSTANCE NetStore WITH
  Names <- Ssids, Keys <- Pws, Capacity <- Slots,
  known <- AsStore(nets), kept <- AsStore(IF blob = NoTable THEN Blank ELSE blob)
ImplementsStore == Store!Spec
=============================================================================
