-------------------------- MODULE SavedNetsProofs --------------------------
(***************************************************************************)
(* Proofs about SavedNets, for all networks, passwords and table sizes.    *)
(*                                                                         *)
(* The lemmas of the first part say what an insertion and a removal do to  *)
(* a sound table.  The invariant relates the table in RAM, its copy and    *)
(* the settings at each stage of a start.  The last part shows that a step *)
(* changes the table as NetStore allows.                                   *)
(***************************************************************************)
EXTENDS SavedNets, TLAPS, FiniteSetTheorems, WellFoundedInduction

USE EmptyIsNone, SlotsAssumption, NoTableIsNone DEF EmptyIsNone, SlotsAssumption,
   NoTableIsNone

-----------------------------------------------------------------------------
(* The table.                                                              *)

\* First picks the least element.
LEMMA FirstIsLeast ==
  ASSUME NEW S \in SUBSET Index, S # {}
  PROVE  First(S) \in S /\ \A j \in S : First(S) <= j
<1>1. S \subseteq 0..Slots
  BY DEF Index
<1> DEFINE below(i) == 0..(i - 1)
           T == {below(i) : i \in S}
<1>2. T \subseteq FiniteSubsetsOf(0..Slots) /\ T # {}
  <2>1. \A i \in S : below(i) \subseteq 0..Slots /\ i \in Int
    BY <1>1
  <2>2. \A i \in S : IsFiniteSet(below(i))
    BY <2>1, FS_Interval, FS_Subset
  <2> QED BY <2>1, <2>2, Zenon DEF FiniteSubsetsOf
<1>3. PICK b \in T : \A a \in T : <<a, b>> \notin StrictSubsetOrdering(0..Slots)
  BY <1>2, FS_StrictSubsetOrderingWellFounded, WFMin, Zenon
<1>4. PICK x \in S : b = below(x)
  BY <1>3
<1>5. \A y \in S : x <= y
  <2>1. SUFFICES ASSUME NEW y \in S, ~(x <= y) PROVE FALSE
    OBVIOUS
  <2>2. below(y) \subseteq below(x) /\ y \in below(x) /\ y \notin below(y)
    BY <1>1, <2>1
  <2>3. below(x) \subseteq 0..Slots /\ below(y) \subseteq 0..Slots
    BY <1>1
  <2>4. <<below(y), below(x)>> \in StrictSubsetOrdering(0..Slots)
    BY <2>2, <2>3 DEF StrictSubsetOrdering
  <2> QED BY <1>3, <1>4, <2>4
<1> QED BY <1>5, Zenon DEF First

\* A free slot is not an entry.
LEMMA FreeIsNone == Free \notin Entry
BY DEF Free, Entry

\* A network is put where the table has room for it, or last.
LEMMA SlotInTable ==
  ASSUME NEW t \in Table, NEW s
  PROVE  /\ Slot(t, s) \in Index
         /\ At(t, s) # {} => Slot(t, s) \in At(t, s)
         /\ At(t, s) = {} /\ At(t, NoNet) # {} =>
              /\ t[Slot(t, s)].ssid = NoNet
              /\ \A i \in Index : i < Slot(t, s) => t[i].ssid # NoNet
         /\ At(t, s) = {} /\ At(t, NoNet) = {} => Slot(t, s) = Slots
<1>1. At(t, s) \in SUBSET Index /\ At(t, NoNet) \in SUBSET Index
  BY DEF At
<1>2. Slots \in Index
  BY DEF Index
<1>3. CASE At(t, s) # {}
  BY <1>1, <1>3, FirstIsLeast, Zenon DEF Slot
<1>4. CASE At(t, s) = {} /\ At(t, NoNet) # {}
  <2> DEFINE f == First(At(t, NoNet))
  <2>1. f \in At(t, NoNet) /\ \A j \in At(t, NoNet) : f <= j
    BY <1>1, <1>4, FirstIsLeast, Zenon
  <2>2. Slot(t, s) = f
    BY <1>4, Zenon DEF Slot
  <2> HIDE DEF f
  <2> QED BY <1>4, <2>1, <2>2 DEF At, Index
<1>5. CASE At(t, s) = {} /\ At(t, NoNet) = {}
  BY <1>2, <1>5, Zenon DEF Slot
<1> QED BY <1>3, <1>4, <1>5, Zenon

\* An insertion keeps the table sound, adds the network, and takes nothing
\* but an entry of the same network or, from a full table, the last one.
LEMMA UpsertedSound ==
  ASSUME NEW t \in Table, Sound(t), NEW e \in Entry
  PROVE  /\ Upserted(t, e) \in Table /\ Sound(Upserted(t, e))
         /\ e \in Entries(Upserted(t, e))
         /\ Entries(Upserted(t, e)) \subseteq Entries(t) \cup {e}
<1> DEFINE k == Slot(t, e.ssid)  u == Upserted(t, e)
<1>1. k \in Index
  BY SlotInTable, Zenon
<1>2. u = [t EXCEPT ![k] = e]
  BY DEF Upserted
<1>3. u \in Table
  BY <1>1, <1>2 DEF Table
<1>4. \A i \in Index : u[i] = IF i = k THEN e ELSE t[i]
  BY <1>2 DEF Table
<1>5. e.ssid \in Ssids /\ e.ssid # NoNet /\ e # Free
  BY DEF Entry, Free
<1>6. \A i \in Index : t[i].ssid = e.ssid => i = k
  <2>1. CASE At(t, e.ssid) # {}
    BY <2>1, <1>1, <1>5, SlotInTable DEF Sound, At
  <2>2. CASE At(t, e.ssid) = {}
    BY <2>2 DEF At
  <2> QED BY <2>1, <2>2
<1>7. \A i, j \in Index : i < j /\ t[i].ssid = NoNet => t[j].ssid = NoNet /\ (i # k => j # k)
  <2>1. CASE At(t, e.ssid) # {}
    BY <2>1, <1>5, SlotInTable DEF Sound, At
  <2>2. CASE At(t, e.ssid) = {} /\ At(t, NoNet) # {}
    BY <2>2, SlotInTable DEF Sound, At
  <2>3. CASE At(t, e.ssid) = {} /\ At(t, NoNet) = {}
    BY <2>3 DEF At
  <2> QED BY <2>1, <2>2, <2>3
<1> HIDE DEF k, u
<1>8. Sound(u)
  <2>1. \A i, j \in Index : u[i].ssid = u[j].ssid /\ u[i].ssid # NoNet => i = j
    BY <1>4, <1>5, <1>6 DEF Sound
  <2>2. ASSUME NEW i \in Index, NEW j \in Index, i < j, u[i].ssid = NoNet
        PROVE  u[j].ssid = NoNet
    BY <2>2, <1>4, <1>5, <1>7 DEF Sound
  <2> QED BY <2>1, <2>2 DEF Sound
<1>9. e \in Entries(u) /\ Entries(u) \subseteq Entries(t) \cup {e}
  BY <1>1, <1>4, <1>5 DEF Entries
<1> QED BY <1>3, <1>8, <1>9 DEF u

\* A removal keeps the table sound and takes the named network, no other.
LEMMA ForgottenSound ==
  ASSUME NEW t \in Table, Sound(t), NEW s
  PROVE  /\ Forgotten(t, s) \in Table /\ Sound(Forgotten(t, s))
         /\ Entries(Forgotten(t, s)) = {e \in Entries(t) : e.ssid # s}
<1>0. \A i \in Index : t[i] \in Entry \cup {Free}
  BY DEF Table
<1>1. CASE At(t, s) = {}
  BY <1>1, Zenon DEF Forgotten, At, Entries
<1>2. CASE At(t, s) # {}
  <2> DEFINE f == First(At(t, s))  u == Forgotten(t, s)
  <2>1. f \in Index /\ t[f].ssid = s /\ \A i \in Index : t[i].ssid = s => f <= i
    <3>1. At(t, s) \in SUBSET Index
      BY DEF At
    <3> QED BY <1>2, <3>1, FirstIsLeast, Zenon DEF At
  <2>2. u = [i \in Index |-> IF i < f THEN t[i] ELSE IF i < Slots THEN t[i + 1] ELSE Free]
    BY <1>2, Zenon DEF Forgotten
  <2> HIDE DEF f, u
  <2>3. \A i \in Index : i + 1 \in Index \/ ~(i < Slots)
    BY DEF Index
  <2>4. \A i \in Index : u[i] = IF i < f THEN t[i] ELSE IF i < Slots THEN t[i + 1] ELSE Free
    BY <2>2
  <2>5. u \in Table
    BY <2>2, <2>3, <1>0, Zenon DEF Table
  <2>6. Sound(u)
    <3>1. \A i, j \in Index : u[i].ssid = u[j].ssid /\ u[i].ssid # NoNet => i = j
      BY <2>1, <2>3, <2>4 DEF Sound, Index, Free
    <3>2. \A i, j \in Index : i < j /\ u[i].ssid = NoNet => u[j].ssid = NoNet
      BY <2>1, <2>3, <2>4 DEF Sound, Index, Free
    <3> QED BY <3>1, <3>2 DEF Sound
  <2>7. \A e \in Entries(u) : e \in Entries(t) /\ e.ssid # s
    <3>1. SUFFICES ASSUME NEW i \in Index, u[i] # Free
                   PROVE  u[i] \in Entries(t) /\ u[i].ssid # s
      BY Zenon DEF Entries
    <3>2. PICK j \in Index : u[i] = t[j] /\ j # f /\ (i < f => j < f)
      BY <3>1, <2>1, <2>3, <2>4 DEF Index
    <3>3. t[j].ssid # NoNet
      BY <3>1, <3>2, <1>0 DEF Entry
    <3> QED BY <3>1, <3>2, <3>3, <2>1 DEF Sound, Entries
  <2>8. \A e \in Entries(t) : e.ssid # s => e \in Entries(u)
    <3>1. SUFFICES ASSUME NEW j \in Index, t[j] # Free, t[j].ssid # s
                   PROVE  t[j] \in Entries(u)
      BY Zenon DEF Entries
    <3>2. j # f
      BY <3>1, <2>1
    <3>3. CASE j < f
      BY <3>1, <3>3, <2>4 DEF Entries
    <3>4. CASE f < j
      <4>1. j - 1 \in Index /\ u[j - 1] = t[j]
        BY <3>4, <2>1, <2>4 DEF Index
      <4> QED BY <3>1, <4>1, Zenon DEF Entries
    <3> QED BY <3>2, <3>3, <3>4, <2>1 DEF Index
  <2> QED BY <2>5, <2>6, <2>7, <2>8 DEF u
<1> QED BY <1>1, <1>2

\* A new table holds what the settings hold, and nothing else.
LEMMA SeedSound ==
  ASSUME info \in Entry \cup {Free}
  PROVE  /\ Blank \in Table /\ Sound(Blank) /\ Entries(Blank) = {}
         /\ Seed \in Table /\ Sound(Seed) /\ Entries(Seed) = {info} \ {Free}
<1>1. Blank \in Table /\ Sound(Blank) /\ Entries(Blank) = {}
  BY DEF Blank, Table, Sound, Free, Entries
<1>2. CASE info = Free
  BY <1>1, <1>2 DEF Seed
<1>3. CASE info # Free
  <2>1. Seed = [Blank EXCEPT ![1] = info] /\ 1 \in Index
    BY <1>3 DEF Seed, Index
  <2>2. \A i \in Index : Seed[i] = IF i = 1 THEN info ELSE Free
    BY <2>1 DEF Blank
  <2>3. Seed \in Table
    BY <1>1, <2>1 DEF Table
  <2>4. Sound(Seed)
    BY <2>2, <1>3 DEF Sound, Index, Free, Entry
  <2>5. Entries(Seed) = {info}
    BY <2>1, <2>2, <1>3 DEF Entries
  <2> QED BY <1>1, <1>3, <2>3, <2>4, <2>5
<1> QED BY <1>2, <1>3

-----------------------------------------------------------------------------
(* The invariant.                                                          *)

\* A command in progress belongs to a running camera and names a network.
JobSound ==
  /\ job.do # "none" => stage = "run"
  /\ job.do = "upsert" => job.net \in Entry

\* Without a leak the flash is what the RAM is, and no forgotten network is
\* in it or about to be; before there is a table nothing was forgotten.
Forgetful ==
  ~leak => /\ stage = "run" => blob = nets
           /\ blob # NoTable => \A e \in Entries(blob) : e.ssid \notin dead
           /\ blob = NoTable => dead = {}
           /\ job.do = "upsert" => job.net.ssid \notin dead

\* What is owed is in the table and in flash; before there is a table it is
\* in the settings, wherever those are during the migration.
Remembering ==
  /\ owed \subseteq Entry
  /\ ~torn => /\ stage = "run" => blob # NoTable /\ owed \subseteq Entries(nets)
              /\ blob # NoTable => owed \subseteq Entries(blob)
              /\ blob = NoTable /\ stage \in {"erased", "nets"} => owed \subseteq {info}
              /\ blob = NoTable /\ owed # {} =>
                   /\ finfo.kind = "none" => stage = "erased"
                   /\ finfo.kind # "none" => owed \subseteq {finfo.net}

\* Before ps_load_saved_nets the table in RAM is empty.
Unloaded == stage # "run" => nets = Blank

Invariance == TypeOK /\ TableSound /\ JobSound /\ Forgetful /\ Remembering /\ Unloaded

\* A new camera, or one with the old settings, satisfies it.
LEMMA InitInvariance == ASSUME Init PROVE Invariance
<1> USE DEF Init
<1>1. Blank \in Table /\ Sound(Blank) /\ Entries(Blank) = {}
  BY SeedSound
<1>2. TypeOK
  <2>1. finfo \in [kind : {"none", "old", "new"}, net : Entry \cup {Free}]
    OBVIOUS
  <2>2. job \in [do : {"none", "upsert", "info"}, net : Entry \cup {Free}]
    BY DEF NoJob
  <2> QED BY <1>1, <2>1, <2>2, Zenon DEF TypeOK
<1>3. TableSound /\ JobSound
  BY <1>1 DEF TableSound, JobSound, NoJob
<1>4. Forgetful /\ Remembering /\ Unloaded
  BY DEF Forgetful, Remembering, Unloaded, NoJob
<1> QED BY <1>2, <1>3, <1>4 DEF Invariance

\* ps_init keeps it, wherever power fails.
LEMMA KeptByLoading ==
  ASSUME Invariance, PowerOn \/ PowerLoss \/ LoadInfo \/ RewriteInfo \/ LoadNets
  PROVE  Invariance'
<1> USE DEF Invariance, hist, ram
<1>0. /\ Blank \in Table /\ Sound(Blank) /\ Entries(Blank) = {}
      /\ Seed \in Table /\ Sound(Seed) /\ Entries(Seed) = {info} \ {Free}
      /\ Free \notin Entry
  BY SeedSound, FreeIsNone DEF TypeOK
<1>1. CASE PowerOn
  BY <1>1 DEF PowerOn, TypeOK, TableSound, JobSound, Forgetful, Remembering, Unloaded
<1>2. CASE PowerLoss
  BY <1>0, <1>2 DEF PowerLoss, Trouble, NoJob, TypeOK, TableSound, JobSound,
     Forgetful, Remembering, Unloaded
<1>3. CASE LoadInfo
  <2>1. TypeOK'
    BY <1>0, <1>3 DEF LoadInfo, Trouble, WriteInfo, InfoWritten, InfoUnwritten, TypeOK
  <2>2. TableSound'
    BY <1>0, <1>3 DEF LoadInfo, Trouble, WriteInfo, InfoWritten, InfoUnwritten,
       TableSound, TypeOK
  <2>3. JobSound'
    BY <1>0, <1>3 DEF LoadInfo, Trouble, WriteInfo, InfoWritten, InfoUnwritten,
       JobSound, TypeOK
  <2>4. Forgetful'
    BY <1>0, <1>3 DEF LoadInfo, Trouble, WriteInfo, InfoWritten, InfoUnwritten,
       Forgetful, TypeOK, TableSound, JobSound
  <2>5. Remembering'
    BY <1>0, <1>3 DEF LoadInfo, Trouble, WriteInfo, InfoWritten, InfoUnwritten,
       Remembering, TypeOK, TableSound, JobSound
  <2>6. Unloaded'
    BY <1>0, <1>3 DEF LoadInfo, Trouble, WriteInfo, InfoWritten, InfoUnwritten,
       Unloaded, JobSound
  <2> QED BY <2>1, <2>2, <2>3, <2>4, <2>5, <2>6
<1>4. CASE RewriteInfo
  <2>1. TypeOK'
    BY <1>0, <1>4 DEF RewriteInfo, Trouble, WriteInfo, InfoWritten, InfoUnwritten,
       TypeOK
  <2>2. TableSound'
    BY <1>0, <1>4 DEF RewriteInfo, Trouble, WriteInfo, InfoWritten, InfoUnwritten,
       TableSound, TypeOK
  <2>3. JobSound'
    BY <1>0, <1>4 DEF RewriteInfo, Trouble, WriteInfo, InfoWritten, InfoUnwritten,
       JobSound, TypeOK
  <2>4. Forgetful'
    BY <1>0, <1>4 DEF RewriteInfo, Trouble, WriteInfo, InfoWritten, InfoUnwritten,
       Forgetful, TypeOK, TableSound, JobSound
  <2> ~torn' => ~torn /\ finfo'.kind # "none"
    BY <1>4, Zenon DEF RewriteInfo
  <2>5. Remembering'
    BY <1>0, <1>4 DEF RewriteInfo, Trouble, WriteInfo, InfoWritten, InfoUnwritten,
       Remembering, TypeOK, TableSound, JobSound
  <2>6. Unloaded'
    BY <1>0, <1>4 DEF RewriteInfo, Trouble, WriteInfo, InfoWritten, InfoUnwritten,
       Unloaded, JobSound
  <2> QED BY <2>1, <2>2, <2>3, <2>4, <2>5, <2>6
<1>5. CASE LoadNets
  <2>1. TypeOK'
    BY <1>0, <1>5 DEF LoadNets, Trouble, Written, Unwritten, TypeOK
  <2>2. TableSound'
    BY <1>0, <1>5 DEF LoadNets, Trouble, Written, Unwritten, TableSound, TypeOK
  <2>3. JobSound'
    BY <1>0, <1>5 DEF LoadNets, Trouble, Written, Unwritten, JobSound, TypeOK
  <2>4. Forgetful'
    BY <1>0, <1>5 DEF LoadNets, Trouble, Written, Unwritten, Forgetful, TypeOK,
       TableSound, JobSound
  <2> ~torn' => ~torn
    BY <1>5, Zenon DEF LoadNets
  <2>5. Remembering'
    BY <1>0, <1>5 DEF LoadNets, Trouble, Written, Unwritten, Remembering, TypeOK,
       TableSound, JobSound
  <2>6. Unloaded'
    BY <1>0, <1>5 DEF LoadNets, Trouble, Written, Unwritten, Unloaded, JobSound
  <2> QED BY <2>1, <2>2, <2>3, <2>4, <2>5, <2>6
<1> QED BY <1>1, <1>2, <1>3, <1>4, <1>5

\* The commands: an insertion or a removal, with what the flash makes of it.
LEMMA KeptByCommands ==
  ASSUME Invariance,
         \/ \E e \in Entry : SetWifi(e)
         \/ SetWifiOther \/ Upsert \/ StoreInfo \/ Join \/ NetworkReset
         \/ \E s \in Ssids \cup {NoNet} : Forget(s)
  PROVE  Invariance'
<1> USE DEF Invariance, hist
<1>0. Free \notin Entry /\ NoJob.do = "none" /\ NoJob \in [do : {"none", "upsert", "info"}, net : Entry \cup {Free}]
  BY FreeIsNone DEF NoJob
<1>1. ASSUME NEW e \in Entry, SetWifi(e) PROVE Invariance'
  <2>1. TypeOK'
    BY <1>0, <1>1 DEF SetWifi, Command, TypeOK
  <2>2. TableSound'
    BY <1>0, <1>1 DEF SetWifi, Command, TableSound, TypeOK
  <2>3. JobSound'
    BY <1>0, <1>1 DEF SetWifi, Command, JobSound, TypeOK
  <2>4. Forgetful'
    BY <1>0, <1>1 DEF SetWifi, Command, Forgetful, TypeOK, TableSound, JobSound
  <2>5. Remembering'
    BY <1>0, <1>1 DEF SetWifi, Command, Remembering, TypeOK, TableSound, JobSound
  <2>6. Unloaded'
    BY <1>0, <1>1 DEF SetWifi, Command, Unloaded, JobSound
  <2> QED BY <2>1, <2>2, <2>3, <2>4, <2>5, <2>6
<1>2. ASSUME SetWifiOther PROVE Invariance'
  <2> ~leak' => ~leak /\ run.ssid \notin dead
    BY <1>2, Zenon DEF SetWifiOther
  <2>1. TypeOK'
    BY <1>0, <1>2 DEF SetWifiOther, Command, TypeOK
  <2>2. TableSound'
    BY <1>0, <1>2 DEF SetWifiOther, Command, TableSound, TypeOK
  <2>3. JobSound'
    BY <1>0, <1>2 DEF SetWifiOther, Command, JobSound, TypeOK
  <2>4. Forgetful'
    BY <1>0, <1>2 DEF SetWifiOther, Command, Forgetful, TypeOK, TableSound, JobSound
  <2>5. Remembering'
    BY <1>0, <1>2 DEF SetWifiOther, Command, Remembering, TypeOK, TableSound, JobSound
  <2>6. Unloaded'
    BY <1>0, <1>2 DEF SetWifiOther, Command, Unloaded, JobSound
  <2> QED BY <2>1, <2>2, <2>3, <2>4, <2>5, <2>6
<1>3. ASSUME Upsert PROVE Invariance'
  <2>0. /\ Upserted(nets, job.net) \in Table /\ Sound(Upserted(nets, job.net))
        /\ job.net \in Entries(Upserted(nets, job.net))
        /\ Entries(Upserted(nets, job.net)) \subseteq Entries(nets) \cup {job.net}
    BY <1>3, UpsertedSound DEF Upsert, TypeOK, TableSound, JobSound
  <2>1. TypeOK'
    BY <1>0, <1>3, <2>0 DEF Upsert, Trouble, Written, Unwritten, TypeOK
  <2>2. TableSound'
    BY <1>0, <1>3, <2>0 DEF Upsert, Trouble, Written, Unwritten, TableSound, TypeOK
  <2>3. JobSound'
    BY <1>0, <1>3, <2>0 DEF Upsert, Trouble, Written, Unwritten, JobSound, TypeOK
  <2>4. Forgetful'
    BY <1>0, <1>3, <2>0 DEF Upsert, Trouble, Written, Unwritten, Forgetful, TypeOK,
       TableSound, JobSound
  <2>5. Remembering'
    BY <1>0, <1>3, <2>0 DEF Upsert, Trouble, Written, Unwritten, Remembering, TypeOK,
       TableSound, JobSound
  <2>6. Unloaded'
    BY <1>0, <1>3, <2>0 DEF Upsert, Trouble, Written, Unwritten, Unloaded, JobSound
  <2> QED BY <2>1, <2>2, <2>3, <2>4, <2>5, <2>6
<1>4. ASSUME StoreInfo PROVE Invariance'
  <2>1. TypeOK'
    <3>1. job.net \in Entry \cup {Free}
      BY DEF TypeOK
    <3>2. finfo' = [kind |-> "new", net |-> job.net] \/ finfo' = finfo
      BY <1>4, Zenon DEF StoreInfo, WriteInfo, InfoWritten, InfoUnwritten
    <3>3. finfo' \in [kind : {"none", "old", "new"}, net : Entry \cup {Free}]
      BY <3>1, <3>2 DEF TypeOK
    <3> QED BY <1>0, <1>4, <3>1, <3>3 DEF StoreInfo, TypeOK
  <2>2. TableSound'
    BY <1>0, <1>4 DEF StoreInfo, Trouble, WriteInfo, InfoWritten, InfoUnwritten,
       TableSound, TypeOK
  <2>3. JobSound'
    BY <1>0, <1>4 DEF StoreInfo, Trouble, WriteInfo, InfoWritten, InfoUnwritten,
       JobSound, TypeOK
  <2>4. Forgetful'
    BY <1>0, <1>4 DEF StoreInfo, Trouble, WriteInfo, InfoWritten, InfoUnwritten,
       Forgetful, TypeOK, TableSound, JobSound
  <2>5. Remembering'
    BY <1>0, <1>4 DEF StoreInfo, Trouble, WriteInfo, InfoWritten, InfoUnwritten,
       Remembering, TypeOK, TableSound, JobSound
  <2>6. Unloaded'
    BY <1>0, <1>4 DEF StoreInfo, Trouble, WriteInfo, InfoWritten, InfoUnwritten,
       Unloaded, JobSound
  <2> QED BY <2>1, <2>2, <2>3, <2>4, <2>5, <2>6
<1>5. ASSUME Join PROVE Invariance'
  <2>1. TypeOK'
    <3>1. run' \in Entry
      BY <1>5 DEF Join, TypeOK, Entries, Table
    <3> QED BY <1>5, <3>1, Zenon DEF Join, TypeOK
  <2>2. TableSound'
    BY <1>0, <1>5 DEF Join, TableSound, TypeOK
  <2>3. JobSound'
    BY <1>0, <1>5 DEF Join, JobSound, TypeOK
  <2>4. Forgetful'
    BY <1>0, <1>5 DEF Join, Forgetful, TypeOK, TableSound, JobSound
  <2>5. Remembering'
    BY <1>0, <1>5 DEF Join, Remembering, TypeOK, TableSound, JobSound
  <2>6. Unloaded'
    BY <1>0, <1>5 DEF Join, Unloaded, JobSound
  <2> QED BY <2>1, <2>2, <2>3, <2>4, <2>5, <2>6
<1>6. ASSUME NetworkReset PROVE Invariance'
  <2>1. TypeOK'
    BY <1>0, <1>6 DEF NetworkReset, Trouble, InfoWritten, InfoUnwritten, TypeOK
  <2>2. TableSound'
    BY <1>0, <1>6 DEF NetworkReset, Trouble, InfoWritten, InfoUnwritten, TableSound,
       TypeOK
  <2>3. JobSound'
    BY <1>0, <1>6 DEF NetworkReset, Trouble, InfoWritten, InfoUnwritten, JobSound,
       TypeOK
  <2>4. Forgetful'
    BY <1>0, <1>6 DEF NetworkReset, Trouble, InfoWritten, InfoUnwritten, Forgetful,
       TypeOK, TableSound, JobSound
  <2>5. Remembering'
    BY <1>0, <1>6 DEF NetworkReset, Trouble, InfoWritten, InfoUnwritten, Remembering,
       TypeOK, TableSound, JobSound
  <2>6. Unloaded'
    BY <1>0, <1>6 DEF NetworkReset, Trouble, InfoWritten, InfoUnwritten, Unloaded,
       JobSound
  <2> QED BY <2>1, <2>2, <2>3, <2>4, <2>5, <2>6
<1>7. ASSUME NEW s \in Ssids \cup {NoNet}, Forget(s) PROVE Invariance'
  <2>0. /\ Forgotten(nets, s) \in Table /\ Sound(Forgotten(nets, s))
        /\ Entries(Forgotten(nets, s)) = {e \in Entries(nets) : e.ssid # s}
        /\ At(nets, s) = {} => Forgotten(nets, s) = nets
    BY ForgottenSound, Zenon DEF TypeOK, TableSound, Forgotten
  <2>1. TypeOK'
    BY <1>0, <1>7, <2>0 DEF Forget, Command, Trouble, Written, Unwritten, TypeOK
  <2>2. TableSound'
    BY <1>0, <1>7, <2>0 DEF Forget, Command, Trouble, Written, Unwritten, TableSound,
       TypeOK
  <2>3. JobSound'
    BY <1>0, <1>7, <2>0 DEF Forget, Command, Trouble, Written, Unwritten, JobSound,
       TypeOK
  <2>4. Forgetful'
    BY <1>0, <1>7, <2>0 DEF Forget, Command, Trouble, Written, Unwritten, Forgetful,
       TypeOK, TableSound, JobSound
  <2>5. Remembering'
    BY <1>0, <1>7, <2>0 DEF Forget, Command, Trouble, Written, Unwritten, Remembering,
       TypeOK, TableSound, JobSound
  <2>6. Unloaded'
    BY <1>0, <1>7, <2>0 DEF Forget, Command, Trouble, Written, Unwritten, Unloaded,
       JobSound
  <2> QED BY <2>1, <2>2, <2>3, <2>4, <2>5, <2>6
<1> QED BY <1>1, <1>2, <1>3, <1>4, <1>5, <1>6, <1>7

\* Every step keeps it.
LEMMA StepInvariance == ASSUME Invariance, [Next]_vars PROVE Invariance'
<1>1. CASE Next
  BY <1>1, KeptByLoading, KeptByCommands, Zenon DEF Next
<1>2. CASE UNCHANGED vars
  BY <1>2 DEF vars, Invariance, TypeOK, TableSound, JobSound, Forgetful, Remembering,
     Unloaded
<1> QED BY <1>1, <1>2

\* It holds in every behaviour.
LEMMA AlwaysInvariance == Spec => []Invariance
<1> QED BY InitInvariance, StepInvariance, PTL DEF Spec

-----------------------------------------------------------------------------
(* The properties.                                                         *)

\* Every variable keeps its type.
THEOREM TypeCorrect == Spec => []TypeOK
<1> QED BY AlwaysInvariance, PTL DEF Invariance

\* In RAM and in flash no network is in the table twice, and the free slots
\* stay at the end, which the search of ps_upsert_saved_net relies on.
THEOREM SoundTables == Spec => []TableSound
<1> QED BY AlwaysInvariance, PTL DEF Invariance

\* A forgotten network stays forgotten over restarts, as long as no write
\* failed and no set_wifi copied it back.
THEOREM StaysForgotten == Spec => []ForgottenStays
<1>1. Invariance => ForgottenStays
  BY DEF Invariance, Forgetful, ForgottenStays, TypeOK
<1> QED BY <1>1, AlwaysInvariance, PTL

\* A network the flash took is there after every restart, unless the
\* migration was torn or the table could not be read.
THEOREM StaysKnown == Spec => []KnownStays
<1>1. Invariance => KnownStays
  BY DEF Invariance, Remembering, KnownStays
<1> QED BY <1>1, AlwaysInvariance, PTL

-----------------------------------------------------------------------------
(* The refinement: what the slots promise.                                 *)

Kept == AsStore(IF blob = NoTable THEN Blank ELSE blob)

\* A sound table is a function from its networks to their passwords.
LEMMA StoreOfTable ==
  ASSUME NEW t \in Table, Sound(t)
  PROVE  /\ AsStore(t) = [n \in {e.ssid : e \in Entries(t)} |-> AsStore(t)[n]]
         /\ DOMAIN AsStore(t) = {e.ssid : e \in Entries(t)}
         /\ \A e \in Entries(t) : AsStore(t)[e.ssid] = e.pw
<1>1. DOMAIN AsStore(t) = {e.ssid : e \in Entries(t)}
  BY Zenon DEF AsStore
<1>2. ASSUME NEW j \in Index, t[j] # Free
      PROVE  AsStore(t)[t[j].ssid] = t[j].pw
  <2>1. t[j].ssid # NoNet
    BY <1>2 DEF Table, Entry
  <2>2. At(t, t[j].ssid) = {j}
    BY <2>1 DEF At, Sound
  <2>3. First(At(t, t[j].ssid)) = j
    BY <2>2, FirstIsLeast
  <2>4. t[j].ssid \in {e.ssid : e \in Entries(t)}
    BY <1>2 DEF Entries
  <2> QED BY <2>3, <2>4 DEF AsStore
<1>3. \A e \in Entries(t) : AsStore(t)[e.ssid] = e.pw
  BY <1>2, Zenon DEF Entries
<1> QED BY <1>1, <1>3, Zenon DEF AsStore

\* A table without one network.
LEMMA StoreWithout ==
  ASSUME NEW t \in Table, Sound(t), NEW u \in Table, Sound(u), NEW s,
         Entries(u) = {e \in Entries(t) : e.ssid # s}
  PROVE  AsStore(u) = Store!Only(AsStore(t), Ssids \ {s})
<1>a. /\ DOMAIN AsStore(t) = {e.ssid : e \in Entries(t)}
      /\ \A e \in Entries(t) : AsStore(t)[e.ssid] = e.pw
  BY StoreOfTable, Zenon
<1>b. /\ DOMAIN AsStore(u) = {e.ssid : e \in Entries(u)}
      /\ \A e \in Entries(u) : AsStore(u)[e.ssid] = e.pw
  BY StoreOfTable, Zenon
<1> DEFINE o == Store!Only(AsStore(t), Ssids \ {s})
<1>1. o = [n \in DOMAIN AsStore(t) \cap (Ssids \ {s}) |-> AsStore(t)[n]]
  BY DEF Store!Only
<1>2. \A e \in Entries(t) : e.ssid \in Ssids
  BY DEF Entries, Table, Entry
<1>3. DOMAIN AsStore(u) = DOMAIN AsStore(t) \cap (Ssids \ {s})
  BY <1>2, <1>a, <1>b
<1>4. \A n \in DOMAIN AsStore(u) : AsStore(u)[n] = AsStore(t)[n]
  BY <1>a, <1>b
<1>5. AsStore(u) = [n \in DOMAIN AsStore(u) |-> AsStore(u)[n]]
  BY StoreOfTable
<1> QED BY <1>1, <1>3, <1>4, <1>5

\* A table with one network more, or with another password for it.
LEMMA StoreWith ==
  ASSUME NEW t \in Table, Sound(t), NEW u \in Table, Sound(u), NEW e \in Entry,
         Entries(u) = {x \in Entries(t) : x.ssid # e.ssid} \cup {e}
  PROVE  AsStore(u) = Store!With(AsStore(t), e.ssid, e.pw)
<1>a. /\ DOMAIN AsStore(t) = {x.ssid : x \in Entries(t)}
      /\ \A x \in Entries(t) : AsStore(t)[x.ssid] = x.pw
  BY StoreOfTable, Zenon
<1>b. /\ DOMAIN AsStore(u) = {x.ssid : x \in Entries(u)}
      /\ \A x \in Entries(u) : AsStore(u)[x.ssid] = x.pw
  BY StoreOfTable, Zenon
<1>1. DOMAIN AsStore(u) = DOMAIN AsStore(t) \cup {e.ssid}
  BY <1>a, <1>b
<1>2. \A n \in DOMAIN AsStore(u) :
        AsStore(u)[n] = IF n = e.ssid THEN e.pw ELSE AsStore(t)[n]
  <2>1. SUFFICES ASSUME NEW x \in Entries(u)
                 PROVE  AsStore(u)[x.ssid] = IF x.ssid = e.ssid THEN e.pw ELSE AsStore(t)[x.ssid]
    BY <1>b, Zenon
  <2>2. CASE x = e
    BY <2>2, <1>b
  <2>3. CASE x # e
    BY <2>3, <1>a, <1>b
  <2> QED BY <2>2, <2>3
<1>3. AsStore(u) = [n \in DOMAIN AsStore(u) |-> AsStore(u)[n]]
  BY StoreOfTable
<1> QED BY <1>1, <1>2, <1>3 DEF Store!With

\* An empty table knows nothing.
LEMMA StoreOfBlank == AsStore(Blank) = Store!Nothing /\ DOMAIN AsStore(Blank) = {}
<1>1. Blank \in Table /\ Sound(Blank) /\ Entries(Blank) = {}
  BY DEF Blank, Table, Sound, Free, Entries
<1>2. DOMAIN AsStore(Blank) = {} /\ AsStore(Blank) = [n \in {} |-> AsStore(Blank)[n]]
  BY <1>1, StoreOfTable
<1> QED BY <1>2 DEF Store!Nothing

\* A table never knows more networks than it has slots; a full one knows as many.
LEMMA StoreSize ==
  ASSUME NEW t \in Table, Sound(t)
  PROVE  /\ Cardinality(DOMAIN AsStore(t)) <= Slots
         /\ At(t, NoNet) = {} => Cardinality(DOMAIN AsStore(t)) = Slots
<1> DEFINE used == {i \in Index : t[i] # Free}
           D == DOMAIN AsStore(t)
           f == [i \in used |-> t[i].ssid]
<1>1. D = {e.ssid : e \in Entries(t)}
  BY StoreOfTable, Zenon
<1>2. \A i \in used : t[i].ssid # NoNet /\ t[i] \in Entries(t)
  BY DEF Table, Entry, Entries
<1>3. f \in Surjection(used, D)
  <2>1. \A i \in used : t[i].ssid \in D
    BY <1>1, <1>2, Zenon
  <2>2. \A n \in D : \E i \in used : t[i].ssid = n
    BY <1>1, Zenon DEF Entries
  <2> QED BY <2>1, <2>2 DEF Surjection
<1>4. f \in Injection(used, D)
  <2>1. \A i, j \in used : f[i] = f[j] => i = j
    BY <1>2 DEF Sound
  <2> QED BY <1>3, <2>1 DEF Surjection, Injection, IsInjective
<1>5. IsFiniteSet(Index) /\ Cardinality(Index) = Slots
  BY FS_Interval DEF Index
<1>6. /\ IsFiniteSet(used) /\ Cardinality(used) <= Slots
  BY <1>5, FS_Subset
<1>7. Cardinality(D) = Cardinality(used)
  BY <1>3, <1>4, <1>6, FS_Surjection, Zenon
<1>8. At(t, NoNet) = {} => used = Index
  BY DEF At, Free
<1> QED BY <1>5, <1>6, <1>7, <1>8

\* An insertion learns the network; one that evicts does so from a full table.
LEMMA UpsertLearns ==
  ASSUME NEW t \in Table, Sound(t), NEW e \in Entry
  PROVE  LET f == AsStore(t)  g == AsStore(Upserted(t, e)) IN
         \/ g = Store!With(f, e.ssid, e.pw)
         \/ /\ Cardinality(DOMAIN f) = Slots /\ e.ssid \notin DOMAIN f
            /\ \E old \in DOMAIN f :
                 g = Store!With(Store!Only(f, Ssids \ {old}), e.ssid, e.pw)
<1> DEFINE u == Upserted(t, e)  k == Slot(t, e.ssid)
<1>1. k \in Index /\ u \in Table /\ Sound(u)
  BY SlotInTable, UpsertedSound, Zenon
<1>2. \A i \in Index : u[i] = IF i = k THEN e ELSE t[i]
  BY <1>1 DEF Upserted, Table
<1>3. e # Free /\ e.ssid # NoNet
  BY DEF Entry, Free
<1>4. ASSUME t[k] = Free \/ t[k].ssid = e.ssid, \A i \in Index : t[i].ssid = e.ssid => i = k
      PROVE  Entries(u) = {x \in Entries(t) : x.ssid # e.ssid} \cup {e}
  <2> HIDE DEF u, k
  <2> QED BY <1>1, <1>2, <1>3, <1>4 DEF Entries
<1>5. CASE At(t, e.ssid) # {}
  <2>1. t[k].ssid = e.ssid /\ \A i \in Index : t[i].ssid = e.ssid => i = k
    BY <1>3, <1>5, SlotInTable DEF At, Sound
  <2>2. Entries(u) = {x \in Entries(t) : x.ssid # e.ssid} \cup {e}
    BY <1>4, <2>1
  <2> QED BY <1>1, <2>2, StoreWith, Zenon
<1>6. CASE At(t, e.ssid) = {} /\ At(t, NoNet) # {}
  <2>1. t[k].ssid = NoNet
    BY <1>6, SlotInTable, Zenon
  <2>2. t[k] = Free
    BY <1>1, <2>1 DEF Table, Entry
  <2>3. \A i \in Index : t[i].ssid = e.ssid => i = k
    BY <1>6 DEF At
  <2>4. Entries(u) = {x \in Entries(t) : x.ssid # e.ssid} \cup {e}
    BY <1>4, <2>2, <2>3
  <2> QED BY <1>1, <2>4, StoreWith, Zenon
<1>7. CASE At(t, e.ssid) = {} /\ At(t, NoNet) = {}
  <2> DEFINE old == t[Slots].ssid  m == Forgotten(t, old)
  <2>1. k = Slots /\ t[k] \in Entries(t) /\ old # NoNet
    BY <1>1, <1>7, SlotInTable DEF At, Entries, Free
  <2>2. m \in Table /\ Sound(m) /\ Entries(m) = {x \in Entries(t) : x.ssid # old}
    BY ForgottenSound, Zenon
  <2>3. \A x \in Entries(t) : x.ssid # e.ssid
    BY <1>7 DEF At, Entries
  <2>4. \A i \in Index : t[i].ssid = old => i = k
    BY <1>1, <2>1 DEF Sound, Index
  <2>5. Entries(u) = {x \in Entries(m) : x.ssid # e.ssid} \cup {e}
    <3> HIDE DEF u, k, m
    <3>1. \A i \in Index : t[i] # Free
      BY <1>7 DEF At, Free
    <3>2. Entries(u) = {t[i] : i \in Index \ {k}} \cup {e}
      BY <1>1, <1>2, <1>3, <3>1 DEF Entries
    <3>3. Entries(m) = {t[i] : i \in Index \ {k}}
      BY <1>1, <2>1, <2>2, <2>4, <3>1 DEF Entries
    <3> QED BY <2>2, <2>3, <3>2, <3>3
  <2>6. AsStore(m) = Store!Only(AsStore(t), Ssids \ {old})
    BY <2>2, StoreWithout, Zenon
  <2>7. AsStore(u) = Store!With(AsStore(m), e.ssid, e.pw)
    BY <1>1, <2>2, <2>5, StoreWith, Zenon
  <2>8. old \in DOMAIN AsStore(t) /\ e.ssid \notin DOMAIN AsStore(t)
    <3>1. DOMAIN AsStore(t) = {x.ssid : x \in Entries(t)}
      BY StoreOfTable, Zenon
    <3> QED BY <2>1, <2>3, <3>1
  <2>9. Cardinality(DOMAIN AsStore(t)) = Slots
    BY <1>7, StoreSize, Zenon
  <2> QED BY <2>6, <2>7, <2>8, <2>9, Zenon
<1> QED BY <1>5, <1>6, <1>7

\* Both modules count with the same operator.
LEMMA SameCount == \A S : Store!Cardinality(S) = Cardinality(S)
BY Zenon DEF Cardinality, Store!Cardinality

\* Every step is a step of the store or changes nothing of it.
LEMMA StepImplements ==
  ASSUME Invariance, Invariance', [Next]_vars
  PROVE  [Store!Next]_(Store!vars)
<1> USE DEF Invariance, TypeOK, TableSound, hist, ram
<1> DEFINE known == AsStore(nets)
           kept == AsStore(IF blob = NoTable THEN Blank ELSE blob)
<1>0. CASE nets' = nets /\ blob' = blob
  BY <1>0 DEF Store!vars, AsStore, Entries
<1>1. CASE PowerOn \/ LoadInfo \/ RewriteInfo \/ (\E e \in Entry : SetWifi(e)) \/ SetWifiOther
           \/ StoreInfo \/ Join \/ NetworkReset \/ UNCHANGED vars
  <2>1. nets' = nets /\ blob' = blob
    BY <1>1, Zenon DEF PowerOn, LoadInfo, RewriteInfo, SetWifi, SetWifiOther,
       StoreInfo, Join, NetworkReset, vars
  <2> QED BY <1>0, <2>1
<1>a. ASSUME known = Store!Nothing, kept' = known' \/ kept' = kept,
             \/ known' = Store!Nothing
             \/ \E n \in Ssids, k \in Pws : known' = Store!With(Store!Nothing, n, k)
      PROVE  Store!Next
  <2>1. known' \in {Store!Nothing} \cup {Store!With(Store!Nothing, n, k) : n \in Ssids, k \in Pws}
    <3> HIDE DEF known
    <3> QED BY <1>a
  <2>2. Store!Write
    BY <1>a, Zenon DEF Store!Write
  <2>3. Store!On
    BY ONLY <1>a, <2>1, <2>2 DEF Store!On, known, kept
  <2> QED BY <2>3, Zenon DEF Store!Next
<1>2. CASE PowerLoss
  <2>1. known' = Store!Nothing /\ kept' = kept
    BY <1>2, StoreOfBlank, Zenon DEF PowerLoss
  <2> QED BY <2>1, Zenon DEF Store!Next, Store!Off
<1>3. CASE LoadNets
  <2>1. known = Store!Nothing
    BY <1>3, StoreOfBlank, Zenon DEF LoadNets, Unloaded
  <2>2. CASE nets' = blob /\ blob # NoTable /\ blob' = blob
    <3>1. known' = kept /\ kept' = kept
      BY <2>2, Zenon
    <3>2. Store!On
      BY ONLY <2>1, <3>1 DEF Store!On, known, kept
    <3> QED BY <3>2, Zenon DEF Store!Next
  <2>3. CASE nets' = Seed /\ (blob' = Seed \/ blob' = blob)
    <3>1. Seed \in Table /\ Sound(Seed) /\ Blank \in Table /\ Sound(Blank) /\ Entries(Blank) = {}
      BY SeedSound
    <3>2. kept' = known' \/ kept' = kept
      BY <2>3, <3>1, Zenon DEF NoTableIsNone
    <3>3. CASE info = Free
      <4>1. known' = Store!Nothing
        BY <2>3, <3>3, StoreOfBlank, Zenon DEF Seed
      <4> QED BY ONLY <1>a, <2>1, <3>2, <4>1, Zenon
    <3>4. CASE info # Free
      <4>1. info \in Entry /\ Entries(Seed) = {x \in Entries(Blank) : x.ssid # info.ssid} \cup {info}
        BY <3>1, <3>4, SeedSound
      <4>2. AsStore(Seed) = Store!With(AsStore(Blank), info.ssid, info.pw)
        BY <3>1, <4>1, StoreWith
      <4>3. known' = Store!With(Store!Nothing, info.ssid, info.pw)
        BY <2>3, <4>2, StoreOfBlank, Zenon
      <4>4. info.ssid \in Ssids /\ info.pw \in Pws
        BY <4>1 DEF Entry
      <4> QED BY <1>a, <2>1, <3>2, <4>3, <4>4, Zenon
    <3> QED BY <3>3, <3>4
  <2> QED BY <1>3, <2>2, <2>3, Zenon DEF LoadNets, Written, Unwritten
<1>4. CASE Upsert
  <2>1. job.net \in Entry /\ job.net.ssid \in Ssids /\ job.net.pw \in Pws
    BY <1>4 DEF Upsert, JobSound, Entry
  <2>2. nets' = Upserted(nets, job.net) /\ (blob' = nets' \/ blob' = blob)
    BY <1>4, Zenon DEF Upsert, Written, Unwritten
  <2>3. kept' = known' \/ kept' = kept
    BY <2>2, Zenon DEF NoTableIsNone
  <2>4. Cardinality(DOMAIN known') <= Slots
    BY <2>1, <2>2, UpsertedSound, StoreSize, Zenon
  <2>5. \/ known' = Store!With(known, job.net.ssid, job.net.pw)
        \/ /\ Cardinality(DOMAIN known) = Slots /\ job.net.ssid \notin DOMAIN known
           /\ \E old \in DOMAIN known :
                known' = Store!With(Store!Only(known, Ssids \ {old}), job.net.ssid, job.net.pw)
    BY <2>1, <2>2, UpsertLearns, Zenon
  <2>6. Store!Learn(job.net.ssid, job.net.pw)
    BY ONLY <2>3, <2>4, <2>5, SameCount DEF Store!Learn, Store!Write, known, kept
  <2> QED BY <2>1, <2>6, Zenon DEF Store!Next
<1>5. ASSUME NEW s \in Ssids \cup {NoNet}, Forget(s)
      PROVE  Store!Next
  <2> DEFINE u == Forgotten(nets, s)
  <2>1. u \in Table /\ Sound(u) /\ Entries(u) = {x \in Entries(nets) : x.ssid # s}
    BY ForgottenSound, Zenon
  <2>2. nets' = u /\ (blob' = nets' \/ blob' = blob)
    BY <1>5, Zenon DEF Forget, Written, Unwritten
  <2>3. kept' = known' \/ kept' = kept
    BY <2>2, Zenon DEF NoTableIsNone
  <2>4. known' = Store!Only(known, Ssids \ {s})
    BY <2>1, <2>2, StoreWithout, Zenon
  <2>5. CASE s \in Ssids
    BY <2>3, <2>4, <2>5, Zenon DEF Store!Next, Store!Forget, Store!Write
  <2>6. CASE s = NoNet
    <3>1. Entries(u) = Entries(nets)
      BY <2>1, <2>6 DEF Entries, Table, Entry
    <3>2. known' = known
      <4>1. /\ known = [n \in {e.ssid : e \in Entries(nets)} |-> known[n]]
            /\ \A e \in Entries(nets) : known[e.ssid] = e.pw
        BY StoreOfTable, Zenon
      <4>2. /\ AsStore(u) = [n \in {e.ssid : e \in Entries(nets)} |-> AsStore(u)[n]]
            /\ \A e \in Entries(nets) : AsStore(u)[e.ssid] = e.pw
        BY <2>1, <3>1, StoreOfTable, Zenon
      <4>3. \A n \in {e.ssid : e \in Entries(nets)} : AsStore(u)[n] = known[n]
        BY <4>1, <4>2
      <4> HIDE DEF known, u
      <4>4. AsStore(u) = known
        BY <4>1, <4>2, <4>3
      <4> QED BY <2>2, <4>4 DEF known
    <3>3. CASE \E e \in Entries(nets) : TRUE
      <4>1. PICK e \in Entries(nets) : TRUE
        BY <3>3
      <4>2. /\ e.ssid \in DOMAIN known /\ known[e.ssid] = e.pw
            /\ known = [n \in DOMAIN known |-> known[n]]
        <5>1. /\ DOMAIN known = {x.ssid : x \in Entries(nets)}
              /\ \A x \in Entries(nets) : known[x.ssid] = x.pw
              /\ known = [n \in {x.ssid : x \in Entries(nets)} |-> known[n]]
          BY StoreOfTable, Zenon
        <5> HIDE DEF known
        <5> QED BY <5>1
      <4>3. e.ssid \in Ssids /\ e.pw \in Pws
        BY DEF Entries, Table, Entry
      <4>4. known' = Store!With(known, e.ssid, e.pw)
        <5> HIDE DEF known
        <5> QED BY <3>2, <4>2 DEF Store!With
      <4>5. Cardinality(DOMAIN known') <= Slots
        BY <3>2, StoreSize, Zenon
      <4>6. Store!Learn(e.ssid, e.pw)
        BY ONLY <2>3, <4>4, <4>5, SameCount DEF Store!Learn, Store!Write, known, kept
      <4> QED BY <4>3, <4>6, Zenon DEF Store!Next
    <3>4. CASE ~\E e \in Entries(nets) : TRUE
      <4>1. known = Store!Nothing
        <5>1. known = [n \in {e.ssid : e \in Entries(nets)} |-> known[n]]
          BY StoreOfTable, Zenon
        <5>2. {e.ssid : e \in Entries(nets)} = {}
          BY <3>4
        <5> HIDE DEF known
        <5> QED BY <5>1, <5>2 DEF Store!Nothing
      <4> QED BY <1>a, <2>3, <3>2, <4>1, Zenon
    <3> QED BY <3>3, <3>4
  <2> QED BY <2>5, <2>6
<1> QED BY <1>1, <1>2, <1>3, <1>4, <1>5, Zenon DEF Next

\* Slots, shifting and eviction implement a store of at most so many
\* networks that forgets none but the named one or, when it is full, one.
THEOREM StoreImplemented == Spec => ImplementsStore
<1>1. Init => Store!Init
  <2> SUFFICES ASSUME Init PROVE Store!Init
    OBVIOUS
  <2> QED BY StoreOfBlank, Zenon DEF Init, Store!Init
<1>2. Invariance /\ Invariance' /\ [Next]_vars => [Store!Next]_(Store!vars)
  BY StepImplements
<1> QED BY <1>1, <1>2, AlwaysInvariance, PTL DEF Spec, ImplementsStore, Store!Spec
=============================================================================
