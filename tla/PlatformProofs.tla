--------------------------- MODULE PlatformProofs ---------------------------
(***************************************************************************)
(* Theorems about the parts that the whole application rests on: its       *)
(* start (Startup), the registry of its plugins (PluginRegistry), and      *)
(* what it keeps for its users: notifications (Notifier), pictures         *)
(* (Pictures), uploads (Uploads) and the results of tasks (TaskResults),   *)
(* for every number of workers, plugins, requests, channels, files and     *)
(* attempts.                                                               *)
(***************************************************************************)
EXTENDS Startup, PluginRegistry, Notifier, Pictures, Uploads, TaskResults,
        SequenceTheorems, TLAPS

-----------------------------------------------------------------------------
(* Startup: tables and seed data.                                          *)

\* What a worker has seen to when it is at this point of create_tables.
Provided ==
  \A w \in Workers :
    /\ phase[w] \in {"check", "seed", "release", "serving"} => made
    /\ phase[w] \in {"release", "serving"} => seeded

\* Until something fails, the workers inside the lock own it, so that nobody
\* seeds between the look of one of them and its script; and no start fails.
Undisturbed ==
  ~mishap => \A w \in Workers :
    /\ phase[w] \in Inside => owner = w
    /\ phase[w] = "seed" => ~seeded
    /\ phase[w] # "exited"

StartInv == StartTypeOK /\ Provided /\ Undisturbed

LEMMA StartInvInit == StartInit => StartInv
<1> SUFFICES ASSUME StartInit PROVE StartInv OBVIOUS
<1>1. StartTypeOK BY StartupAssumption DEF StartInit, StartTypeOK
<1>2. Provided BY DEF StartInit, Provided
<1>3. Undisturbed
  <2>1. \A w \in Workers : phase[w] = "down" BY DEF StartInit
  <2> QED BY <2>1 DEF Undisturbed, Inside
<1> QED BY <1>1, <1>2, <1>3 DEF StartInv

\* Every step of a worker, and the lapse of its lock, keeps the types.
LEMMA StartTypesKept == StartInv /\ [StartNext]_startVars => StartTypeOK'
<1> SUFFICES ASSUME StartInv, [StartNext]_startVars PROVE StartTypeOK' OBVIOUS
<1> USE DEF StartInv, StartTypeOK
<1>1. ASSUME NEW w \in Workers, Boot(w) PROVE StartTypeOK'
  BY <1>1 DEF Boot, Goes
<1>2. ASSUME NEW w \in Workers, AcquireTables(w) PROVE StartTypeOK'
  BY <1>2 DEF AcquireTables, Goes
<1>3. ASSUME NEW w \in Workers, GiveUp(w) PROVE StartTypeOK'
  BY <1>3 DEF GiveUp, Goes
<1>4. ASSUME NEW w \in Workers, CreateAll(w) PROVE StartTypeOK'
  BY <1>4 DEF CreateAll, Goes
<1>5. ASSUME NEW w \in Workers, CheckSeeded(w) PROVE StartTypeOK'
  BY <1>5 DEF CheckSeeded, Goes
<1>6. ASSUME NEW w \in Workers, Seed(w) PROVE StartTypeOK'
  BY <1>6 DEF Seed, Goes, LeaveLock
<1>7. ASSUME NEW w \in Workers, ReleaseTables(w) PROVE StartTypeOK'
  BY <1>7 DEF ReleaseTables, Goes, LeaveLock
<1>8. ASSUME NEW w \in Workers, StartFails(w) PROVE StartTypeOK'
  BY <1>8 DEF StartFails, Goes, LeaveLock
<1>9. ASSUME NEW w \in Workers, Kill(w) PROVE StartTypeOK'
  BY <1>9 DEF Kill, Goes, Inside
<1>10. CASE LockLapses BY <1>10 DEF LockLapses
<1>11. CASE UNCHANGED startVars BY <1>11 DEF startVars
<1> QED
  BY <1>1, <1>2, <1>3, <1>4, <1>5, <1>6, <1>7, <1>8, <1>9, <1>10, <1>11 DEF StartNext

\* made and seeded never fall, and a worker that goes on has seen to them.
LEMMA ProvidedKept == StartInv /\ [StartNext]_startVars => Provided'
<1> SUFFICES ASSUME StartInv, [StartNext]_startVars PROVE Provided' OBVIOUS
<1> USE DEF StartInv, StartTypeOK, Provided, Goes
<1>1. ASSUME NEW w \in Workers, Boot(w) PROVE Provided' BY <1>1 DEF Boot
<1>2. ASSUME NEW w \in Workers, AcquireTables(w) PROVE Provided' BY <1>2 DEF AcquireTables
<1>3. ASSUME NEW w \in Workers, GiveUp(w) PROVE Provided' BY <1>3 DEF GiveUp
<1>4. ASSUME NEW w \in Workers, CreateAll(w) PROVE Provided' BY <1>4 DEF CreateAll
<1>5. ASSUME NEW w \in Workers, CheckSeeded(w) PROVE Provided' BY <1>5 DEF CheckSeeded
<1>6. ASSUME NEW w \in Workers, Seed(w) PROVE Provided' BY <1>6 DEF Seed
<1>7. ASSUME NEW w \in Workers, ReleaseTables(w) PROVE Provided' BY <1>7 DEF ReleaseTables
<1>8. ASSUME NEW w \in Workers, StartFails(w) PROVE Provided' BY <1>8 DEF StartFails
<1>9. ASSUME NEW w \in Workers, Kill(w) PROVE Provided' BY <1>9 DEF Kill
<1>10. CASE LockLapses BY <1>10 DEF LockLapses
<1>11. CASE UNCHANGED startVars BY <1>11 DEF startVars
<1> QED
  BY <1>1, <1>2, <1>3, <1>4, <1>5, <1>6, <1>7, <1>8, <1>9, <1>10, <1>11 DEF StartNext

\* Without a mishap the owner of the lock is the only one inside it.
LEMMA UndisturbedKept == StartInv /\ [StartNext]_startVars => Undisturbed'
<1> SUFFICES ASSUME StartInv, [StartNext]_startVars PROVE Undisturbed' OBVIOUS
<1> USE DEF StartInv, StartTypeOK, Undisturbed, Goes, Inside
<1>1. ASSUME NEW w \in Workers, Boot(w) PROVE Undisturbed' BY <1>1 DEF Boot
<1>2. ASSUME NEW w \in Workers, AcquireTables(w) PROVE Undisturbed'
  BY <1>2, StartupAssumption DEF AcquireTables
<1>3. ASSUME NEW w \in Workers, GiveUp(w) PROVE Undisturbed' BY <1>3 DEF GiveUp
<1>4. ASSUME NEW w \in Workers, CreateAll(w) PROVE Undisturbed' BY <1>4 DEF CreateAll
<1>5. ASSUME NEW w \in Workers, CheckSeeded(w) PROVE Undisturbed' BY <1>5 DEF CheckSeeded
<1>6. ASSUME NEW w \in Workers, Seed(w) PROVE Undisturbed' BY <1>6 DEF Seed, LeaveLock
<1>7. ASSUME NEW w \in Workers, ReleaseTables(w) PROVE Undisturbed'
  BY <1>7 DEF ReleaseTables, LeaveLock
<1>8. ASSUME NEW w \in Workers, StartFails(w) PROVE Undisturbed'
  BY <1>8 DEF StartFails, LeaveLock
<1>9. ASSUME NEW w \in Workers, Kill(w) PROVE Undisturbed' BY <1>9 DEF Kill
<1>10. CASE LockLapses BY <1>10 DEF LockLapses
<1>11. CASE UNCHANGED startVars BY <1>11 DEF startVars
<1> QED
  BY <1>1, <1>2, <1>3, <1>4, <1>5, <1>6, <1>7, <1>8, <1>9, <1>10, <1>11 DEF StartNext

LEMMA StartInvHolds == StartSpec => []StartInv
<1>1. StartInv /\ [StartNext]_startVars => StartInv'
  BY StartTypesKept, ProvidedKept, UndisturbedKept DEF StartInv
<1> QED BY StartInvInit, <1>1, PTL DEF StartSpec

\* create_tables and its seeding (database/db.py, database/seed.py): a worker
\* serves only over tables that exist and are seeded, whatever crashes and
\* whichever locks run out, and without a mishap every start succeeds.
THEOREM StartsSafelyHolds == StartSpec => []StartsSafely
<1>1. StartInv => StartsSafely
  BY DEF StartInv, Provided, Undisturbed, StartsSafely
<1> QED BY StartInvHolds, <1>1, PTL

-----------------------------------------------------------------------------
(* PluginRegistry: the types, and what an installation leaves behind.      *)

\* The types, and a plugin for every request that has arrived.
PluginTypes ==
  PluginTypeOK /\ \A o \in Operators : task[o] # "idle" => plugin[o] \in Plugins

LEMMA PluginTypesInit == PluginInit => PluginTypes
<1> SUFFICES ASSUME PluginInit PROVE PluginTypes OBVIOUS
<1> USE DEF PluginInit
<1>1. /\ dirs \subseteq Plugins /\ env \subseteq Plugins
      /\ info \in [Plugins \cup {Remote} -> Status]
      /\ loader \in [Loaders -> {"down", "clean", "delete", "next", "write", "up"}]
      /\ listed \in [Loaders -> SUBSET Plugins]
      /\ todo \in [Loaders -> SUBSET (Plugins \cup {Remote})]
      /\ kept \in [Loaders -> [name : Plugins \cup {Nil}, status : Status]]
  BY DEF Nothing, Status
<1>2. /\ task \in [Operators -> Inert \cup Switching \cup Uninstalling \cup Installing]
      /\ plugin \in [Operators -> Plugins \cup {Nil}]
      /\ copy \in [Operators -> Status] /\ envCopy \in [Operators -> SUBSET Plugins]
      /\ holder = Nil /\ latest = Nil /\ wanted \in [Plugins -> Status]
      /\ \A o \in Operators : task[o] = "idle"
  BY DEF Inert, Status
<1>3. /\ changed \in BOOLEAN /\ lockFile \in BOOLEAN /\ raced \in BOOLEAN
      /\ halfway \in BOOLEAN /\ outlasted \in BOOLEAN
  OBVIOUS
<1> QED BY <1>1, <1>2, <1>3 DEF PluginTypeOK, PluginTypes

\* Every step keeps the types.
LEMMA PluginTypesKept == PluginTypes /\ [PluginNext]_pluginVars => PluginTypes'
<1> SUFFICES ASSUME PluginTypes, [PluginNext]_pluginVars PROVE PluginTypes' OBVIOUS
<1> USE DEF PluginTypes, PluginTypeOK, Nothing, Status, Inert, Switching, Uninstalling,
   Installing, disk, boot, work, lockState, ghosts
<1>1. ASSUME NEW w \in Loaders, ListPlugins(w) PROVE PluginTypes'
  BY <1>1 DEF ListPlugins, Loads
<1>2. ASSUME NEW w \in Loaders, Scan(w) PROVE PluginTypes' BY <1>2 DEF Scan, Loads
<1>3. ASSUME NEW w \in Loaders, DeleteUnknown(w) PROVE PluginTypes'
  BY <1>3 DEF DeleteUnknown, Loads
<1>4. ASSUME NEW w \in Loaders, NEW p \in Plugins, ReadInfo(w, p) PROVE PluginTypes'
  BY <1>4 DEF ReadInfo, Loads, Remembered
<1>5. ASSUME NEW w \in Loaders, WriteInfo(w) PROVE PluginTypes'
  BY <1>5 DEF WriteInfo, Loads
<1>6. ASSUME NEW w \in Loaders, ClearChanged(w) PROVE PluginTypes'
  BY <1>6 DEF ClearChanged, Loads
<1>7. ASSUME NEW w \in Loaders, StopLoader(w) PROVE PluginTypes'
  BY <1>7 DEF StopLoader, Loads
<1>8. ASSUME NEW o \in Operators, NEW p \in Plugins, Ask(o, p) PROVE PluginTypes'
  BY <1>8 DEF Ask, Does
<1>9. ASSUME NEW o \in Operators, GetStatus(o) PROVE PluginTypes'
  BY <1>9 DEF GetStatus, Does
<1>10. ASSUME NEW o \in Operators, SetStatus(o) PROVE PluginTypes'
  BY <1>10 DEF SetStatus, Does, Flipped
<1>11. ASSUME NEW o \in Operators, SetRemote(o) PROVE PluginTypes'
  BY <1>11 DEF SetRemote, Does
<1>12. ASSUME NEW o \in Operators, RemovePackages(o) PROVE PluginTypes'
  BY <1>12 DEF RemovePackages, Does
<1>13. ASSUME NEW o \in Operators, MoveDir(o) PROVE PluginTypes'
  BY <1>13 DEF MoveDir, Does
<1>14. ASSUME NEW o \in Operators, DropInfo(o) PROVE PluginTypes'
  BY <1>14 DEF DropInfo, Does
<1>15. ASSUME NEW o \in Operators, MarkChanged(o, "mark", "done") PROVE PluginTypes'
  BY <1>15 DEF MarkChanged, Does
<1>16. ASSUME NEW o \in Operators, LookForDir(o) PROVE PluginTypes'
  BY <1>16 DEF LookForDir, Does
<1>17. ASSUME NEW o \in Operators, AcquireReload(o) PROVE PluginTypes'
  BY <1>17 DEF AcquireReload, Does
<1>18. ASSUME NEW o \in Operators, Place(o) PROVE PluginTypes' BY <1>18 DEF Place, Does
<1>19. ASSUME NEW o \in Operators, ReadEnv(o) PROVE PluginTypes'
  BY <1>19 DEF ReadEnv, Does
<1>20. ASSUME NEW o \in Operators, AppendEnv(o) PROVE PluginTypes'
  BY <1>20 DEF AppendEnv, Does
<1>21. ASSUME NEW o \in Operators, InstallPackages(o) PROVE PluginTypes'
  BY <1>21 DEF InstallPackages, Does
<1>22. ASSUME NEW o \in Operators, MarkChanged(o, "flag", "unlink") PROVE PluginTypes'
  BY <1>22 DEF MarkChanged, Does
<1>23. ASSUME NEW o \in Operators, Unlink(o, "unlink", "release") PROVE PluginTypes'
  BY <1>23 DEF Unlink, Does
<1>24. ASSUME NEW o \in Operators, ReleaseReload(o, "release", "installed")
       PROVE PluginTypes'
  BY <1>24 DEF ReleaseReload, Does
<1>25. ASSUME NEW o \in Operators, Unlink(o, "undo", "leave") PROVE PluginTypes'
  BY <1>25 DEF Unlink, Does
<1>26. ASSUME NEW o \in Operators, ReleaseReload(o, "leave", "failed") PROVE PluginTypes'
  BY <1>26 DEF ReleaseReload, Does
<1>27. CASE ReloadLapses BY <1>27 DEF ReloadLapses
<1>28. CASE UNCHANGED pluginVars BY <1>28 DEF pluginVars
<1> QED BY <1>1, <1>2, <1>3, <1>4, <1>5, <1>6, <1>7, <1>8, <1>9, <1>10, <1>11, <1>12,
      <1>13, <1>14, <1>15, <1>16, <1>17, <1>18, <1>19, <1>20, <1>21, <1>22, <1>23, <1>24,
      <1>25, <1>26, <1>27, <1>28 DEF PluginNext

\* PluginRegistry keeps its types.
THEOREM PluginTypesHold == PluginSpec => []PluginTypeOK
<1>1. PluginTypes => PluginTypeOK BY DEF PluginTypes
<1> QED BY PluginTypesInit, PluginTypesKept, <1>1, PTL DEF PluginSpec

-----------------------------------------------------------------------------
(* Installations.                                                          *)

\* Inside acquire_distributed_reload_lock.
Locked == {"place", "read", "append", "packages", "flag", "unlink", "release", "undo", "leave"}

\* While the lock holds, those inside own it: .env is what its reader read, the
\* lock file is there until its owner removes it, and no variable goes.
Shielded ==
  ~outlasted => \A o \in Operators :
    /\ task[o] \in Locked => holder = o
    /\ task[o] \in Locked \ {"release", "leave"} => lockFile
    /\ task[o] = "append" => envCopy[o] = env
    /\ task[o] \in {"packages", "flag", "unlink", "release", "installed"} => plugin[o] \in env

PluginInv == PluginTypes /\ Shielded

\* The lock passes from one installation to the next only when the first is out of it.
LEMMA ShieldKept == PluginInv /\ [PluginNext]_pluginVars => Shielded'
<1> SUFFICES ASSUME PluginInv, [PluginNext]_pluginVars PROVE Shielded' OBVIOUS
<1> USE DEF PluginInv, PluginTypes, PluginTypeOK, Shielded, Locked, disk, boot, work,
            lockState, ghosts
<1>1. ASSUME NEW w \in Loaders, ListPlugins(w) PROVE Shielded'
  BY <1>1 DEF ListPlugins, Loads
<1>2. ASSUME NEW w \in Loaders, Scan(w) PROVE Shielded' BY <1>2 DEF Scan, Loads
<1>3. ASSUME NEW w \in Loaders, DeleteUnknown(w) PROVE Shielded'
  BY <1>3 DEF DeleteUnknown, Loads
<1>4. ASSUME NEW w \in Loaders, NEW p \in Plugins, ReadInfo(w, p) PROVE Shielded'
  BY <1>4 DEF ReadInfo, Loads, Remembered
<1>5. ASSUME NEW w \in Loaders, WriteInfo(w) PROVE Shielded' BY <1>5 DEF WriteInfo, Loads
<1>6. ASSUME NEW w \in Loaders, ClearChanged(w) PROVE Shielded'
  BY <1>6 DEF ClearChanged, Loads
<1>7. ASSUME NEW w \in Loaders, StopLoader(w) PROVE Shielded'
  BY <1>7 DEF StopLoader, Loads
<1>8. ASSUME NEW o \in Operators, NEW p \in Plugins, Ask(o, p) PROVE Shielded'
  BY <1>8 DEF Ask, Does
<1>9. ASSUME NEW o \in Operators, GetStatus(o) PROVE Shielded' BY <1>9 DEF GetStatus, Does
<1>10. ASSUME NEW o \in Operators, SetStatus(o) PROVE Shielded'
  BY <1>10 DEF SetStatus, Does, Flipped
<1>11. ASSUME NEW o \in Operators, SetRemote(o) PROVE Shielded'
  BY <1>11 DEF SetRemote, Does
<1>12. ASSUME NEW o \in Operators, RemovePackages(o) PROVE Shielded'
  BY <1>12 DEF RemovePackages, Does
<1>13. ASSUME NEW o \in Operators, MoveDir(o) PROVE Shielded' BY <1>13 DEF MoveDir, Does
<1>14. ASSUME NEW o \in Operators, DropInfo(o) PROVE Shielded' BY <1>14 DEF DropInfo, Does
<1>15. ASSUME NEW o \in Operators, MarkChanged(o, "mark", "done") PROVE Shielded'
  BY <1>15 DEF MarkChanged, Does
<1>16. ASSUME NEW o \in Operators, LookForDir(o) PROVE Shielded'
  BY <1>16 DEF LookForDir, Does
<1>17. ASSUME NEW o \in Operators, AcquireReload(o) PROVE Shielded'
  BY <1>17, PluginRegistryAssumption DEF AcquireReload, Does
<1>18. ASSUME NEW o \in Operators, Place(o) PROVE Shielded' BY <1>18 DEF Place, Does
<1>19. ASSUME NEW o \in Operators, ReadEnv(o) PROVE Shielded' BY <1>19 DEF ReadEnv, Does
<1>20. ASSUME NEW o \in Operators, AppendEnv(o) PROVE Shielded'
  BY <1>20 DEF AppendEnv, Does
<1>21. ASSUME NEW o \in Operators, InstallPackages(o) PROVE Shielded'
  BY <1>21 DEF InstallPackages, Does
<1>22. ASSUME NEW o \in Operators, MarkChanged(o, "flag", "unlink") PROVE Shielded'
  BY <1>22 DEF MarkChanged, Does
<1>23. ASSUME NEW o \in Operators, Unlink(o, "unlink", "release") PROVE Shielded'
  BY <1>23 DEF Unlink, Does
<1>24. ASSUME NEW o \in Operators, ReleaseReload(o, "release", "installed") PROVE Shielded'
  BY <1>24 DEF ReleaseReload, Does
<1>25. ASSUME NEW o \in Operators, Unlink(o, "undo", "leave") PROVE Shielded'
  BY <1>25 DEF Unlink, Does
<1>26. ASSUME NEW o \in Operators, ReleaseReload(o, "leave", "failed") PROVE Shielded'
  BY <1>26 DEF ReleaseReload, Does
<1>27. CASE ReloadLapses BY <1>27 DEF ReloadLapses
<1>28. CASE UNCHANGED pluginVars BY <1>28 DEF pluginVars
<1> QED BY <1>1, <1>2, <1>3, <1>4, <1>5, <1>6, <1>7, <1>8, <1>9, <1>10, <1>11, <1>12,
      <1>13, <1>14, <1>15, <1>16, <1>17, <1>18, <1>19, <1>20, <1>21, <1>22, <1>23, <1>24,
      <1>25, <1>26, <1>27, <1>28 DEF PluginNext

LEMMA PluginInvHolds == PluginSpec => []PluginInv
<1>1. PluginInit => PluginInv
  BY PluginTypesInit DEF PluginInit, PluginInv, Shielded, Locked
<1>2. PluginInv /\ [PluginNext]_pluginVars => PluginInv'
  BY PluginTypesKept, ShieldKept DEF PluginInv
<1> QED BY <1>1, <1>2, PTL DEF PluginSpec

\* acquire_distributed_reload_lock (utils/locks.py) and the installer: as long as
\* the lock is neither outlasted nor passed without it, the lock file is there
\* while an installation works on the disk, and .env loses no variable.
THEOREM InstallsShieldedHolds == PluginSpec => []InstallsShielded
<1>1. PluginInv => InstallsShielded
  BY DEF PluginInv, Shielded, Locked, InstallsShielded
<1> QED BY PluginInvHolds, <1>1, PTL

-----------------------------------------------------------------------------
(* PluginRegistry: what it remembers, as long as nothing overlapped.       *)

\* One request, or one worker that starts.
Sole ==
  /\ \A o, q \in Working : o = q
  /\ \A w, x \in Starting : w = x
  /\ Working # {} => Starting = {}

\* Only a plugin on disk has a key, or one whose key is about to go.
KeysOnDisk ==
  \A p \in Plugins : info[p] # "none" =>
    p \in dirs \/ \E o \in Operators : task[o] = "drop" /\ plugin[o] = p

SwitchesOnDisk == \A o \in Operators : task[o] = "set" => plugin[o] \in dirs

\* The worker that starts knows what is on disk, deletes the keys of nothing
\* else, and writes back what it read.
StartsRight ==
  \A w \in Starting :
    /\ listed[w] = dirs
    /\ loader[w] = "delete" => todo[w] \cap dirs = {}
    /\ loader[w] \in {"next", "write"} => todo[w] \subseteq dirs
    /\ loader[w] = "write" =>
         kept[w].name \in dirs /\ kept[w].status = Remembered(info[kept[w].name])

\* The registry says what an administrator last said.
StatusKept == \A p \in Plugins : wanted[p] # "none" => info[p] = wanted[p]

\* The last worker serves what is on disk, or the change is flagged, or will be,
\* or another worker is about to take its place.
ServedOrFlagged ==
  latest # Nil /\ loader[latest] = "up" /\ ~halfway =>
    \/ changed \/ listed[latest] = dirs \/ Starting # {}
    \/ \E o \in Operators : task[o] \in {"drop", "mark", "read", "append", "packages", "flag"}

\* All of it, as long as nothing overlapped or was cut short.
Followed ==
  ~raced => /\ Sole /\ KeysOnDisk /\ SwitchesOnDisk /\ StartsRight /\ StatusKept
            /\ ServedOrFlagged

FollowInv == PluginTypes /\ Followed

\* One case for each step; the steps that overlap need no more than that they are
\* noted.
LEMMA FollowedKept == FollowInv /\ [PluginNext]_pluginVars => Followed'
<1> SUFFICES ASSUME FollowInv, [PluginNext]_pluginVars, ~raced' PROVE Followed'
  BY DEF Followed
<1> USE DEF FollowInv, PluginTypes, PluginTypeOK, Followed, Sole, KeysOnDisk,
   SwitchesOnDisk, StartsRight, StatusKept, ServedOrFlagged, Working, Starting, Inert,
   Status, Remembered, disk, boot, work, lockState, ghosts
<1>1. ASSUME NEW w \in Loaders, ListPlugins(w) PROVE Followed'
  <2>1. ~raced /\ Working = {} /\ Starting = {}
    BY <1>1 DEF ListPlugins
  <2>2. Sole' BY <1>1, <2>1 DEF ListPlugins, Loads
  <2>3. KeysOnDisk' BY <1>1, <2>1 DEF ListPlugins, Loads
  <2>4. SwitchesOnDisk' BY <1>1, <2>1 DEF ListPlugins, Loads
  <2>5. StartsRight' BY <1>1, <2>1 DEF ListPlugins, Loads
  <2>6. StatusKept' BY <1>1, <2>1 DEF ListPlugins, Loads
  <2>7. ServedOrFlagged' BY <1>1, <2>1 DEF ListPlugins, Loads
  <2> QED BY <2>2, <2>3, <2>4, <2>5, <2>6, <2>7
<1>2. ASSUME NEW w \in Loaders, Scan(w) PROVE Followed'
  BY <1>2 DEF Scan, Loads
<1>3. ASSUME NEW w \in Loaders, DeleteUnknown(w) PROVE Followed'
  BY <1>3 DEF DeleteUnknown, Loads
<1>4. ASSUME NEW w \in Loaders, NEW p \in Plugins, ReadInfo(w, p) PROVE Followed'
  BY <1>4 DEF ReadInfo, Loads
<1>5. ASSUME NEW w \in Loaders, WriteInfo(w) PROVE Followed'
  BY <1>5 DEF WriteInfo, Loads
<1>6. ASSUME NEW w \in Loaders, ClearChanged(w) PROVE Followed'
  BY <1>6 DEF ClearChanged, Loads
<1>7. ASSUME NEW w \in Loaders, StopLoader(w) PROVE Followed'
  <2>1. ~raced /\ w \notin Starting
    BY <1>7 DEF StopLoader
  <2>2. Sole' BY <1>7, <2>1 DEF StopLoader, Loads
  <2>3. KeysOnDisk' BY <1>7, <2>1 DEF StopLoader, Loads
  <2>4. SwitchesOnDisk' BY <1>7, <2>1 DEF StopLoader, Loads
  <2>5. StartsRight' BY <1>7, <2>1 DEF StopLoader, Loads
  <2>6. StatusKept' BY <1>7, <2>1 DEF StopLoader, Loads
  <2>7. ServedOrFlagged' BY <1>7, <2>1 DEF StopLoader, Loads
  <2> QED BY <2>2, <2>3, <2>4, <2>5, <2>6, <2>7
<1>8. ASSUME NEW o \in Operators, NEW p \in Plugins, Ask(o, p) PROVE Followed'
  <2>1. ~raced /\ Working = {} /\ Starting = {}
    BY <1>8 DEF Ask
  <2>2. Sole' BY <1>8, <2>1 DEF Ask, Does
  <2>3. KeysOnDisk' BY <1>8, <2>1 DEF Ask, Does
  <2>4. SwitchesOnDisk' BY <1>8, <2>1 DEF Ask, Does
  <2>5. StartsRight' BY <1>8, <2>1 DEF Ask, Does
  <2>6. StatusKept' BY <1>8, <2>1 DEF Ask, Does
  <2>7. ServedOrFlagged' BY <1>8, <2>1 DEF Ask, Does
  <2> QED BY <2>2, <2>3, <2>4, <2>5, <2>6, <2>7
<1>9. ASSUME NEW o \in Operators, GetStatus(o) PROVE Followed'
  BY <1>9 DEF GetStatus, Does
<1>10. ASSUME NEW o \in Operators, SetStatus(o) PROVE Followed'
  BY <1>10 DEF SetStatus, Does, Flipped
<1>11. ASSUME NEW o \in Operators, SetRemote(o) PROVE Followed'
  BY <1>11, PluginRegistryAssumption DEF SetRemote, Does
<1>12. ASSUME NEW o \in Operators, RemovePackages(o) PROVE Followed'
  BY <1>12 DEF RemovePackages, Does
<1>13. ASSUME NEW o \in Operators, MoveDir(o) PROVE Followed'
  <2>1. ~raced /\ Starting = {} /\ \A q \in Operators \ {o} : task[q] \in Inert
    BY <1>13 DEF MoveDir, Does
  <2>2. Sole' BY <1>13, <2>1 DEF MoveDir, Does
  <2>3. KeysOnDisk' BY <1>13, <2>1 DEF MoveDir, Does
  <2>4. SwitchesOnDisk' BY <1>13, <2>1 DEF MoveDir, Does
  <2>5. StartsRight' BY <1>13, <2>1 DEF MoveDir, Does
  <2>6. StatusKept' BY <1>13, <2>1 DEF MoveDir, Does
  <2>7. ServedOrFlagged' BY <1>13, <2>1 DEF MoveDir, Does
  <2> QED BY <2>2, <2>3, <2>4, <2>5, <2>6, <2>7
<1>14. ASSUME NEW o \in Operators, DropInfo(o) PROVE Followed'
  BY <1>14 DEF DropInfo, Does
<1>15. ASSUME NEW o \in Operators, MarkChanged(o, "mark", "done") PROVE Followed'
  BY <1>15 DEF MarkChanged, Does
<1>16. ASSUME NEW o \in Operators, LookForDir(o) PROVE Followed'
  BY <1>16 DEF LookForDir, Does
<1>17. ASSUME NEW o \in Operators, AcquireReload(o) PROVE Followed'
  BY <1>17 DEF AcquireReload, Does
<1>18. ASSUME NEW o \in Operators, Place(o) PROVE Followed'
  <2>1. ~raced /\ Starting = {} /\ \A q \in Operators \ {o} : task[q] \in Inert
    BY <1>18 DEF Place, Does
  <2>2. Sole' BY <1>18, <2>1 DEF Place, Does
  <2>3. KeysOnDisk' BY <1>18, <2>1 DEF Place, Does
  <2>4. SwitchesOnDisk' BY <1>18, <2>1 DEF Place, Does
  <2>5. StartsRight' BY <1>18, <2>1 DEF Place, Does
  <2>6. StatusKept' BY <1>18, <2>1 DEF Place, Does
  <2>7. ServedOrFlagged' BY <1>18, <2>1 DEF Place, Does
  <2> QED BY <2>2, <2>3, <2>4, <2>5, <2>6, <2>7
<1>19. ASSUME NEW o \in Operators, ReadEnv(o) PROVE Followed'
  BY <1>19 DEF ReadEnv, Does
<1>20. ASSUME NEW o \in Operators, AppendEnv(o) PROVE Followed'
  BY <1>20 DEF AppendEnv, Does
<1>21. ASSUME NEW o \in Operators, InstallPackages(o) PROVE Followed'
  BY <1>21 DEF InstallPackages, Does
<1>22. ASSUME NEW o \in Operators, MarkChanged(o, "flag", "unlink") PROVE Followed'
  BY <1>22 DEF MarkChanged, Does
<1>23. ASSUME NEW o \in Operators, Unlink(o, "unlink", "release") PROVE Followed'
  BY <1>23 DEF Unlink, Does
<1>24. ASSUME NEW o \in Operators, ReleaseReload(o, "release", "installed") PROVE Followed'
  BY <1>24 DEF ReleaseReload, Does
<1>25. ASSUME NEW o \in Operators, Unlink(o, "undo", "leave") PROVE Followed'
  BY <1>25 DEF Unlink, Does
<1>26. ASSUME NEW o \in Operators, ReleaseReload(o, "leave", "failed") PROVE Followed'
  BY <1>26 DEF ReleaseReload, Does
<1>27. CASE ReloadLapses BY <1>27 DEF ReloadLapses
<1>28. CASE UNCHANGED pluginVars BY <1>28 DEF pluginVars
<1> QED
  BY <1>1, <1>2, <1>3, <1>4, <1>5, <1>6, <1>7, <1>8, <1>9, <1>10, <1>11, <1>12, <1>13,
     <1>14, <1>15, <1>16, <1>17, <1>18, <1>19, <1>20, <1>21, <1>22, <1>23, <1>24, <1>25,
     <1>26, <1>27, <1>28 DEF PluginNext

\* Nothing is under way at the start, and every step keeps it.
LEMMA FollowInvHolds == PluginSpec => []FollowInv
<1>1. PluginInit => Followed
  <2> SUFFICES ASSUME PluginInit PROVE Followed OBVIOUS
  <2>1. Working = {} /\ Starting = {}
    BY DEF PluginInit, Working, Starting, Inert
  <2>2. Sole /\ KeysOnDisk /\ SwitchesOnDisk /\ StartsRight /\ StatusKept /\ ServedOrFlagged
    BY <2>1 DEF PluginInit, Sole, KeysOnDisk, SwitchesOnDisk, StartsRight, StatusKept,
                ServedOrFlagged
  <2> QED BY <2>2 DEF Followed
<1>2. PluginInit => FollowInv BY <1>1, PluginTypesInit DEF FollowInv
<1>3. FollowInv /\ [PluginNext]_pluginVars => FollowInv'
  BY PluginTypesKept, FollowedKept DEF FollowInv
<1> QED BY <1>2, <1>3, PTL DEF PluginSpec

\* parse_plugin_config (plugin/core.py) and plugin_service.py: as long as requests
\* and starts neither overlap nor are cut short, every restart keeps the status an
\* administrator gave, and the last worker serves what is on disk or the change is
\* flagged.
THEOREM RegistryFollowsHolds == PluginSpec => []RegistryFollows
<1>1. FollowInv => RegistryFollows
  <2> SUFFICES ASSUME FollowInv, Quiet PROVE
        /\ \A p \in Plugins : wanted[p] # "none" => info[p] = wanted[p]
        /\ latest # Nil /\ loader[latest] = "up" /\ ~halfway =>
             changed \/ listed[latest] = dirs
    BY DEF RegistryFollows
  <2>1. StatusKept /\ ServedOrFlagged BY DEF FollowInv, Followed, Quiet
  <2>2. \A o \in Operators : task[o] \in Inert BY DEF Quiet, Working
  <2> QED BY <2>1, <2>2 DEF StatusKept, ServedOrFlagged, Quiet, Inert
<1> QED BY FollowInvHolds, <1>1, PTL

-----------------------------------------------------------------------------
(* Notifier: messages and their history.                                   *)

\* A request that sends, at whatever step it is.
Sending ==
  [step : {"new", "find", "log", "done", "refused"}, list : Asked \cup {<<>>}, test : BOOLEAN,
   at : Nat, row : NoticeRow \cup {NoChannel}, of : Channels \cup {NoChannel}, ok : BOOLEAN]

\* A request that changes channels or reads the history, at whatever step it is.
Keeping ==
  [step : {"new", "write", "show", "page", "done", "refused"},
   op : {"none", "create", "update", "delete", "logs"}, on : Channels \cup {NoChannel},
   row : NoticeRow \cup {NoChannel}, want : NoticeRow \cup {NoChannel}, count : Nat]

\* The types of what the senders write.
SenderTypes ==
  /\ sender \in [Senders -> Sending] /\ had \in [Senders -> SUBSET (Channels \X Addresses)]
  /\ history \in Seq(Entry) /\ delivered \subseteq [by : Senders, at : Nat, url : Addresses]
  /\ \A s \in Senders :
       /\ sender[s].step = "new" <=> sender[s].list = <<>>
       /\ sender[s].step = "new" => sender[s].at = 1
       /\ sender[s].step # "new" => sender[s].at \in 1 .. Len(sender[s].list)

\* The types of what the others write.
KeeperTypes ==
  /\ channel \in [Channels -> NoticeRow \cup {NoChannel, GoneChannel}]
  /\ keeper \in [Keepers -> Keeping] /\ page \in [Keepers -> Seq(Entry)]
  /\ \A k \in Keepers :
       /\ keeper[k].step \in {"write", "show"} => keeper[k].on \in Channels
       /\ keeper[k].step = "write" /\ keeper[k].op # "delete" => keeper[k].want \in NoticeRow

\* The places of its list that s has an entry for.
Logged(s) == IF sender[s].step = "done" THEN sender[s].at ELSE sender[s].at - 1

\* The entries of s are those of its list so far, in order; what they call a
\* success has arrived, and nothing arrived but for the place that is now sent
\* to.
AccountOf(s) ==
  /\ {history[i].at : i \in EntriesOf(s)} = 1 .. Logged(s)
  /\ \A i, j \in EntriesOf(s) : i < j => history[i].at < history[j].at
  /\ sender[s].step = "done" => sender[s].at = Len(sender[s].list)
  /\ \A i \in EntriesOf(s) : history[i].ok => \E d \in Arrived(s) : d.at = history[i].at
  /\ sender[s].step = "log" /\ sender[s].ok => \E d \in Arrived(s) : d.at = sender[s].at
  /\ \A d \in Arrived(s) : d.at \in 1 .. (IF sender[s].step \in {"new", "find"} THEN sender[s].at - 1
                                          ELSE sender[s].at)
  /\ \A d, e \in Arrived(s) : d.at = e.at => d = e

AllAccounts == \A s \in Senders : AccountOf(s)

\* What a request knows of the channels was so at some time since it began.
KnownToHave ==
  \A s \in Senders :
    /\ Running(s) => HasNow \subseteq had[s]
    /\ Running(s) /\ sender[s].row # NoChannel /\ sender[s].row.on =>
         <<sender[s].of, sender[s].row.url>> \in had[s]
    /\ \A d \in Arrived(s) : <<sender[s].list[d.at], d.url>> \in had[s]

\* What was counted is there still, and a page that is shown is full and in
\* order.
PageOf(k) ==
  /\ keeper[k].step = "page" => keeper[k].count <= Len(history) /\ keeper[k].op = "logs"
  /\ Len(page[k]) <= PageSize
  /\ keeper[k].step = "done" /\ keeper[k].op = "logs" =>
       /\ Len(page[k]) >= (IF keeper[k].count < PageSize THEN keeper[k].count ELSE PageSize)
       /\ \A i \in 1 .. Len(page[k]) - 1 : page[k][i].by = page[k][i + 1].by =>
            page[k][i].at > page[k][i + 1].at

Pages == \A k \in Keepers : PageOf(k)

\* All of it together.
NotifyInv == SenderTypes /\ KeeperTypes /\ AllAccounts /\ KnownToHave /\ Pages
OtherSenders(s) == \A q \in Senders \ {s} : sender'[q] = sender[q]

\* What SenderIs does, to a request.
LEMMA SenderOf ==
  ASSUME SenderTypes, NEW s \in Senders, NEW w \in Sending, SenderIs(s, w)
  PROVE  sender' \in [Senders -> Sending] /\ sender'[s] = w /\ OtherSenders(s)
BY DEF SenderTypes, SenderIs, OtherSenders

\* What a sender carries.
LEMMA SenderFields ==
  ASSUME NotifyInv, NEW s \in Senders
  PROVE  /\ sender[s] \in Sending
         /\ sender[s].step \in {"new", "find", "log", "done", "refused"}
         /\ sender[s].list \in Asked \cup {<<>>} /\ sender[s].at \in Nat \ {0}
         /\ sender[s].row \in NoticeRow \cup {NoChannel} /\ sender[s].ok \in BOOLEAN
         /\ sender[s].of \in Channels \cup {NoChannel} /\ sender[s].test \in BOOLEAN
         /\ sender[s].step # "new" =>
              /\ sender[s].list \in Asked /\ sender[s].list \in Seq(Channels)
              /\ sender[s].at \in 1 .. Len(sender[s].list)
              /\ sender[s].list[sender[s].at] \in Channels
<1> USE DEF NotifyInv, SenderTypes
<1>1. sender[s] \in Sending OBVIOUS
<1>2. /\ sender[s].step = "new" => sender[s].list = <<>> /\ sender[s].at = 1
      /\ sender[s].step # "new" =>
           /\ sender[s].list # <<>> /\ sender[s].at \in 1 .. Len(sender[s].list)
  OBVIOUS
<1>3. /\ sender[s].step \in {"new", "find", "log", "done", "refused"}
      /\ sender[s].list \in Asked \cup {<<>>} /\ sender[s].at \in Nat
      /\ sender[s].row \in NoticeRow \cup {NoChannel} /\ sender[s].ok \in BOOLEAN
      /\ sender[s].of \in Channels \cup {NoChannel} /\ sender[s].test \in BOOLEAN
  BY <1>1 DEF Sending
<1>4. ASSUME sender[s].step # "new"
      PROVE  /\ sender[s].list \in Asked /\ sender[s].list \in Seq(Channels)
             /\ sender[s].at \in 1 .. Len(sender[s].list)
             /\ sender[s].list[sender[s].at] \in Channels
  <2>1. sender[s].list \in Asked /\ sender[s].list \in Seq(Channels)
    BY <1>2, <1>3, <1>4, NotifierAssumption
  <2>2. sender[s].at \in 1 .. Len(sender[s].list) BY <1>2, <1>4
  <2> QED BY <2>1, <2>2
<1>5. sender[s].at # 0
  <2>1. CASE sender[s].step = "new" BY <2>1, <1>2
  <2>2. CASE sender[s].step # "new" BY <2>2, <1>4
  <2> QED BY <2>1, <2>2
<1> QED BY <1>1, <1>3, <1>4, <1>5

-----------------------------------------------------------------------------
\* What each step of a sender does.

AskToSendDoes(s) ==
  /\ sender[s].step = "new" /\ OtherSenders(s) /\ sender' \in [Senders -> Sending]
  /\ sender'[s].step = "find" /\ sender'[s].list \in Asked /\ sender'[s].list # <<>>
  /\ Len(sender'[s].list) \in Nat \ {0}
  /\ sender'[s].at = 1 /\ sender'[s].row = NoChannel
  /\ had' = [had EXCEPT ![s] = HasNow]
  /\ UNCHANGED <<history, delivered, channel, keeper, page>>

LEMMA AskToSendIs ==
  ASSUME NotifyInv, NEW s \in Senders, NEW list \in Asked, NEW test \in BOOLEAN,
         AskToSend(s, list, test)
  PROVE  AskToSendDoes(s)
<1> DEFINE w == [ResetSender EXCEPT !.step = "find", !.list = list, !.test = test]
<1>1. /\ w \in Sending /\ w.step = "find" /\ w.list = list /\ w.at = 1 /\ w.row = NoChannel
  BY DEF ResetSender, Sending
<1>2. SenderIs(s, w) /\ sender[s].step = "new" /\ had' = [had EXCEPT ![s] = HasNow]
      /\ UNCHANGED <<history, delivered, channel, keeper, page>>
  BY DEF AskToSend, KeepersRest
<1> HIDE DEF w
<1>3. sender' \in [Senders -> Sending] /\ sender'[s] = w /\ OtherSenders(s)
  BY <1>1, <1>2, SenderOf DEF NotifyInv
<1>4. list # <<>> /\ Len(list) \in Nat \ {0} BY NotifierAssumption
<1> QED BY <1>1, <1>2, <1>3, <1>4 DEF AskToSendDoes

SendDoes(s) ==
  LET c == sender[s].list[sender[s].at]
  IN  /\ sender[s].step = "find" /\ OtherSenders(s) /\ sender' \in [Senders -> Sending]
      /\ sender'[s].list = sender[s].list /\ sender'[s].at = sender[s].at
      /\ UNCHANGED <<history, had, channel, keeper, page>>
      /\ \/ sender'[s].step = "refused" /\ delivered' = delivered
         \/ /\ sender'[s].step = "log" /\ sender'[s].of = c
            /\ sender'[s].row = RowFor(sender[s], c)
            /\ \/ delivered' = delivered /\ ~sender'[s].ok
               \/ /\ sender'[s].row # NoChannel /\ sender'[s].row.on
                  /\ sender'[s].row \in NoticeRow
                  /\ delivered' = delivered \cup {[by |-> s, at |-> sender[s].at,
                                                  url |-> sender'[s].row.url]}

LEMMA SendIs ==
  ASSUME NotifyInv, NEW s \in Senders, SendMessage(s)
  PROVE  SendDoes(s)
<1> DEFINE w == sender[s]
           c == w.list[w.at]
           row == RowFor(w, c)
           up == row # NoChannel /\ row.on
           found == [w EXCEPT !.row = row, !.of = c, !.step = "log", !.ok = FALSE]
           sure == [found EXCEPT !.ok = TRUE]
           off == [w EXCEPT !.step = "refused"]
           sent == [by |-> s, at |-> w.at, url |-> row.url]
<1>1. w.step = "find" /\ UNCHANGED <<history, had, channel, keeper, page>>
  BY DEF SendMessage, KeepersRest
<1>2. c \in Channels /\ w \in Sending BY <1>1, SenderFields
<1>3. row \in NoticeRow \cup {NoChannel}
  BY <1>2, SenderFields DEF RowFor, HasRow
<1>4. \/ ~up /\ SenderIs(s, off) /\ delivered' = delivered
      \/ SenderIs(s, found) /\ delivered' = delivered
      \/ up /\ SenderIs(s, found) /\ delivered' = delivered \cup {sent}
      \/ up /\ SenderIs(s, sure) /\ delivered' = delivered \cup {sent}
  BY DEF SendMessage
<1> HIDE DEF row, c
<1>5. /\ off \in Sending /\ off.step = "refused" /\ off.list = w.list /\ off.at = w.at
      /\ found \in Sending /\ found.step = "log" /\ found.list = w.list /\ found.at = w.at
      /\ found.row = row /\ found.of = c /\ found.ok = FALSE
      /\ sure \in Sending /\ sure.step = "log" /\ sure.list = w.list /\ sure.at = w.at
      /\ sure.row = row /\ sure.of = c
  BY <1>2, <1>3 DEF Sending
<1>6. up => row \in NoticeRow BY <1>3
<1> HIDE DEF off, found, sure
<1>7. CASE ~up /\ SenderIs(s, off) /\ delivered' = delivered
  <2>1. sender' \in [Senders -> Sending] /\ sender'[s] = off /\ OtherSenders(s)
    BY <1>5, <1>7, SenderOf DEF NotifyInv
  <2> QED BY <2>1, <1>1, <1>5, <1>7 DEF SendDoes
<1>8. CASE SenderIs(s, found) /\ delivered' = delivered
  <2>1. sender' \in [Senders -> Sending] /\ sender'[s] = found /\ OtherSenders(s)
    BY <1>5, <1>8, SenderOf DEF NotifyInv
  <2> QED BY <2>1, <1>1, <1>5, <1>8 DEF SendDoes, row, c
<1>9. CASE up /\ SenderIs(s, found) /\ delivered' = delivered \cup {sent}
  <2>1. sender' \in [Senders -> Sending] /\ sender'[s] = found /\ OtherSenders(s)
    BY <1>5, <1>9, SenderOf DEF NotifyInv
  <2> QED BY <2>1, <1>1, <1>5, <1>6, <1>9 DEF SendDoes, row, c
<1>10. CASE up /\ SenderIs(s, sure) /\ delivered' = delivered \cup {sent}
  <2>1. sender' \in [Senders -> Sending] /\ sender'[s] = sure /\ OtherSenders(s)
    BY <1>5, <1>10, SenderOf DEF NotifyInv
  <2> QED BY <2>1, <1>1, <1>5, <1>6, <1>10 DEF SendDoes, row, c
<1> QED BY <1>4, <1>7, <1>8, <1>9, <1>10

AppendDoes(s) ==
  /\ sender[s].step = "log" /\ OtherSenders(s) /\ sender' \in [Senders -> Sending]
  /\ sender'[s].list = sender[s].list
  /\ history' = Append(history, [by |-> s, at |-> sender[s].at, ok |-> sender[s].ok])
  /\ UNCHANGED <<delivered, had, channel, keeper, page>>
  /\ \/ /\ sender[s].at < Len(sender[s].list)
        /\ sender'[s].at = sender[s].at + 1 /\ sender'[s].step = "find"
        /\ sender'[s].row = sender[s].row /\ sender'[s].of = sender[s].of
     \/ /\ sender[s].at = Len(sender[s].list)
        /\ sender'[s].at = sender[s].at /\ sender'[s].step = "done"

LEMMA AppendIs ==
  ASSUME NotifyInv, NEW s \in Senders, AppendLog(s)
  PROVE  AppendDoes(s)
<1> DEFINE w == sender[s]
           y == [w EXCEPT !.at = @ + 1, !.step = "find", !.ok = FALSE]
           z == [w EXCEPT !.step = "done", !.row = NoChannel, !.of = NoChannel, !.ok = FALSE]
<1>1. /\ w.step = "log" /\ history' = Append(history, [by |-> s, at |-> w.at, ok |-> w.ok])
      /\ UNCHANGED <<delivered, had, channel, keeper, page>>
      /\ SenderIs(s, IF w.at < Len(w.list) THEN y ELSE z)
  BY DEF AppendLog, KeepersRest
<1>2. /\ w \in Sending /\ w.at \in Nat /\ w.at + 1 \in Nat /\ w.at \in 1 .. Len(w.list)
      /\ Len(w.list) \in Nat
  BY <1>1, SenderFields
<1>3. y \in Sending /\ y.at = w.at + 1 /\ y.step = "find" /\ y.row = w.row /\ y.of = w.of
      /\ y.list = w.list
  BY <1>2 DEF Sending
<1>4. z \in Sending /\ z.at = w.at /\ z.step = "done" /\ z.list = w.list
  BY <1>2 DEF Sending
<1> HIDE DEF y, z
<1>5. CASE w.at < Len(w.list)
  <2>1. sender' \in [Senders -> Sending] /\ sender'[s] = y /\ OtherSenders(s)
    BY <1>1, <1>3, <1>5, SenderOf DEF NotifyInv
  <2> QED BY <2>1, <1>1, <1>3, <1>5 DEF AppendDoes
<1>6. CASE ~(w.at < Len(w.list))
  <2>1. sender' \in [Senders -> Sending] /\ sender'[s] = z /\ OtherSenders(s)
    BY <1>1, <1>4, <1>6, SenderOf DEF NotifyInv
  <2>2. w.at = Len(w.list) BY <1>2, <1>6
  <2> QED BY <2>1, <2>2, <1>1, <1>4 DEF AppendDoes
<1> QED BY <1>5, <1>6

DieDoes(s) ==
  /\ Running(s) /\ OtherSenders(s) /\ sender' \in [Senders -> Sending]
  /\ sender'[s].step = "refused" /\ sender'[s].list = sender[s].list
  /\ sender'[s].at = sender[s].at
  /\ UNCHANGED <<history, delivered, had, channel, keeper, page>>

LEMMA DieIs ==
  ASSUME NotifyInv, NEW s \in Senders, SenderDies(s)
  PROVE  DieDoes(s)
<1> DEFINE w == [sender[s] EXCEPT !.step = "refused", !.row = NoChannel, !.of = NoChannel,
                                  !.ok = FALSE]
<1>1. w \in Sending /\ w.step = "refused" /\ w.list = sender[s].list /\ w.at = sender[s].at
  BY SenderFields DEF Sending
<1>2. Running(s) /\ SenderIs(s, w) /\ UNCHANGED <<history, delivered, had, channel, keeper, page>>
  BY DEF SenderDies, KeepersRest
<1> HIDE DEF w
<1>3. sender' \in [Senders -> Sending] /\ sender'[s] = w /\ OtherSenders(s)
  BY <1>1, <1>2, SenderOf DEF NotifyInv
<1> QED BY <1>1, <1>2, <1>3 DEF DieDoes

-----------------------------------------------------------------------------
\* What a step leaves as it was.

LEMMA SenderTypesKept ==
  ASSUME NotifyInv, NEW s \in Senders, OtherSenders(s), sender' \in [Senders -> Sending],
         had' \in [Senders -> SUBSET (Channels \X Addresses)], history' \in Seq(Entry),
         delivered' \subseteq [by : Senders, at : Nat, url : Addresses],
         sender'[s].step # "new", sender'[s].list # <<>>,
         sender'[s].at \in 1 .. Len(sender'[s].list)
  PROVE  SenderTypes'
<1>1. ASSUME NEW q \in Senders
      PROVE  /\ sender'[q].step = "new" <=> sender'[q].list = <<>>
             /\ sender'[q].step = "new" => sender'[q].at = 1
             /\ sender'[q].step # "new" => sender'[q].at \in 1 .. Len(sender'[q].list)
  <2>1. CASE q = s BY <2>1
  <2>2. CASE q # s
    <3>1. sender'[q] = sender[q] BY <2>2 DEF OtherSenders
    <3> QED BY <3>1 DEF NotifyInv, SenderTypes
  <2> QED BY <2>1, <2>2
<1> QED BY <1>1 DEF SenderTypes

LEMMA KeeperTypesKept ==
  ASSUME NotifyInv, UNCHANGED <<channel, keeper, page>>
  PROVE  KeeperTypes'
BY DEF NotifyInv, KeeperTypes

LEMMA PagesKept ==
  ASSUME NotifyInv, UNCHANGED <<keeper, page>>, Len(history') \in Nat, Len(history') >= Len(history)
  PROVE  Pages'
<1>1. Len(history) \in Nat BY DEF NotifyInv, SenderTypes
<1>2. ASSUME NEW k \in Keepers PROVE PageOf(k)'
  <2>1. keeper'[k] = keeper[k] /\ page'[k] = page[k] OBVIOUS
  <2>2. PageOf(k) BY DEF NotifyInv, Pages
  <2>3. keeper[k].count \in Nat
    <3>1. keeper[k] \in Keeping BY DEF NotifyInv, KeeperTypes
    <3> QED BY <3>1 DEF Keeping
  <2>4. (keeper[k].step = "page" => keeper[k].count <= Len(history) /\ keeper[k].op = "logs")'
    BY <1>1, <2>1, <2>2, <2>3 DEF PageOf
  <2> QED BY <2>1, <2>2, <2>4 DEF PageOf
<1> QED BY <1>2 DEF Pages

\* An account depends on the sender, its entries and its messages alone.
LEMMA AccountCarries ==
  ASSUME NEW q \in Senders, AccountOf(q), sender'[q] = sender[q], EntriesOf(q)' = EntriesOf(q),
         \A i \in EntriesOf(q) : history'[i] = history[i], Arrived(q)' = Arrived(q)
  PROVE  AccountOf(q)'
<1>1. Logged(q)' = Logged(q) BY DEF Logged
<1>2. {history'[i].at : i \in EntriesOf(q)} = {history[i].at : i \in EntriesOf(q)} OBVIOUS
<1>3. ({history[i].at : i \in EntriesOf(q)} = 1 .. Logged(q))' BY <1>1, <1>2 DEF AccountOf
<1>4. (\A i, j \in EntriesOf(q) : i < j => history[i].at < history[j].at)'
  BY DEF AccountOf
<1>5. (\A i \in EntriesOf(q) : history[i].ok => \E d \in Arrived(q) : d.at = history[i].at)'
  BY DEF AccountOf
<1>6. (\A d \in Arrived(q) : d.at \in 1 .. (IF sender[q].step \in {"new", "find"} THEN sender[q].at - 1
                                          ELSE sender[q].at))'
  BY DEF AccountOf
<1>7. /\ (sender[q].step = "done" => sender[q].at = Len(sender[q].list))'
      /\ (sender[q].step = "log" /\ sender[q].ok => \E d \in Arrived(q) : d.at = sender[q].at)'
      /\ (\A d, e \in Arrived(q) : d.at = e.at => d = e)'
  BY DEF AccountOf
<1> QED BY <1>3, <1>4, <1>5, <1>6, <1>7 DEF AccountOf

\* What is known of the channels by one request.
KnownOf(s) ==
  /\ Running(s) => HasNow \subseteq had[s]
  /\ Running(s) /\ sender[s].row # NoChannel /\ sender[s].row.on =>
       <<sender[s].of, sender[s].row.url>> \in had[s]
  /\ \A d \in Arrived(s) : <<sender[s].list[d.at], d.url>> \in had[s]

LEMMA KnownByEach == KnownToHave <=> \A s \in Senders : KnownOf(s)
BY DEF KnownToHave, KnownOf

\* What a request knows stays while it, its messages and the channels do.
LEMMA KnownCarries ==
  ASSUME NEW q \in Senders, KnownOf(q), sender'[q] = sender[q], had'[q] = had[q],
         channel' = channel, Arrived(q)' = Arrived(q)
  PROVE  KnownOf(q)'
<1>1. HasNow' = HasNow BY DEF HasNow, SwitchedOn, HasRow
<1>2. Running(q)' <=> Running(q) BY DEF Running
<1> QED BY <1>1, <1>2 DEF KnownOf

\* What enabled channels have is addresses of channels.
LEMMA HasNowTyped ==
  ASSUME NotifyInv
  PROVE  HasNow \subseteq Channels \X Addresses
BY DEF HasNow, SwitchedOn, HasRow, NoticeRow

\* One lemma for each step of a sender: it keeps all of it.
LEMMA AskToSendKeeps ==
  ASSUME NotifyInv, NEW s \in Senders, AskToSendDoes(s)
  PROVE  NotifyInv'
<1>1. SenderTypes'
  <2>1. had' \in [Senders -> SUBSET (Channels \X Addresses)]
    BY HasNowTyped DEF AskToSendDoes, NotifyInv, SenderTypes
  <2>2. sender'[s].at \in 1 .. Len(sender'[s].list) BY DEF AskToSendDoes
  <2> QED BY <2>1, <2>2, SenderTypesKept DEF AskToSendDoes, NotifyInv, SenderTypes
<1>2. KeeperTypes' BY KeeperTypesKept DEF AskToSendDoes
<1>3. ASSUME NEW q \in Senders
      PROVE  Arrived(q)' = Arrived(q) /\ EntriesOf(q)' = EntriesOf(q)
  BY DEF AskToSendDoes, Arrived, EntriesOf
<1>4. ASSUME NEW q \in Senders PROVE AccountOf(q)'
  <2>1. AccountOf(q) BY DEF NotifyInv, AllAccounts
  <2>2. CASE q # s
    BY <1>3, <2>1, <2>2, AccountCarries DEF AskToSendDoes, OtherSenders
  <2>3. CASE q = s
    <3>1. sender[s].step = "new" /\ sender[s].at = 1
      BY DEF AskToSendDoes, NotifyInv, SenderTypes
    <3>2. sender'[s].step = "find" /\ sender'[s].at = 1 /\ history' = history
      BY DEF AskToSendDoes
    <3>3. Logged(s)' = Logged(s) BY <3>1, <3>2 DEF Logged
    <3>4. ({history[i].at : i \in EntriesOf(s)} = 1 .. Logged(s))'
      BY <1>3, <2>1, <2>3, <3>2, <3>3 DEF AccountOf
    <3>5. Arrived(s) = {}
      <4>1. \A d \in Arrived(s) : d.at \in 1 .. 0 BY <2>1, <2>3, <3>1 DEF AccountOf
      <4> QED BY <4>1
    <3>6. (\A i, j \in EntriesOf(s) : i < j => history[i].at < history[j].at)'
      BY <1>3, <2>1, <2>3, <3>2 DEF AccountOf
    <3>7. (\A i \in EntriesOf(s) : history[i].ok => \E d \in Arrived(s) : d.at = history[i].at)'
      BY <1>3, <2>1, <2>3, <3>2 DEF AccountOf
    <3> QED BY <1>3, <2>3, <3>2, <3>4, <3>5, <3>6, <3>7 DEF AccountOf
  <2> QED BY <2>2, <2>3
<1>5. ASSUME NEW q \in Senders PROVE KnownOf(q)'
  <2>1. KnownOf(q) BY KnownByEach DEF NotifyInv
  <2>2. CASE q # s
    <3>1. had'[q] = had[q] BY <2>2 DEF AskToSendDoes, NotifyInv, SenderTypes
    <3> QED BY <1>3, <2>1, <2>2, <3>1, KnownCarries DEF AskToSendDoes, OtherSenders
  <2>3. CASE q = s
    <3>1. Arrived(s) = {}
      <4>1. sender[s].step = "new" /\ sender[s].at = 1
        BY DEF AskToSendDoes, NotifyInv, SenderTypes
      <4>2. AccountOf(s) BY DEF NotifyInv, AllAccounts
      <4>3. \A d \in Arrived(s) : d.at \in 1 .. 0 BY <4>1, <4>2 DEF AccountOf
      <4> QED BY <4>3
    <3>2. HasNow' = HasNow BY DEF HasNow, SwitchedOn, HasRow, AskToSendDoes
    <3>3. had'[s] = HasNow BY DEF AskToSendDoes, NotifyInv, SenderTypes
    <3>4. sender'[s].row = NoChannel BY DEF AskToSendDoes
    <3> QED BY <1>3, <2>3, <3>1, <3>2, <3>3, <3>4 DEF KnownOf
  <2> QED BY <2>2, <2>3
<1>6. Pages' BY PagesKept DEF AskToSendDoes, NotifyInv, SenderTypes
<1>7. AllAccounts' BY <1>4 DEF AllAccounts
<1>8. KnownToHave' BY <1>5 DEF KnownToHave, KnownOf
<1> QED BY <1>1, <1>2, <1>6, <1>7, <1>8 DEF NotifyInv

LEMMA DieKeeps ==
  ASSUME NotifyInv, NEW s \in Senders, DieDoes(s)
  PROVE  NotifyInv'
<1>0. sender[s].step \in {"find", "log"} /\ sender[s].list # <<>>
      /\ sender[s].at \in 1 .. Len(sender[s].list) /\ sender[s].at \in Nat
  <2>1. sender[s].step \in {"find", "log"} BY SenderFields DEF DieDoes, Running
  <2> QED BY <2>1, SenderFields DEF NotifyInv, SenderTypes
<1>1. SenderTypes' BY <1>0, SenderTypesKept DEF DieDoes, NotifyInv, SenderTypes
<1>2. KeeperTypes' BY KeeperTypesKept DEF DieDoes
<1>3. ASSUME NEW q \in Senders
      PROVE  Arrived(q)' = Arrived(q) /\ EntriesOf(q)' = EntriesOf(q)
  BY DEF DieDoes, Arrived, EntriesOf
<1>4. ASSUME NEW q \in Senders PROVE AccountOf(q)'
  <2>1. AccountOf(q) BY DEF NotifyInv, AllAccounts
  <2>2. CASE q # s
    BY <1>3, <2>1, <2>2, AccountCarries DEF DieDoes, OtherSenders
  <2>3. CASE q = s
    <3>2. sender'[s].step = "refused" /\ sender'[s].at = sender[s].at /\ history' = history
      BY DEF DieDoes
    <3>3. Logged(s)' = Logged(s) BY <1>0, <3>2 DEF Logged
    <3>4. ({history[i].at : i \in EntriesOf(s)} = 1 .. Logged(s))'
      BY <1>3, <2>1, <2>3, <3>2, <3>3 DEF AccountOf
    <3>5. \A d \in Arrived(s) : d.at \in 1 .. sender[s].at
      <4>1. CASE sender[s].step = "find"
        <5>1. \A d \in Arrived(s) : d.at \in 1 .. sender[s].at - 1
          BY <2>1, <2>3, <4>1 DEF AccountOf
        <5> QED BY <1>0, <5>1
      <4>2. CASE sender[s].step = "log" BY <2>1, <2>3, <4>2 DEF AccountOf
      <4> QED BY <1>0, <4>1, <4>2
    <3>6. (\A i, j \in EntriesOf(s) : i < j => history[i].at < history[j].at)'
      BY <1>3, <2>1, <2>3, <3>2 DEF AccountOf
    <3>7. (\A i \in EntriesOf(s) : history[i].ok => \E d \in Arrived(s) : d.at = history[i].at)'
      BY <1>3, <2>1, <2>3, <3>2 DEF AccountOf
    <3>8. (\A d, e \in Arrived(s) : d.at = e.at => d = e)'
      BY <1>3, <2>1, <2>3 DEF AccountOf
    <3>9. (\A d \in Arrived(s) : d.at \in 1 .. (IF sender[s].step \in {"new", "find"}
                                                THEN sender[s].at - 1 ELSE sender[s].at))'
      BY <1>3, <3>2, <3>5
    <3> QED BY <2>3, <3>2, <3>4, <3>6, <3>7, <3>8, <3>9 DEF AccountOf
  <2> QED BY <2>2, <2>3
<1>5. ASSUME NEW q \in Senders PROVE KnownOf(q)'
  <2>1. KnownOf(q) BY KnownByEach DEF NotifyInv
  <2>2. CASE q # s
    BY <1>3, <2>1, <2>2, KnownCarries DEF DieDoes, OtherSenders
  <2>3. CASE q = s
    <3>1. ~Running(s)' BY DEF DieDoes, Running
    <3> QED BY <1>3, <2>1, <2>3, <3>1 DEF KnownOf, DieDoes
  <2> QED BY <2>2, <2>3
<1>6. Pages' BY PagesKept DEF DieDoes, NotifyInv, SenderTypes
<1>7. AllAccounts' BY <1>4 DEF AllAccounts
<1>8. KnownToHave' BY <1>5 DEF KnownToHave, KnownOf
<1> QED BY <1>1, <1>2, <1>6, <1>7, <1>8 DEF NotifyInv

LEMMA SendKeeps ==
  ASSUME NotifyInv, NEW s \in Senders, SendDoes(s)
  PROVE  NotifyInv'
<1> DEFINE c == sender[s].list[sender[s].at]
           sent == [by |-> s, at |-> sender[s].at, url |-> sender'[s].row.url]
<1>0. /\ sender[s].step = "find" /\ Running(s) /\ sender[s].list # <<>> /\ c \in Channels
      /\ sender[s].at \in 1 .. Len(sender[s].list) /\ sender[s].at \in Nat \ {0}
  <2>1. sender[s].step = "find" BY DEF SendDoes
  <2> QED BY <2>1, SenderFields DEF NotifyInv, SenderTypes, Running
<1>a. /\ sender'[s].step \in {"log", "refused"} /\ sender'[s].at = sender[s].at
      /\ sender'[s].list = sender[s].list /\ history' = history /\ had' = had
      /\ OtherSenders(s) /\ channel' = channel
  BY DEF SendDoes
<1>b. \/ delivered' = delivered /\ (sender'[s].step = "log" => ~sender'[s].ok)
      \/ /\ sender'[s].step = "log" /\ sender'[s].row \in NoticeRow
         /\ sender'[s].row # NoChannel /\ sender'[s].row.on
         /\ sender'[s].of = c /\ delivered' = delivered \cup {sent}
  BY DEF SendDoes
<1>c. sender'[s].row \in NoticeRow => sent \in [by : Senders, at : Nat, url : Addresses]
  BY <1>0 DEF NoticeRow
<1>1. SenderTypes'
  <2>1. delivered' \subseteq [by : Senders, at : Nat, url : Addresses]
    BY <1>b, <1>c DEF NotifyInv, SenderTypes
  <2> QED BY <1>0, <1>a, <2>1, SenderTypesKept DEF SendDoes, NotifyInv, SenderTypes
<1>2. KeeperTypes' BY KeeperTypesKept DEF SendDoes
<1>3. ASSUME NEW q \in Senders, q # s
      PROVE  Arrived(q)' = Arrived(q) /\ EntriesOf(q)' = EntriesOf(q)
  BY <1>a, <1>b, <1>3 DEF Arrived, EntriesOf
<1>4. EntriesOf(s)' = EntriesOf(s) BY <1>a DEF EntriesOf
<1>5. /\ Arrived(s)' = Arrived(s) \/ (sent \in Arrived(s)' /\ Arrived(s)' = Arrived(s) \cup {sent})
      /\ sender'[s].step = "log" /\ sender'[s].ok => sent \in Arrived(s)'
      /\ sent \in Arrived(s)' => Arrived(s)' = Arrived(s) \cup {sent}
  BY <1>b DEF Arrived
<1>6. ASSUME NEW q \in Senders PROVE AccountOf(q)'
  <2>1. AccountOf(q) BY DEF NotifyInv, AllAccounts
  <2>2. CASE q # s
    BY <1>3, <1>a, <2>1, <2>2, AccountCarries DEF OtherSenders
  <2>3. CASE q = s
    <3>1. Logged(s)' = Logged(s) BY <1>0, <1>a DEF Logged
    <3>2. ({history[i].at : i \in EntriesOf(s)} = 1 .. Logged(s))'
      BY <1>4, <1>a, <2>1, <2>3, <3>1 DEF AccountOf
    <3>3. \A d \in Arrived(s) : d.at \in 1 .. sender[s].at - 1
      BY <1>0, <2>1, <2>3 DEF AccountOf
    <3>4. (\A i, j \in EntriesOf(s) : i < j => history[i].at < history[j].at)'
      BY <1>4, <1>a, <2>1, <2>3 DEF AccountOf
    <3>5. (\A i \in EntriesOf(s) : history[i].ok => \E d \in Arrived(s) : d.at = history[i].at)'
      BY <1>4, <1>5, <1>a, <2>1, <2>3 DEF AccountOf
    <3>6. \A d \in Arrived(s)' : d.at \in 1 .. sender[s].at
      <4>1. sent.at = sender[s].at OBVIOUS
      <4> QED BY <1>0, <1>5, <3>3, <4>1
    <3>7. (\A d \in Arrived(s) : d.at \in 1 .. (IF sender[s].step \in {"new", "find"}
                                                THEN sender[s].at - 1 ELSE sender[s].at))'
      BY <1>a, <3>6
    <3>8. (\A d, e \in Arrived(s) : d.at = e.at => d = e)'
      <4>1. \A d, e \in Arrived(s) : d.at = e.at => d = e BY <2>1, <2>3 DEF AccountOf
      <4>2. \A d \in Arrived(s) : d.at # sent.at BY <1>0, <3>3
      <4> HIDE DEF sent
      <4> QED BY <1>5, <4>1, <4>2
    <3>9. (sender[s].step = "log" /\ sender[s].ok => \E d \in Arrived(s) : d.at = sender[s].at)'
      BY <1>5, <1>a
    <3> QED BY <1>a, <2>3, <3>2, <3>4, <3>5, <3>7, <3>8, <3>9 DEF AccountOf
  <2> QED BY <2>2, <2>3
<1>7. ASSUME NEW q \in Senders PROVE KnownOf(q)'
  <2>1. KnownOf(q) BY KnownByEach DEF NotifyInv
  <2>2. CASE q # s
    BY <1>3, <1>a, <2>1, <2>2, KnownCarries DEF OtherSenders
  <2>3. CASE q = s
    <3>1. HasNow' = HasNow BY <1>a DEF HasNow, SwitchedOn, HasRow
    <3>2. HasNow \subseteq had[s] BY <1>0, <2>1, <2>3 DEF KnownOf
    <3>3. ASSUME sender'[s].step = "log", sender'[s].row # NoChannel, sender'[s].row.on
          PROVE  <<sender'[s].of, sender'[s].row.url>> \in had[s]
      <4>1. sender'[s].of = c /\ sender'[s].row = RowFor(sender[s], c)
        BY <3>3 DEF SendDoes
      <4>2. CASE sender[s].of = c /\ sender[s].row # NoChannel
        <5>1. sender'[s].row = sender[s].row BY <4>1, <4>2 DEF RowFor
        <5> QED BY <1>0, <2>1, <2>3, <3>3, <4>1, <4>2, <5>1 DEF KnownOf
      <4>3. CASE ~(sender[s].of = c /\ sender[s].row # NoChannel)
        <5>1. HasRow(c) /\ sender'[s].row = channel[c] BY <3>3, <4>1, <4>3 DEF RowFor
        <5>2. <<c, channel[c].url>> \in HasNow BY <1>0, <3>3, <5>1 DEF HasNow, SwitchedOn
        <5> QED BY <3>2, <4>1, <5>1, <5>2
      <4> QED BY <4>2, <4>3
    <3>4. (Running(s) /\ sender[s].row # NoChannel /\ sender[s].row.on =>
             <<sender[s].of, sender[s].row.url>> \in had[s])'
      BY <1>a, <3>3 DEF Running
    <3>5. (\A d \in Arrived(s) : <<sender[s].list[d.at], d.url>> \in had[s])'
      <4>1. \A d \in Arrived(s) : <<sender[s].list[d.at], d.url>> \in had[s]
        BY <2>1, <2>3 DEF KnownOf
      <4>2. CASE Arrived(s)' = Arrived(s) BY <1>a, <4>1, <4>2
      <4>3. CASE Arrived(s)' # Arrived(s)
        <5>1. delivered' # delivered BY <4>3 DEF Arrived
        <5>2. /\ sender'[s].step = "log" /\ sender'[s].row # NoChannel /\ sender'[s].row.on
              /\ sender'[s].of = c
          BY <1>b, <5>1
        <5>3. <<c, sent.url>> \in had[s] BY <3>3, <5>2
        <5>4. sent.at = sender[s].at OBVIOUS
        <5>5. Arrived(s)' = Arrived(s) \cup {sent} BY <1>5, <4>3
        <5> HIDE DEF sent
        <5> QED BY <1>a, <4>1, <5>3, <5>4, <5>5
      <4> QED BY <4>2, <4>3
    <3> QED BY <1>a, <2>3, <3>1, <3>2, <3>4, <3>5 DEF KnownOf
  <2> QED BY <2>2, <2>3
<1>8. Pages' BY PagesKept DEF SendDoes, NotifyInv, SenderTypes
<1>9. AllAccounts' BY <1>6 DEF AllAccounts
<1>10. KnownToHave' BY <1>7 DEF KnownToHave, KnownOf
<1> QED BY <1>1, <1>2, <1>8, <1>9, <1>10 DEF NotifyInv

LEMMA AppendKeeps ==
  ASSUME NotifyInv, NEW s \in Senders, AppendDoes(s)
  PROVE  NotifyInv'
<1> DEFINE entry == [by |-> s, at |-> sender[s].at, ok |-> sender[s].ok]
           n == Len(history)
           w == sender[s]
<1>0. /\ w.step = "log" /\ Running(s) /\ w.list # <<>> /\ Len(w.list) \in Nat
      /\ w.at \in 1 .. Len(w.list) /\ w.at \in Nat \ {0} /\ w.ok \in BOOLEAN
  <2>1. sender[s].step = "log" BY DEF AppendDoes
  <2> QED BY <2>1, SenderFields DEF NotifyInv, SenderTypes, Running
<1>a. /\ sender'[s].list = w.list /\ history' = Append(history, entry) /\ OtherSenders(s)
      /\ had' = had /\ delivered' = delivered /\ channel' = channel
      /\ sender' \in [Senders -> Sending]
  BY DEF AppendDoes
<1>b. \/ /\ w.at < Len(w.list) /\ sender'[s].at = w.at + 1 /\ sender'[s].step = "find"
         /\ sender'[s].row = w.row /\ sender'[s].of = w.of
      \/ w.at = Len(w.list) /\ sender'[s].at = w.at /\ sender'[s].step = "done"
  BY DEF AppendDoes
<1>c. entry \in Entry /\ entry.by = s /\ entry.at = w.at /\ entry.ok = w.ok
  BY <1>0 DEF Entry
<1>d. history \in Seq(Entry) /\ n \in Nat BY DEF NotifyInv, SenderTypes
<1> HIDE DEF entry
<1>e. /\ history' \in Seq(Entry) /\ Len(history') = n + 1 /\ history'[n + 1] = entry
      /\ \A i \in 1 .. n : history'[i] = history[i]
      /\ DOMAIN history' = 1 .. n + 1 /\ DOMAIN history = 1 .. n
  BY <1>a, <1>c, <1>d, AppendProperties
<1>1. SenderTypes'
  <2>1. sender'[s].step # "new" /\ sender'[s].at \in 1 .. Len(sender'[s].list)
    BY <1>0, <1>a, <1>b
  <2> QED BY <1>0, <1>a, <1>e, <2>1, SenderTypesKept DEF NotifyInv, SenderTypes
<1>2. KeeperTypes' BY KeeperTypesKept DEF AppendDoes
<1>3. ASSUME NEW q \in Senders PROVE Arrived(q)' = Arrived(q) BY <1>a DEF Arrived
<1>4. ASSUME NEW q \in Senders, q # s
      PROVE  EntriesOf(q)' = EntriesOf(q) /\ \A i \in EntriesOf(q) : history'[i] = history[i]
  <2>1. history'[n + 1].by # q BY <1>4, <1>c, <1>e
  <2> QED BY <1>d, <1>e, <2>1 DEF EntriesOf
<1>5. /\ EntriesOf(s)' = EntriesOf(s) \cup {n + 1} /\ EntriesOf(s) \subseteq 1 .. n
      /\ \A i \in EntriesOf(s) : history'[i] = history[i] /\ i < n + 1
  <2>1. history'[n + 1].by = s BY <1>c, <1>e
  <2> QED BY <1>d, <1>e, <2>1 DEF EntriesOf
<1>6. ASSUME NEW q \in Senders PROVE AccountOf(q)'
  <2>1. AccountOf(q) BY DEF NotifyInv, AllAccounts
  <2>2. CASE q # s
    <3>1. sender'[q] = sender[q] BY <1>a, <2>2 DEF OtherSenders
    <3> QED BY <1>3, <1>4, <2>1, <2>2, <3>1, AccountCarries
  <2>3. CASE q = s
    <3>1. Logged(s) = w.at - 1 /\ Logged(s)' = w.at BY <1>0, <1>b DEF Logged
    <3>2. {history[i].at : i \in EntriesOf(s)} = 1 .. w.at - 1
      BY <2>1, <2>3, <3>1 DEF AccountOf
    <3>3. history'[n + 1].at = w.at /\ history'[n + 1].ok = w.ok BY <1>c, <1>e
    <3>4. ({history[i].at : i \in EntriesOf(s)} = 1 .. Logged(s))'
      <4>1. {history'[i].at : i \in EntriesOf(s)'} = {history[i].at : i \in EntriesOf(s)} \cup {w.at}
        BY <1>5, <3>3
      <4>2. (1 .. w.at - 1) \cup {w.at} = 1 .. w.at BY <1>0
      <4> QED BY <3>1, <3>2, <4>1, <4>2
    <3>5. \A i \in EntriesOf(s) : history[i].at < w.at
      <4>1. \A i \in EntriesOf(s) : history[i].at \in 1 .. w.at - 1 BY <3>2
      <4> QED BY <4>1, <1>0
    <3>6. (\A i, j \in EntriesOf(s) : i < j => history[i].at < history[j].at)'
      <4> SUFFICES ASSUME NEW i \in EntriesOf(s)', NEW j \in EntriesOf(s)', i < j
                   PROVE  history'[i].at < history'[j].at
        OBVIOUS
      <4>1. i \in EntriesOf(s) BY <1>5, <1>d
      <4>2. CASE j \in EntriesOf(s) BY <1>5, <2>1, <2>3, <4>1, <4>2 DEF AccountOf
      <4>3. CASE j = n + 1 BY <1>5, <3>3, <3>5, <4>1, <4>3
      <4> QED BY <1>5, <4>2, <4>3
    <3>7. (\A i \in EntriesOf(s) : history[i].ok => \E d \in Arrived(s) : d.at = history[i].at)'
      <4> SUFFICES ASSUME NEW i \in EntriesOf(s)', history'[i].ok
                   PROVE  \E d \in Arrived(s) : d.at = history'[i].at
        BY <1>3
      <4>1. CASE i \in EntriesOf(s) BY <1>5, <2>1, <2>3, <4>1 DEF AccountOf
      <4>2. CASE i = n + 1 BY <1>0, <2>1, <2>3, <3>3, <4>2 DEF AccountOf
      <4> QED BY <1>5, <4>1, <4>2
    <3>8. \A d \in Arrived(s) : d.at \in 1 .. w.at BY <1>0, <2>1, <2>3 DEF AccountOf
    <3>9. (\A d \in Arrived(s) : d.at \in 1 .. (IF sender[s].step \in {"new", "find"}
                                                THEN sender[s].at - 1 ELSE sender[s].at))'
      <4>1. (IF sender'[s].step \in {"new", "find"} THEN sender'[s].at - 1 ELSE sender'[s].at) = w.at
        BY <1>0, <1>b
      <4> QED BY <1>3, <3>8, <4>1
    <3>10. (\A d, e \in Arrived(s) : d.at = e.at => d = e)'
      BY <1>3, <2>1, <2>3 DEF AccountOf
    <3>11. /\ sender'[s].step = "done" => sender'[s].at = Len(sender'[s].list)
           /\ sender'[s].step # "log"
      BY <1>a, <1>b
    <3> QED BY <2>3, <3>4, <3>6, <3>7, <3>9, <3>10, <3>11 DEF AccountOf
  <2> QED BY <2>2, <2>3
<1>7. ASSUME NEW q \in Senders PROVE KnownOf(q)'
  <2>1. KnownOf(q) BY KnownByEach DEF NotifyInv
  <2>2. CASE q # s
    <3>1. sender'[q] = sender[q] BY <1>a, <2>2 DEF OtherSenders
    <3> QED BY <1>3, <1>a, <2>1, <3>1, KnownCarries
  <2>3. CASE q = s
    <3>1. HasNow' = HasNow BY <1>a DEF HasNow, SwitchedOn, HasRow
    <3>2. Running(s)' => sender'[s].row = w.row /\ sender'[s].of = w.of
      BY <1>b DEF Running
    <3> QED BY <1>0, <1>3, <1>a, <2>1, <2>3, <3>1, <3>2 DEF KnownOf
  <2> QED BY <2>2, <2>3
<1>8. Pages' BY <1>d, <1>e, PagesKept DEF AppendDoes
<1>9. AllAccounts' BY <1>6 DEF AllAccounts
<1>10. KnownToHave' BY <1>7 DEF KnownToHave, KnownOf
<1> QED BY <1>1, <1>2, <1>8, <1>9, <1>10 DEF NotifyInv

-----------------------------------------------------------------------------
\* What a step of the other requests leaves of the senders' accounts.

SendersStay == UNCHANGED <<history, sender, delivered>>
ChannelsTyped == channel' \in [Channels -> NoticeRow \cup {NoChannel, GoneChannel}]

\* A step that leaves senders and channels as they are keeps their accounts.
LEMMA StillKeeps ==
  ASSUME NotifyInv, SendersStay, UNCHANGED <<channel, had>>
  PROVE  SenderTypes' /\ AllAccounts' /\ KnownToHave' /\ ChannelsTyped
<1>1. SenderTypes' BY DEF NotifyInv, SenderTypes, SendersStay
<1>2. ASSUME NEW q \in Senders PROVE AccountOf(q)' /\ KnownOf(q)'
  <2>1. AccountOf(q) BY DEF NotifyInv, AllAccounts
  <2>2. KnownOf(q) BY KnownByEach DEF NotifyInv
  <2>3. Arrived(q)' = Arrived(q) /\ EntriesOf(q)' = EntriesOf(q)
    BY DEF SendersStay, Arrived, EntriesOf
  <2>4. AccountOf(q)' BY <2>1, <2>3, AccountCarries DEF SendersStay
  <2>5. KnownOf(q)' BY <2>2, <2>3, KnownCarries DEF SendersStay
  <2> QED BY <2>4, <2>5
<1>3. AllAccounts' BY <1>2 DEF AllAccounts
<1>4. KnownToHave' BY <1>2 DEF KnownToHave, KnownOf
<1>5. ChannelsTyped BY DEF ChannelsTyped, NotifyInv, KeeperTypes
<1> QED BY <1>1, <1>3, <1>4, <1>5

\* A channel that changes is noted by every request under way.
LEMMA SetKeeps ==
  ASSUME NotifyInv, NEW c \in Channels, NEW row \in NoticeRow \cup {GoneChannel},
         SetChannel(c, row), SendersStay
  PROVE  SenderTypes' /\ AllAccounts' /\ KnownToHave' /\ ChannelsTyped
<1>0. channel \in [Channels -> NoticeRow \cup {NoChannel, GoneChannel}]
  BY DEF NotifyInv, KeeperTypes
<1>1. /\ channel' \in [Channels -> NoticeRow \cup {NoChannel, GoneChannel}]
      /\ channel'[c] = row
      /\ \A d \in Channels \ {c} : channel'[d] = channel[d]
  BY <1>0 DEF SetChannel
<1>2. \A q \in Senders : had'[q] = IF Running(q) /\ row \in NoticeRow /\ row.on
                                    THEN had[q] \cup {<<c, row.url>>} ELSE had[q]
  BY DEF SetChannel
<1>3. had \in [Senders -> SUBSET (Channels \X Addresses)] BY DEF NotifyInv, SenderTypes
<1>4. SenderTypes'
  <2>1. row \in NoticeRow => <<c, row.url>> \in Channels \X Addresses BY DEF NoticeRow
  <2>2. had' \in [Senders -> SUBSET (Channels \X Addresses)]
    BY <1>3, <2>1 DEF SetChannel
  <2> QED BY <2>2 DEF NotifyInv, SenderTypes, SendersStay
<1>5. HasNow' \subseteq HasNow \cup (IF row \in NoticeRow /\ row.on THEN {<<c, row.url>>} ELSE {})
  <2> SUFFICES ASSUME NEW d \in Channels, SwitchedOn(d)'
               PROVE  \/ <<d, channel'[d].url>> \in HasNow
                      \/ row \in NoticeRow /\ row.on /\ <<d, channel'[d].url>> = <<c, row.url>>
    BY DEF HasNow
  <2>1. CASE d = c BY <1>1, <2>1 DEF SwitchedOn, HasRow
  <2>2. CASE d # c
    <3>1. channel'[d] = channel[d] BY <1>1, <2>2
    <3> QED BY <3>1 DEF HasNow, SwitchedOn, HasRow
  <2> QED BY <2>1, <2>2
<1>6. ASSUME NEW q \in Senders PROVE AccountOf(q)'
  <2>1. AccountOf(q) BY DEF NotifyInv, AllAccounts
  <2>2. Arrived(q)' = Arrived(q) /\ EntriesOf(q)' = EntriesOf(q)
    BY DEF SendersStay, Arrived, EntriesOf
  <2> QED BY <2>1, <2>2, AccountCarries DEF SendersStay
<1>7. ASSUME NEW q \in Senders PROVE KnownOf(q)'
  <2>1. KnownOf(q) BY KnownByEach DEF NotifyInv
  <2>2. Arrived(q)' = Arrived(q) /\ sender'[q] = sender[q] BY DEF SendersStay, Arrived
  <2>3. Running(q)' <=> Running(q) BY <2>2 DEF Running
  <2>4. had[q] \subseteq had'[q] BY <1>2
  <2>5. Running(q) => HasNow' \subseteq had'[q] BY <1>2, <1>5, <2>1 DEF KnownOf
  <2> QED BY <2>1, <2>2, <2>3, <2>4, <2>5 DEF KnownOf
<1>8. AllAccounts' BY <1>6 DEF AllAccounts
<1>9. KnownToHave' BY <1>7 DEF KnownToHave, KnownOf
<1> QED BY <1>1, <1>4, <1>8, <1>9 DEF ChannelsTyped

-----------------------------------------------------------------------------
\* The requests that change channels or read the history.

\* What such a request carries.
LEMMA KeeperFields ==
  ASSUME NotifyInv, NEW k \in Keepers
  PROVE  /\ keeper[k] \in Keeping
         /\ keeper[k].op \in {"none", "create", "update", "delete", "logs"}
         /\ keeper[k].step \in {"write", "show"} => keeper[k].on \in Channels
         /\ keeper[k].step = "write" /\ keeper[k].op # "delete" => keeper[k].want \in NoticeRow
         /\ keeper[k].row \in NoticeRow \cup {NoChannel} /\ keeper[k].count \in Nat
<1>1. keeper[k] \in Keeping BY DEF NotifyInv, KeeperTypes
<1> QED BY <1>1 DEF NotifyInv, KeeperTypes, Keeping

\* A step of such a request keeps types and pages, given what it goes on to.
LEMMA KeeperGoes ==
  ASSUME NotifyInv, NEW k \in Keepers, NEW w \in Keeping, KeeperIs(k, w), page' = page,
         SendersStay, ChannelsTyped,
         w.step \in {"write", "show"} => w.on \in Channels,
         w.step = "write" /\ w.op # "delete" => w.want \in NoticeRow,
         w.step = "page" => w.op = "logs" /\ w.count <= Len(history)
  PROVE  KeeperTypes' /\ Pages'
<1> DEFINE closed == [ResetKeeper EXCEPT !.step = w.step]
           now == IF Closes(w.step) THEN closed ELSE w
<1>1. closed \in Keeping /\ closed.step = w.step /\ closed.op = "none"
  BY DEF ResetKeeper, Keeping
<1>2. now \in Keeping /\ (Closes(w.step) => now = closed) /\ (~Closes(w.step) => now = w)
  BY <1>1
<1>3. keeper' = [keeper EXCEPT ![k] = now] BY DEF KeeperIs
<1>4. keeper \in [Keepers -> Keeping] /\ page \in [Keepers -> Seq(Entry)]
  BY DEF NotifyInv, KeeperTypes
<1> HIDE DEF closed, now
<1>5. keeper' \in [Keepers -> Keeping] /\ keeper'[k] = now
      /\ \A q \in Keepers \ {k} : keeper'[q] = keeper[q]
  BY <1>2, <1>3, <1>4
<1>6. /\ now.step \in {"write", "show"} => now.on \in Channels
      /\ now.step = "write" /\ now.op # "delete" => now.want \in NoticeRow
      /\ now.step = "page" => now.op = "logs" /\ now.count <= Len(history)
      /\ ~(now.step = "done" /\ now.op = "logs")
  BY <1>1, <1>2 DEF Closes
<1>7. KeeperTypes'
  <2>1. ASSUME NEW q \in Keepers
        PROVE  /\ keeper'[q].step \in {"write", "show"} => keeper'[q].on \in Channels
               /\ keeper'[q].step = "write" /\ keeper'[q].op # "delete" =>
                    keeper'[q].want \in NoticeRow
    <3>1. CASE q = k BY <1>5, <1>6, <3>1
    <3>2. CASE q # k
      <4>1. keeper'[q] = keeper[q] BY <1>5, <3>2
      <4> QED BY <4>1 DEF NotifyInv, KeeperTypes
    <3> QED BY <3>1, <3>2
  <2> QED BY <1>4, <1>5, <2>1 DEF KeeperTypes, ChannelsTyped
<1>8. ASSUME NEW q \in Keepers PROVE PageOf(q)'
  <2>1. PageOf(q) BY DEF NotifyInv, Pages
  <2>2. CASE q = k
    <3>1. Len(page[k]) <= PageSize BY <2>1, <2>2 DEF PageOf
    <3> QED BY <1>5, <1>6, <2>2, <3>1 DEF PageOf, SendersStay
  <2>3. CASE q # k
    <3>1. keeper'[q] = keeper[q] BY <1>5, <2>3
    <3> QED BY <2>1, <3>1 DEF PageOf, SendersStay
  <2> QED BY <2>2, <2>3
<1> QED BY <1>7, <1>8 DEF Pages

\* One lemma for each step: it keeps all of it.
LEMMA AskChannelKeeps ==
  ASSUME NotifyInv, NEW k \in Keepers, NEW op \in {"create", "update", "delete"},
         NEW c \in Channels, NEW want \in Wanted(op), AskChannel(k, op, c, want)
  PROVE  NotifyInv'
<1> DEFINE w == [ResetKeeper EXCEPT !.step = "write", !.op = op, !.on = c, !.want = want,
                 !.row = IF HasRow(c) THEN channel[c] ELSE NoChannel]
           off == [w EXCEPT !.step = "refused"]
<1>1. want \in NoticeRow \cup {NoChannel} /\ (op # "delete" => want \in NoticeRow)
  BY DEF Wanted
<1>2. w \in Keeping /\ w.step = "write" /\ w.op = op /\ w.on = c /\ w.want = want
      /\ off \in Keeping /\ off.step = "refused"
  BY <1>1 DEF ResetKeeper, Keeping, HasRow
<1>3. SendersStay /\ UNCHANGED <<channel, had>> /\ page' = page
      /\ (KeeperIs(k, w) \/ KeeperIs(k, off))
  BY DEF AskChannel, SendersRest, SendersStay
<1> HIDE DEF w, off
<1>4. SenderTypes' /\ AllAccounts' /\ KnownToHave' /\ ChannelsTyped BY <1>3, StillKeeps
<1>5. KeeperTypes' /\ Pages'
  <2>1. CASE KeeperIs(k, w) BY <1>1, <1>2, <1>3, <1>4, <2>1, KeeperGoes
  <2>2. CASE KeeperIs(k, off) BY <1>1, <1>2, <1>3, <1>4, <2>2, KeeperGoes
  <2> QED BY <1>3, <2>1, <2>2
<1> QED BY <1>4, <1>5 DEF NotifyInv

\* A keeper that goes on to another step, the rest of it as it was.
LEMMA StepOf ==
  ASSUME NotifyInv, NEW k \in Keepers, NEW step \in {"show", "done", "refused"},
         keeper[k].step \in {"write", "show"},
         KeeperIs(k, [keeper[k] EXCEPT !.step = step]), page' = page, SendersStay, ChannelsTyped
  PROVE  KeeperTypes' /\ Pages'
<1> DEFINE w == [keeper[k] EXCEPT !.step = step]
<1>1. keeper[k] \in Keeping /\ keeper[k].on \in Channels BY KeeperFields
<1>2. w \in Keeping /\ w.step = step /\ w.on = keeper[k].on BY <1>1 DEF Keeping
<1>3. KeeperIs(k, w) OBVIOUS
<1> HIDE DEF w
<1> QED BY <1>1, <1>2, <1>3, KeeperGoes

LEMMA CreateKeeps ==
  ASSUME NotifyInv, NEW k \in Keepers, CreateChannel(k)
  PROVE  NotifyInv'
<1>1. /\ keeper[k].step = "write" /\ keeper[k].op = "create" /\ page' = page /\ SendersStay
      /\ SetChannel(keeper[k].on, keeper[k].want)
      /\ KeeperIs(k, [keeper[k] EXCEPT !.step = "show"])
  BY DEF CreateChannel, SendersRest, SendersStay
<1>2. keeper[k].on \in Channels /\ keeper[k].want \in NoticeRow BY <1>1, KeeperFields
<1>3. SenderTypes' /\ AllAccounts' /\ KnownToHave' /\ ChannelsTyped
  BY <1>1, <1>2, SetKeeps
<1>4. KeeperTypes' /\ Pages' BY <1>1, <1>3, StepOf
<1> QED BY <1>3, <1>4 DEF NotifyInv

LEMMA DeleteKeeps ==
  ASSUME NotifyInv, NEW k \in Keepers, DeleteChannel(k)
  PROVE  NotifyInv'
<1>1. /\ keeper[k].step = "write" /\ page' = page /\ SendersStay
      /\ SetChannel(keeper[k].on, GoneChannel)
      /\ KeeperIs(k, [keeper[k] EXCEPT !.step = "done"])
  BY DEF DeleteChannel, SendersRest, SendersStay
<1>2. keeper[k].on \in Channels BY <1>1, KeeperFields
<1>3. SenderTypes' /\ AllAccounts' /\ KnownToHave' /\ ChannelsTyped
  BY <1>1, <1>2, SetKeeps
<1>4. KeeperTypes' /\ Pages' BY <1>1, <1>3, StepOf
<1> QED BY <1>3, <1>4 DEF NotifyInv

LEMMA UpdateKeeps ==
  ASSUME NotifyInv, NEW k \in Keepers, UpdateChannel(k)
  PROVE  NotifyInv'
<1> DEFINE w == keeper[k]
           c == keeper[k].on
           merged == Merged(channel[c], w)
<1>1. /\ w.step = "write" /\ w.op = "update" /\ page' = page /\ SendersStay
      /\ \/ HasRow(c) /\ SetChannel(c, merged) /\ KeeperIs(k, [keeper[k] EXCEPT !.step = "show"])
         \/ /\ UNCHANGED <<channel, had>>
            /\ \/ KeeperIs(k, [keeper[k] EXCEPT !.step = "show"])
               \/ KeeperIs(k, [keeper[k] EXCEPT !.step = "refused"])
  BY DEF UpdateChannel, SendersRest, SendersStay
<1>2. c \in Channels /\ w.want \in NoticeRow BY <1>1, KeeperFields
<1>3. CASE HasRow(c) /\ SetChannel(c, merged) /\ KeeperIs(k, [keeper[k] EXCEPT !.step = "show"])
  <2>1. merged \in NoticeRow BY <1>2, <1>3 DEF Merged, HasRow, NoticeRow
  <2> HIDE DEF merged
  <2>2. SenderTypes' /\ AllAccounts' /\ KnownToHave' /\ ChannelsTyped
    BY <1>1, <1>2, <1>3, <2>1, SetKeeps
  <2>3. KeeperTypes' /\ Pages' BY <1>1, <1>3, <2>2, StepOf
  <2> QED BY <2>2, <2>3 DEF NotifyInv
<1>4. CASE /\ UNCHANGED <<channel, had>>
           /\ \/ KeeperIs(k, [keeper[k] EXCEPT !.step = "show"])
              \/ KeeperIs(k, [keeper[k] EXCEPT !.step = "refused"])
  <2>1. SenderTypes' /\ AllAccounts' /\ KnownToHave' /\ ChannelsTyped
    BY <1>1, <1>4, StillKeeps
  <2>2. KeeperTypes' /\ Pages' BY <1>1, <1>4, <2>1, StepOf
  <2> QED BY <2>1, <2>2 DEF NotifyInv
<1> QED BY <1>1, <1>3, <1>4

LEMMA ShowKeeps ==
  ASSUME NotifyInv, NEW k \in Keepers, ShowChannel(k) \/ KeeperFails(k)
  PROVE  NotifyInv'
<1>1. /\ keeper[k].step \in {"write", "show"} /\ page' = page /\ SendersStay
      /\ UNCHANGED <<channel, had>>
      /\ \/ KeeperIs(k, [keeper[k] EXCEPT !.step = "done"])
         \/ KeeperIs(k, [keeper[k] EXCEPT !.step = "refused"])
  BY DEF ShowChannel, KeeperFails, SendersRest, SendersStay
<1>2. SenderTypes' /\ AllAccounts' /\ KnownToHave' /\ ChannelsTyped BY <1>1, StillKeeps
<1>3. KeeperTypes' /\ Pages' BY <1>1, <1>2, StepOf
<1> QED BY <1>2, <1>3 DEF NotifyInv

LEMMA CountKeeps ==
  ASSUME NotifyInv, NEW k \in Keepers, CountLogs(k)
  PROVE  NotifyInv'
<1> DEFINE w == [ResetKeeper EXCEPT !.step = "page", !.op = "logs", !.count = Len(history)]
<1>1. Len(history) \in Nat BY DEF NotifyInv, SenderTypes
<1>2. w \in Keeping /\ w.step = "page" /\ w.op = "logs" /\ w.count = Len(history)
  BY <1>1 DEF ResetKeeper, Keeping
<1>3. SendersStay /\ UNCHANGED <<channel, had>> /\ page' = page /\ KeeperIs(k, w)
  BY DEF CountLogs, SendersRest, SendersStay
<1> HIDE DEF w
<1>4. SenderTypes' /\ AllAccounts' /\ KnownToHave' /\ ChannelsTyped BY <1>3, StillKeeps
<1>5. KeeperTypes' /\ Pages' BY <1>1, <1>2, <1>3, <1>4, KeeperGoes
<1> QED BY <1>4, <1>5 DEF NotifyInv

\* The newest entries, read backwards: those of one sender come in falling order.
LEMMA PageKeeps ==
  ASSUME NotifyInv, NEW k \in Keepers, PageLogs(k)
  PROVE  NotifyInv'
<1> DEFINE n == Len(history)
           size == IF n < PageSize THEN n ELSE PageSize
           shown == [i \in 1 .. size |-> history[n + 1 - i]]
           w == [keeper[k] EXCEPT !.step = "done"]
<1>0. history \in Seq(Entry) /\ n \in Nat /\ DOMAIN history = 1 .. n
  BY DEF NotifyInv, SenderTypes
<1>1. /\ keeper[k].step = "page" /\ SendersStay /\ UNCHANGED <<channel, had>>
      /\ page' = [page EXCEPT ![k] = shown] /\ keeper' = [keeper EXCEPT ![k].step = "done"]
  BY DEF PageLogs, SendersRest, SendersStay
<1>2. PageSize \in Nat \ {0} BY NotifierAssumption
<1>3. size \in Nat /\ size <= n /\ size <= PageSize BY <1>0, <1>2
<1> HIDE DEF size
<1>4. /\ shown \in Seq(Entry) /\ Len(shown) = size
      /\ \A i \in 1 .. size : shown[i] = history[n + 1 - i]
  <2>1. \A i \in 1 .. size : history[n + 1 - i] \in Entry BY <1>0, <1>3
  <2> QED BY <1>3, <2>1
<1>5. keeper[k] \in Keeping /\ keeper[k].count \in Nat /\ keeper[k].op = "logs"
      /\ keeper[k].count <= n
  BY <1>1, KeeperFields DEF NotifyInv, Pages, PageOf
<1>6. w \in Keeping /\ w.step = "done" /\ w.op = "logs" /\ w.count = keeper[k].count
  BY <1>5 DEF Keeping
<1>7. keeper \in [Keepers -> Keeping] /\ page \in [Keepers -> Seq(Entry)]
  BY DEF NotifyInv, KeeperTypes
<1>8. keeper' = [keeper EXCEPT ![k] = w] BY <1>1
<1> HIDE DEF w, shown
<1>9. /\ keeper' \in [Keepers -> Keeping] /\ keeper'[k] = w
      /\ page' \in [Keepers -> Seq(Entry)] /\ page'[k] = shown
      /\ \A q \in Keepers \ {k} : keeper'[q] = keeper[q] /\ page'[q] = page[q]
  BY <1>1, <1>4, <1>6, <1>7, <1>8
<1>a. SenderTypes' /\ AllAccounts' /\ KnownToHave' /\ ChannelsTyped BY <1>1, StillKeeps
<1>b. KeeperTypes'
  <2>1. ASSUME NEW q \in Keepers
        PROVE  /\ keeper'[q].step \in {"write", "show"} => keeper'[q].on \in Channels
               /\ keeper'[q].step = "write" /\ keeper'[q].op # "delete" =>
                    keeper'[q].want \in NoticeRow
    <3>1. CASE q = k BY <1>6, <1>9, <3>1
    <3>2. CASE q # k
      <4>1. keeper'[q] = keeper[q] BY <1>9, <3>2
      <4> QED BY <4>1 DEF NotifyInv, KeeperTypes
    <3> QED BY <3>1, <3>2
  <2> QED BY <1>9, <1>a, <2>1 DEF KeeperTypes, ChannelsTyped
<1>c. ASSUME NEW i \in 1 .. size - 1, shown[i].by = shown[i + 1].by
      PROVE  shown[i].at > shown[i + 1].at
  <2>1. /\ shown[i] = history[n + 1 - i] /\ shown[i + 1] = history[n + 1 - (i + 1)]
        /\ n + 1 - i \in 1 .. n /\ n + 1 - (i + 1) \in 1 .. n /\ n + 1 - (i + 1) < n + 1 - i
    BY <1>0, <1>3, <1>4
  <2>2. shown[i] \in Entry /\ shown[i + 1] \in Entry BY <1>0, <2>1
  <2>3. shown[i].by \in Senders /\ shown[i].at \in Nat /\ shown[i + 1].at \in Nat
    BY <2>2 DEF Entry
  <2>4. PICK s \in Senders : shown[i].by = s BY <2>3
  <2>5. n + 1 - i \in EntriesOf(s) /\ n + 1 - (i + 1) \in EntriesOf(s)
    BY <1>0, <1>c, <2>1, <2>4 DEF EntriesOf
  <2>6. \A a, b \in EntriesOf(s) : a < b => history[a].at < history[b].at
    BY DEF NotifyInv, AllAccounts, AccountOf
  <2>7. history[n + 1 - (i + 1)].at < history[n + 1 - i].at BY <2>1, <2>5, <2>6
  <2> QED BY <2>1, <2>3, <2>7
<1>d. size >= (IF keeper[k].count < PageSize THEN keeper[k].count ELSE PageSize)
  BY <1>0, <1>2, <1>5 DEF size
<1>e. ASSUME NEW q \in Keepers PROVE PageOf(q)'
  <2>1. CASE q = k BY <1>3, <1>4, <1>6, <1>9, <1>c, <1>d, <2>1 DEF PageOf
  <2>2. CASE q # k
    <3>1. keeper'[q] = keeper[q] /\ page'[q] = page[q] BY <1>9, <2>2
    <3>2. PageOf(q) BY DEF NotifyInv, Pages
    <3> QED BY <1>1, <3>1, <3>2 DEF PageOf, SendersStay
  <2> QED BY <2>1, <2>2
<1> QED BY <1>a, <1>b, <1>e DEF NotifyInv, Pages

-----------------------------------------------------------------------------

\* Nothing is sent at the start, and every step keeps all of it.
LEMMA NotifyInvHolds == NotifySpec => []NotifyInv
<1>1. ASSUME NotifyInit PROVE NotifyInv
  <2>1. SenderTypes
    <3>1. ResetSender \in Sending BY DEF ResetSender, Sending
    <3> QED BY <1>1, <3>1 DEF NotifyInit, SenderTypes, ResetSender
  <2>2. KeeperTypes
    <3>1. ResetKeeper \in Keeping BY DEF ResetKeeper, Keeping
    <3> QED BY <1>1, <3>1 DEF NotifyInit, KeeperTypes, ResetKeeper
  <2>3. ASSUME NEW s \in Senders PROVE AccountOf(s) /\ KnownOf(s)
    <3>1. EntriesOf(s) = {} /\ Arrived(s) = {} BY <1>1 DEF NotifyInit, EntriesOf, Arrived
    <3>2. sender[s].step = "new" /\ sender[s].at = 1 BY <1>1 DEF NotifyInit, ResetSender
    <3>3. Logged(s) = 0 BY <3>2 DEF Logged
    <3>4. AccountOf(s) BY <3>1, <3>2, <3>3 DEF AccountOf
    <3>5. KnownOf(s) BY <3>1, <3>2 DEF KnownOf, Running
    <3> QED BY <3>4, <3>5
  <2>4. Pages
    <3>1. PageSize \in Nat BY NotifierAssumption
    <3> QED BY <1>1, <3>1 DEF NotifyInit, Pages, PageOf, ResetKeeper
  <2> QED BY <2>1, <2>2, <2>3, <2>4 DEF NotifyInv, AllAccounts, KnownToHave, KnownOf
<1>2. ASSUME NotifyInv, [NotifyNext]_notifyVars PROVE NotifyInv'
  <2>1. CASE UNCHANGED notifyVars
    <3>1. SendersStay /\ UNCHANGED <<channel, had>> /\ UNCHANGED <<keeper, page>>
      BY <2>1 DEF notifyVars, SendersStay
    <3>2. Len(history') \in Nat /\ Len(history') >= Len(history)
      BY <1>2, <3>1 DEF SendersStay, NotifyInv, SenderTypes
    <3> QED BY <1>2, <3>1, <3>2, StillKeeps, KeeperTypesKept, PagesKept DEF NotifyInv
  <2>2. CASE NotifyNext
    <3>1. \/ \E s \in Senders :
               \/ \E list \in Asked, test \in BOOLEAN : AskToSend(s, list, test)
               \/ SendMessage(s) \/ AppendLog(s) \/ SenderDies(s)
          \/ \E k \in Keepers :
               \/ \E c \in Channels, op \in {"create", "update", "delete"} :
                    \E want \in Wanted(op) : AskChannel(k, op, c, want)
               \/ CreateChannel(k) \/ UpdateChannel(k) \/ DeleteChannel(k)
               \/ ShowChannel(k) \/ KeeperFails(k) \/ CountLogs(k) \/ PageLogs(k)
      BY <2>2 DEF NotifyNext, Wanted
    <3>2. ASSUME NEW s \in Senders,
                 \/ \E list \in Asked, test \in BOOLEAN : AskToSend(s, list, test)
                 \/ SendMessage(s) \/ AppendLog(s) \/ SenderDies(s)
          PROVE  NotifyInv'
      BY <1>2, <3>2, AskToSendIs, AskToSendKeeps, SendIs, SendKeeps, AppendIs,
         AppendKeeps, DieIs, DieKeeps
    <3>3. ASSUME NEW k \in Keepers,
                 \/ \E c \in Channels, op \in {"create", "update", "delete"} :
                      \E want \in Wanted(op) : AskChannel(k, op, c, want)
                 \/ CreateChannel(k) \/ UpdateChannel(k) \/ DeleteChannel(k)
                 \/ ShowChannel(k) \/ KeeperFails(k) \/ CountLogs(k) \/ PageLogs(k)
          PROVE  NotifyInv'
      BY <1>2, <3>3, AskChannelKeeps, CreateKeeps, UpdateKeeps, DeleteKeeps, ShowKeeps,
         CountKeeps,
         PageKeeps
    <3> QED BY <3>1, <3>2, <3>3
  <2> QED BY <1>2, <2>1, <2>2
<1> QED BY <1>1, <1>2, PTL DEF NotifySpec

\* The types of the requests and of what they write, as the runs check them.
THEOREM NotifyTypesHold == NotifySpec => []NotifyTypeOK
<1>1. ASSUME NotifyInv PROVE NotifyTypeOK
  <2>1. ASSUME NEW s \in Senders
        PROVE  /\ sender[s].step \in {"new", "find", "log", "done", "refused"}
               /\ sender[s].list \in Asked \cup {<<>>}
               /\ sender[s].row \in NoticeRow \cup {NoChannel}
               /\ sender[s].at \in 1 .. Len(sender[s].list) + 1
    <3>1. CASE sender[s].step = "new"
      <4>1. sender[s].list = <<>> /\ sender[s].at = 1
        BY <1>1, <3>1 DEF NotifyInv, SenderTypes
      <4> QED BY <1>1, <3>1, <4>1, SenderFields
    <3>2. CASE sender[s].step # "new"
      <4>1. sender[s].at \in 1 .. Len(sender[s].list) /\ sender[s].list \in Seq(Channels)
        BY <1>1, <3>2, SenderFields
      <4>2. sender[s].at \in 1 .. Len(sender[s].list) + 1 BY <4>1
      <4> QED BY <1>1, <4>2, SenderFields
    <3> QED BY <3>1, <3>2
  <2>2. ASSUME NEW k \in Keepers
        PROVE  /\ keeper[k].step \in {"new", "write", "show", "page", "done", "refused"}
               /\ page[k] \in Seq(Entry) /\ Len(page[k]) <= PageSize
    <3>1. keeper[k].step \in {"new", "write", "show", "page", "done", "refused"}
      BY <1>1, KeeperFields DEF Keeping
    <3> QED BY <1>1, <3>1 DEF NotifyInv, KeeperTypes, Pages, PageOf
  <2> QED BY <1>1, <2>1, <2>2 DEF NotifyInv, SenderTypes, KeeperTypes, NotifyTypeOK
<1> QED BY <1>1, NotifyInvHolds, PTL

\* The history accounts for each list, messages went only where channels
\* pointed, and pages are full and in order.
THEOREM NotifiedAsLoggedHolds == NotifySpec => []NotifiedAsLogged
<1>1. ASSUME NotifyInv PROVE NotifiedAsLogged
  <2>1. HistoryAccounts
    <3>1. ASSUME NEW s \in Senders
          PROVE  \E n \in 0 .. Len(sender[s].list) :
                   /\ {history[i].at : i \in EntriesOf(s)} = 1 .. n
                   /\ \A i, j \in EntriesOf(s) : i < j => history[i].at < history[j].at
                   /\ sender[s].step = "done" => n = Len(sender[s].list)
                   /\ \A i \in EntriesOf(s) : history[i].ok =>
                        \E d \in Arrived(s) : d.at = history[i].at
                   /\ \A d \in Arrived(s) : d.at <= n + 1
                   /\ \A d, e \in Arrived(s) : d.at = e.at => d = e
      <4>1. AccountOf(s) BY <1>1 DEF NotifyInv, AllAccounts
      <4>2. /\ sender[s].at \in Nat \ {0} /\ Len(sender[s].list) \in Nat
            /\ sender[s].step = "new" => sender[s].at = 1 /\ sender[s].list = <<>>
            /\ sender[s].step # "new" => sender[s].at \in 1 .. Len(sender[s].list)
        <5>1. CASE sender[s].step = "new" BY <1>1, <5>1 DEF NotifyInv, SenderTypes
        <5>2. CASE sender[s].step # "new" BY <1>1, <5>2, SenderFields
        <5> QED BY <5>1, <5>2
      <4>3. Logged(s) \in 0 .. Len(sender[s].list)
        <5>1. CASE sender[s].step = "new" BY <4>2, <5>1 DEF Logged
        <5>2. CASE sender[s].step # "new" BY <4>2, <5>2 DEF Logged
        <5> QED BY <5>1, <5>2
      <4>4. sender[s].step = "done" => Logged(s) = Len(sender[s].list)
        BY <4>1 DEF AccountOf, Logged
      <4>5. \A d \in Arrived(s) : d.at <= Logged(s) + 1
        BY <4>1, <4>2 DEF AccountOf, Logged
      <4> QED BY <4>1, <4>3, <4>4, <4>5 DEF AccountOf
    <3> QED BY <3>1 DEF HistoryAccounts
  <2>2. SentWhereEnabled
    <3> SUFFICES ASSUME NEW d \in delivered
                 PROVE  <<sender[d.by].list[d.at], d.url>> \in had[d.by]
      BY DEF SentWhereEnabled
    <3>1. d.by \in Senders BY <1>1 DEF NotifyInv, SenderTypes
    <3>2. d \in Arrived(d.by) BY DEF Arrived
    <3> QED BY <1>1, <3>1, <3>2 DEF NotifyInv, KnownToHave
  <2>3. PagesFull BY <1>1 DEF NotifyInv, Pages, PageOf, PagesFull
  <2> QED BY <2>1, <2>2, <2>3 DEF NotifiedAsLogged
<1> QED BY <1>1, NotifyInvHolds, PTL

-----------------------------------------------------------------------------
(* Pictures: the files of users and of preferences.                        *)

InHand == {"find", "write", "remove", "commit"}
Pointers == Files \cup {Elsewhere, Blank, NoUser}

\* A request, whatever step it is at.
Jobs ==
  [step : {"new", "save", "done", "failed"} \cup InHand,
   op : {"none", "me", "edit", "create", "deluser", "prefs"},
   sent : Sent \cup {Blank}, old : Pointers, found : BOOLEAN, put : Pointers]

\* The types, in more detail than PictureTypeOK.
PictureTypes ==
  /\ kind \in {"avatar", "cover"} /\ column \in Pointers /\ onDisk \subseteq Files
  /\ saving \in [Savers -> Jobs]
  /\ undone \in BOOLEAN /\ misled \in BOOLEAN /\ picturesCrowded \in BOOLEAN
  /\ litter \in BOOLEAN

\* A file is written by the request that ends with it in the column, and is read
\* there only then.
ReadSettled(v) ==
  v \in Pending =>
    /\ saving[v].old \in Savers => saving[saving[v].old].step = "done"
    /\ saving[v].sent = "new" => saving[v].put = v /\ (saving[v].step # "save" => v \in onDisk)

\* While nobody was misled, this holds of every request under way.
ReadWhenSettled ==
  ~misled =>
    /\ column \in Savers => saving[column].step = "done"
    /\ \A v \in Savers : ReadSettled(v)

\* What a request puts into the column: its own file, what was sent, or nothing.
PutsOwn ==
  \A v \in Pending :
    LET w == saving[v]
    IN  /\ w.put \in Files => w.put = IF w.sent = "new" THEN v ELSE w.sent
        /\ w.op = "deluser" => w.put = Blank
        /\ w.step = "find" => w.op = "prefs"

\* Whoever sends back the URL of a picture is alone with it.
AloneWithSent ==
  ~misled => \A v \in Pending : saving[v].sent \in Files =>
    Pending = {v} /\ column = saving[v].sent /\ saving[v].old = column

HoldsLock(v) == saving[v].step \in {"remove", "commit"} /\ saving[v].put # NoUser

\* At most one request holds the row.
OneLock == \A v, q \in Savers : HoldsLock(v) /\ HoldsLock(q) => v = q

\* A file that the column names is there, or about to be replaced.
NamedIsThere ==
  ~undone /\ ~misled /\ column \in Files =>
    \/ column \in onDisk
    \/ \E v \in Savers : saving[v].step = "commit" /\ saving[v].put \notin {NoUser, column}

\* What a request that is alone has left so far.
LeftBy(v) ==
  LET w == saving[v]
  IN  /\ w.op # "deluser" /\ ~(w.op = "edit" /\ w.sent = "null" /\ w.step # "save")
      /\ w.step = "save" => onDisk \subseteq {column}
      /\ w.step \in {"find", "write", "remove"} => onDisk \subseteq {column} \cup Written(v, w.sent)
      /\ w.step = "commit" => onDisk \subseteq {Shown(w)}

\* Requests that do not overlap: one at a time, and the files it leaves.
Tidy ==
  ~picturesCrowded =>
    /\ \A v, q \in Pending : v = q
    /\ \A v \in Pending : saving[v].old = column
    /\ ~litter /\ ~misled =>
         /\ Pending = {} => onDisk \subseteq {column}
         /\ \A v \in Pending : LeftBy(v)

\* All of it together.
PictureInv ==
  PictureTypes /\ ReadWhenSettled /\ PutsOwn /\ AloneWithSent /\ OneLock /\ NamedIsThere /\ Tidy

\* A request that has not begun is a request.
LEMMA IdleTyped == \A step \in {"done", "failed"} : [IdleJob EXCEPT !.step = step] \in Jobs
  /\ [IdleJob EXCEPT !.step = step].step = step
  /\ [IdleJob EXCEPT !.step = step].put = Blank
  /\ [IdleJob EXCEPT !.step = step].old = Blank
  /\ [IdleJob EXCEPT !.step = step].sent = Blank
BY DEF IdleJob, Jobs, Pointers, Sent, Files

\* A step is of one request.
LEMMA JobOf ==
  ASSUME PictureTypes, NEW v \in Savers, NEW w \in Jobs, JobIs(v, w)
  PROVE  /\ saving' \in [Savers -> Jobs]
         /\ \A q \in Savers \ {v} : saving'[q] = saving[q]
         /\ saving'[v].step = w.step
         /\ w.step \notin {"done", "failed"} => saving'[v] = w
<1>1. CASE w.step \in {"done", "failed"}
  <2> DEFINE x == [IdleJob EXCEPT !.step = w.step]
  <2>1. saving' = [saving EXCEPT ![v] = x] BY <1>1 DEF JobIs
  <2>2. x \in Jobs /\ x.step = w.step BY <1>1, IdleTyped
  <2> HIDE DEF x
  <2> QED BY <2>1, <2>2, <1>1 DEF PictureTypes
<1>2. CASE w.step \notin {"done", "failed"}
  <2>1. saving' = [saving EXCEPT ![v] = w] BY <1>2 DEF JobIs
  <2> QED BY <2>1 DEF PictureTypes
<1> QED BY <1>1, <1>2

\* What a request carries.
LEMMA JobFields ==
  ASSUME PictureInv, NEW v \in Savers
  PROVE  /\ saving[v] \in Jobs /\ saving[v].step \in {"new", "save", "done", "failed"} \cup InHand
         /\ saving[v].op \in {"none", "me", "edit", "create", "deluser", "prefs"}
         /\ saving[v].sent \in Sent \cup {Blank} /\ saving[v].old \in Pointers
         /\ saving[v].found \in BOOLEAN /\ saving[v].put \in Pointers
BY DEF PictureInv, PictureTypes, Jobs

\* A step of v that goes on to another step, with the rest of what it carries.
Onward(v, step, found, put) ==
  /\ saving'[v].step = step /\ saving'[v].found = found /\ saving'[v].put = put
  /\ saving'[v].op = saving[v].op /\ saving'[v].sent = saving[v].sent
  /\ saving'[v].old = saving[v].old

OtherSavers(v) == \A q \in Savers \ {v} : saving'[q] = saving[q]

LEMMA GoesOn ==
  ASSUME PictureInv, NEW v \in Savers, NEW step \in {"save"} \cup InHand, NEW found \in BOOLEAN,
         NEW put \in Pointers,
         JobIs(v, [saving[v] EXCEPT !.step = step, !.found = found, !.put = put])
  PROVE  saving' \in [Savers -> Jobs] /\ OtherSavers(v) /\ Onward(v, step, found, put)
<1> DEFINE w == [saving[v] EXCEPT !.step = step, !.found = found, !.put = put]
<1>1. /\ w \in Jobs /\ w.step = step /\ w.found = found /\ w.put = put
      /\ w.op = saving[v].op /\ w.sent = saving[v].sent /\ w.old = saving[v].old
  BY JobFields DEF Jobs
<1>2. step \notin {"done", "failed"} BY DEF InHand
<1> HIDE DEF w
<1>3. saving' \in [Savers -> Jobs] /\ OtherSavers(v) /\ saving'[v] = w
  BY <1>1, <1>2, JobOf DEF PictureInv, OtherSavers, w
<1> QED BY <1>1, <1>3 DEF Onward

\* The same, when only the step changes.
LEMMA StepsOn ==
  ASSUME PictureInv, NEW v \in Savers, NEW step \in {"save"} \cup InHand,
         JobIs(v, [saving[v] EXCEPT !.step = step])
  PROVE  /\ saving' \in [Savers -> Jobs] /\ OtherSavers(v)
         /\ Onward(v, step, saving[v].found, saving[v].put)
<1> DEFINE w == [saving[v] EXCEPT !.step = step]
<1>1. /\ w \in Jobs /\ w.step = step /\ w.found = saving[v].found /\ w.put = saving[v].put
      /\ w.op = saving[v].op /\ w.sent = saving[v].sent /\ w.old = saving[v].old
  BY JobFields DEF Jobs
<1>2. step \notin {"done", "failed"} BY DEF InHand
<1> HIDE DEF w
<1>3. saving' \in [Savers -> Jobs] /\ OtherSavers(v) /\ saving'[v] = w
  BY <1>1, <1>2, JobOf DEF PictureInv, OtherSavers, w
<1> QED BY <1>1, <1>3 DEF Onward

\* What becomes of the picture that was sent.
LEMMA ProcessedIs ==
  ASSUME NEW v \in Savers, NEW sent \in Sent
  PROVE  /\ Processed(v, sent) \in Pointers /\ Processed(v, sent) # NoUser
         /\ Processed(v, sent) \in Files => Processed(v, sent) = IF sent = "new" THEN v ELSE sent
         /\ sent = "new" => Processed(v, sent) = v
         /\ sent = "empty" => Processed(v, sent) = Blank
         /\ Written(v, sent) = IF sent = "new" THEN {v} ELSE {}
BY PicturesAssumption DEF Processed, Pointers, Files, Sent, Written

\* What each step does to the request it is of.
AskDoes(v, op, sent) ==
  /\ PictureTypes' /\ OtherSavers(v) /\ saving[v].step = "new"
  /\ sent \in Files => sent \in onDisk
  /\ picturesCrowded' = (picturesCrowded \/ Pending # {})
  /\ misled' = (misled \/ (sent \in Files /\ (sent # column \/ Pending # {}))
                       \/ \E q \in Pending : saving[q].sent \in Files)
  /\ UNCHANGED <<kind, column, undone>>
  /\ \/ saving'[v].step = "failed" /\ UNCHANGED <<onDisk, litter>>
     \/ /\ saving'[v].op = op /\ saving'[v].sent = sent /\ saving'[v].old = column
        /\ saving'[v].put = Processed(v, sent)
        /\ saving'[v].put # NoUser /\ (sent = "empty" => saving'[v].put = Blank)
        /\ sent = "new" => saving'[v].put = v
        /\ saving'[v].put \in Files => saving'[v].put = IF sent = "new" THEN v ELSE sent
        /\ Written(v, sent) = IF sent = "new" THEN {v} ELSE {}
        /\ \/ saving'[v].step = "save" /\ op = "edit" /\ UNCHANGED <<onDisk, litter>>
           \/ /\ saving'[v].step \in {"find", "write"} /\ op # "edit"
              /\ saving'[v].step = "find" => op = "prefs"
              /\ onDisk' = onDisk \cup Written(v, sent)
              /\ litter' = (litter \/ op = "deluser")

LEMMA AskIs ==
  ASSUME PictureInv, NEW v \in Savers, NEW op \in Operations(kind), NEW sent \in Sent,
         AskPicture(v, op, sent), op = "deluser" => sent = "empty"
  PROVE  AskDoes(v, op, sent)
<1> USE DEF AskDoes
<1> DEFINE w == [step |-> IF op = "prefs" THEN "find" ELSE "write", op |-> op, sent |-> sent,
                 old |-> column, found |-> column # NoUser, put |-> Processed(v, sent)]
           y == [w EXCEPT !.step = "failed"]
           z == [w EXCEPT !.step = "save"]
<1>1. op \in {"me", "edit", "create", "deluser", "prefs"} BY DEF Operations
<1>2. /\ column \in Pointers /\ Processed(v, sent) \in Pointers
      /\ (column # NoUser) \in BOOLEAN
      /\ sent \in Sent \cup {Blank} /\ onDisk \subseteq Files /\ PictureTypes
  BY ProcessedIs DEF PictureInv, PictureTypes
<1> DEFINE p == Processed(v, sent)
<1>10. /\ p # NoUser /\ (sent = "empty" => p = Blank) /\ (sent = "new" => p = v)
       /\ p \in Files => p = IF sent = "new" THEN v ELSE sent
       /\ Written(v, sent) = IF sent = "new" THEN {v} ELSE {}
  BY ProcessedIs
<1>3. /\ w \in Jobs /\ w.step \in {"find", "write"} /\ (w.step = "find" => op = "prefs")
      /\ w.op = op /\ w.sent = sent /\ w.old = column
      /\ w.put = Processed(v, sent)
  BY <1>1, <1>2 DEF Jobs, InHand
<1>4. /\ y \in Jobs /\ y.step = "failed"
      /\ z \in Jobs /\ z.step = "save" /\ z.op = op /\ z.sent = sent /\ z.old = column
      /\ z.put = Processed(v, sent)
  BY <1>1, <1>2 DEF Jobs, InHand
<1>5. /\ saving[v].step = "new" /\ (sent \in Files => sent \in onDisk)
      /\ picturesCrowded' = (picturesCrowded \/ Pending # {})
      /\ misled' = (misled \/ (sent \in Files /\ (sent # column \/ Pending # {}))
                           \/ \E q \in Pending : saving[q].sent \in Files)
      /\ UNCHANGED <<kind, column, undone>>
      /\ \/ JobIs(v, y) /\ UNCHANGED <<onDisk, litter>>
         \/ op = "edit" /\ JobIs(v, z) /\ UNCHANGED <<onDisk, litter>>
         \/ op # "edit" /\ JobIs(v, w) /\ onDisk' = onDisk \cup Written(v, sent)
            /\ litter' = (litter \/ op = "deluser")
  BY DEF AskPicture
<1> HIDE DEF w, y, z, p
<1>6. /\ picturesCrowded' \in BOOLEAN /\ misled' \in BOOLEAN
  BY <1>5, <1>2 DEF PictureTypes
<1>7. CASE JobIs(v, y) /\ UNCHANGED <<onDisk, litter>>
  <2>1. saving' \in [Savers -> Jobs] /\ OtherSavers(v) /\ saving'[v].step = "failed"
    BY <1>7, <1>4, <1>2, JobOf DEF OtherSavers
  <2> QED BY <2>1, <1>2, <1>5, <1>6, <1>7 DEF PictureTypes
<1>8. CASE op = "edit" /\ JobIs(v, z) /\ UNCHANGED <<onDisk, litter>>
  <2>1. saving' \in [Savers -> Jobs] /\ OtherSavers(v) /\ saving'[v] = z
    BY <1>8, <1>4, <1>2, JobOf DEF OtherSavers
  <2>2. PictureTypes' BY <2>1, <1>2, <1>5, <1>6, <1>8 DEF PictureTypes
  <2> QED BY <2>1, <2>2, <1>4, <1>5, <1>8, <1>10 DEF p
<1>9. CASE /\ op # "edit" /\ JobIs(v, w) /\ onDisk' = onDisk \cup Written(v, sent)
           /\ litter' = (litter \/ op = "deluser")
  <2>1. saving' \in [Savers -> Jobs] /\ OtherSavers(v) /\ saving'[v] = w
    BY <1>9, <1>3, <1>2, JobOf DEF OtherSavers
  <2>2. onDisk' \subseteq Files /\ litter' \in BOOLEAN
    BY <1>9, <1>2 DEF Written, Files, PictureTypes
  <2>3. PictureTypes' BY <2>1, <2>2, <1>2, <1>5, <1>6 DEF PictureTypes
  <2> QED BY <2>1, <2>3, <1>3, <1>5, <1>9, <1>10 DEF p
<1> QED BY <1>5, <1>7, <1>8, <1>9

SaveDoes(v) ==
  /\ PictureTypes' /\ OtherSavers(v) /\ saving[v].step = "save"
  /\ Onward(v, "write", saving[v].found, saving[v].put)
  /\ onDisk' = onDisk \cup Written(v, saving[v].sent)
  /\ litter' = (litter \/ saving[v].sent = "null")
  /\ UNCHANGED <<kind, column, undone, misled, picturesCrowded>>

LEMMA SaveIs ==
  ASSUME PictureInv, NEW v \in Savers, SavePicture(v)
  PROVE  SaveDoes(v)
<1> USE DEF SaveDoes
<1>1. /\ saving[v].step = "save" /\ onDisk' = onDisk \cup Written(v, saving[v].sent)
      /\ litter' = (litter \/ saving[v].sent = "null")
      /\ UNCHANGED <<kind, column, undone, misled, picturesCrowded>>
      /\ JobIs(v, [saving[v] EXCEPT !.step = "write"])
  BY DEF SavePicture, SameHistory
<1>3. /\ saving' \in [Savers -> Jobs] /\ OtherSavers(v)
      /\ Onward(v, "write", saving[v].found, saving[v].put)
  BY <1>1, StepsOn DEF InHand
<1>4. PictureTypes' BY <1>1, <1>3 DEF PictureInv, PictureTypes, Written, Files
<1> QED BY <1>1, <1>3, <1>4

FindPictureDoes(v) ==
  /\ PictureTypes' /\ OtherSavers(v) /\ saving[v].step = "find"
  /\ \E found \in BOOLEAN : \E put \in {NoUser, saving[v].put} :
       /\ Onward(v, "write", found, put)
       /\ put = NoUser /\ saving[v].put # NoUser =>
            \/ saving[v].sent = "null" \/ saving[v].put \in {saving[v].old, column}
  /\ UNCHANGED <<kind, column, onDisk, litter, undone, misled, picturesCrowded>>

LEMMA FindPictureIs ==
  ASSUME PictureInv, NEW v \in Savers, FindPreferences(v)
  PROVE  FindPictureDoes(v)
<1> USE DEF FindPictureDoes
<1> DEFINE w == saving[v]
           seen == IF w.found THEN w.old ELSE column
           put == IF w.sent = "null" \/ w.put = seen THEN NoUser ELSE w.put
           found == seen # NoUser
           puts == IF w.found \/ seen # NoUser THEN put ELSE w.put
<1>1. /\ w.step = "find"
      /\ JobIs(v, [w EXCEPT !.step = "write", !.found = found, !.put = puts])
      /\ UNCHANGED <<kind, column, onDisk, litter, undone, misled, picturesCrowded>>
  BY DEF FindPreferences, SameHistory
<1>2. found \in BOOLEAN /\ puts \in {NoUser, w.put} /\ puts \in Pointers
  BY JobFields DEF Pointers
<1>3. puts = NoUser /\ w.put # NoUser => w.sent = "null" \/ w.put \in {w.old, column}
  OBVIOUS
<1> HIDE DEF found, puts
<1>4. saving' \in [Savers -> Jobs] /\ OtherSavers(v) /\ Onward(v, "write", found, puts)
  BY <1>1, <1>2, GoesOn DEF InHand
<1>5. PictureTypes' BY <1>1, <1>4 DEF PictureInv, PictureTypes
<1> QED BY <1>1, <1>2, <1>3, <1>4, <1>5

WritePictureDoes(v) ==
  /\ PictureTypes' /\ OtherSavers(v) /\ saving[v].step = "write" /\ ~LockedRow
  /\ UNCHANGED <<kind, column, onDisk, undone, misled, picturesCrowded>>
  /\ \/ saving'[v].step = "failed" /\ litter' = TRUE
     \/ /\ litter' = litter
        /\ \/ Onward(v, "commit", saving[v].found, saving[v].put)
              /\ (column = NoUser \/ saving[v].op = "deluser")
           \/ Onward(v, "remove", saving[v].found, saving[v].put)

LEMMA WritePictureIs ==
  ASSUME PictureInv, NEW v \in Savers, WritePicture(v)
  PROVE  WritePictureDoes(v)
<1> USE DEF WritePictureDoes
<1> DEFINE w == saving[v]
           inserts == w.op = "create" \/ (w.op = "prefs" /\ ~w.found)
           gone == ~inserts /\ column = NoUser
           y == [w EXCEPT !.step = "failed"]
           c == [w EXCEPT !.step = "commit"]
           r == [w EXCEPT !.step = "remove"]
<1>1. /\ saving[v].step = "write" /\ ~LockedRow
      /\ UNCHANGED <<kind, column, onDisk, undone, misled, picturesCrowded>>
      /\ litter' = (litter \/ gone \/ (inserts /\ column # NoUser))
      /\ \/ JobIs(v, y) /\ (gone \/ (inserts /\ column # NoUser))
         \/ JobIs(v, c) /\ (column = NoUser \/ w.op = "deluser") /\ ~gone /\ ~(inserts /\ column # NoUser)
         \/ JobIs(v, r) /\ ~gone /\ ~(inserts /\ column # NoUser)
  <2>1. JobIs(v, CASE inserts /\ column # NoUser -> y
                   [] inserts /\ column = NoUser -> c
                   [] gone                       -> y
                   [] w.op = "deluser" /\ ~gone  -> c
                   [] OTHER                      -> r)
    BY DEF WritePicture
  <2> HIDE DEF y, c, r
  <2>2. CASE inserts /\ column # NoUser BY <2>1, <2>2 DEF WritePicture, SameHistory
  <2>3. CASE inserts /\ column = NoUser BY <2>1, <2>3 DEF WritePicture, SameHistory
  <2>4. CASE gone BY <2>1, <2>4 DEF WritePicture, SameHistory
  <2>5. CASE ~inserts /\ column # NoUser /\ w.op = "deluser"
    BY <2>1, <2>5 DEF WritePicture, SameHistory
  <2>6. CASE ~inserts /\ column # NoUser /\ w.op # "deluser"
    BY <2>1, <2>6 DEF WritePicture, SameHistory
  <2> QED BY <2>2, <2>3, <2>4, <2>5, <2>6
<1>2. litter' \in BOOLEAN BY <1>1 DEF PictureInv, PictureTypes
<1>3. CASE JobIs(v, y) /\ (gone \/ (inserts /\ column # NoUser))
  <2>1. y \in Jobs /\ y.step = "failed" BY JobFields DEF Jobs
  <2> HIDE DEF y
  <2>2. saving' \in [Savers -> Jobs] /\ OtherSavers(v) /\ saving'[v].step = "failed"
    BY <2>1, <1>3, JobOf DEF OtherSavers, PictureInv
  <2>3. PictureTypes' BY <2>2, <1>1, <1>2 DEF PictureInv, PictureTypes
  <2> QED BY <2>2, <2>3, <1>1, <1>3
<1>5. CASE JobIs(v, c) /\ (column = NoUser \/ w.op = "deluser") /\ ~gone /\ ~(inserts /\ column # NoUser)
  <2>1. saving' \in [Savers -> Jobs] /\ OtherSavers(v) /\ Onward(v, "commit", w.found, w.put)
    BY <1>5, StepsOn DEF InHand
  <2>2. PictureTypes' BY <2>1, <1>1, <1>2 DEF PictureInv, PictureTypes
  <2> QED BY <2>1, <2>2, <1>1, <1>5 DEF PictureInv, PictureTypes
<1>6. CASE JobIs(v, r) /\ ~gone /\ ~(inserts /\ column # NoUser)
  <2>1. saving' \in [Savers -> Jobs] /\ OtherSavers(v) /\ Onward(v, "remove", w.found, w.put)
    BY <1>6, StepsOn DEF InHand
  <2>2. PictureTypes' BY <2>1, <1>1, <1>2 DEF PictureInv, PictureTypes
  <2> QED BY <2>1, <2>2, <1>1, <1>6 DEF PictureInv, PictureTypes
<1> QED BY <1>1, <1>3, <1>5, <1>6

RemoveDoes(v) ==
  /\ PictureTypes' /\ OtherSavers(v) /\ saving[v].step = "remove"
  /\ Onward(v, "commit", saving[v].found, saving[v].put)
  /\ UNCHANGED <<kind, column, litter, undone, misled, picturesCrowded>>
  /\ \/ /\ onDisk' = onDisk \ {saving[v].old}
        /\ saving[v].old # Shown(saving[v])
     \/ /\ onDisk' = onDisk
        /\ saving[v].old = Shown(saving[v]) \/ (saving[v].op = "edit" /\ saving[v].sent = "null")

LEMMA RemoveIs ==
  ASSUME PictureInv, NEW v \in Savers, RemoveOld(v)
  PROVE  RemoveDoes(v)
<1> USE DEF RemoveDoes
<1>1. /\ saving[v].step = "remove"
      /\ UNCHANGED <<kind, column, litter, undone, misled, picturesCrowded>>
      /\ JobIs(v, [saving[v] EXCEPT !.step = "commit"])
      /\ \/ /\ onDisk' = onDisk \ {saving[v].old}
            /\ saving[v].old # Shown(saving[v])
         \/ /\ onDisk' = onDisk
            /\ saving[v].old = Shown(saving[v]) \/ (saving[v].op = "edit" /\ saving[v].sent = "null")
  BY DEF RemoveOld, SameHistory
<1>3. /\ saving' \in [Savers -> Jobs] /\ OtherSavers(v)
      /\ Onward(v, "commit", saving[v].found, saving[v].put)
  BY <1>1, StepsOn DEF InHand
<1>4. PictureTypes' BY <1>1, <1>3 DEF PictureInv, PictureTypes
<1> QED BY <1>1, <1>3, <1>4

CommitDoes(v) ==
  /\ PictureTypes' /\ OtherSavers(v) /\ saving[v].step = "commit"
  /\ saving'[v].step = "done"
  /\ UNCHANGED <<kind, onDisk, litter, undone, misled, picturesCrowded>>
  /\ \/ saving[v].op = "deluser" /\ column' = NoUser
     \/ saving[v].op # "deluser" /\ saving[v].put = NoUser /\ column' = column
     \/ saving[v].op # "deluser" /\ saving[v].put # NoUser /\ column' = saving[v].put

LEMMA CommitIs ==
  ASSUME PictureInv, NEW v \in Savers, CommitPicture(v)
  PROVE  CommitDoes(v)
<1> USE DEF CommitDoes
<1> DEFINE x == [saving[v] EXCEPT !.step = "done"]
<1>1. /\ saving[v].step = "commit" /\ JobIs(v, x)
      /\ UNCHANGED <<kind, onDisk, litter, undone, misled, picturesCrowded>>
      /\ \/ saving[v].op = "deluser" /\ column' = NoUser
         \/ saving[v].op # "deluser" /\ saving[v].put = NoUser /\ column' = column
         \/ saving[v].op # "deluser" /\ saving[v].put # NoUser /\ column' = saving[v].put
  <2>1. CASE saving[v].op = "deluser"
    <3>1. saving[v].put # NoUser
      BY <2>1, PicturesAssumption DEF CommitPicture, PictureInv, PutsOwn, Pending
    <3> QED BY <2>1, <3>1 DEF CommitPicture, SameHistory
  <2>2. CASE saving[v].op # "deluser" /\ saving[v].put = NoUser
    BY <2>2 DEF CommitPicture, SameHistory
  <2>3. CASE saving[v].op # "deluser" /\ saving[v].put # NoUser
    BY <2>3 DEF CommitPicture, SameHistory
  <2> QED BY <2>1, <2>2, <2>3
<1>2. x \in Jobs /\ x.step = "done" BY JobFields DEF Jobs
<1> HIDE DEF x
<1>3. saving' \in [Savers -> Jobs] /\ OtherSavers(v) /\ saving'[v].step = "done"
  BY <1>1, <1>2, JobOf DEF OtherSavers, PictureInv
<1>4. column' \in Pointers BY <1>1, JobFields DEF PictureInv, PictureTypes, Pointers
<1>5. PictureTypes' BY <1>1, <1>3, <1>4 DEF PictureInv, PictureTypes
<1> QED BY <1>1, <1>3, <1>5

FailDoes(v) ==
  /\ PictureTypes' /\ OtherSavers(v) /\ v \in Pending /\ saving'[v].step = "failed"
  /\ undone' = (undone \/ saving[v].step = "commit") /\ litter' = TRUE
  /\ UNCHANGED <<kind, column, onDisk, misled, picturesCrowded>>

LEMMA FailIs ==
  ASSUME PictureInv, NEW v \in Savers, JobFails(v)
  PROVE  FailDoes(v)
<1> USE DEF FailDoes
<1> DEFINE x == [saving[v] EXCEPT !.step = "failed"]
<1>1. /\ v \in Pending /\ JobIs(v, x)
      /\ undone' = (undone \/ saving[v].step = "commit") /\ litter' = TRUE
      /\ UNCHANGED <<kind, column, onDisk, misled, picturesCrowded>>
  BY DEF JobFails
<1>2. x \in Jobs /\ x.step = "failed" BY JobFields DEF Jobs
<1> HIDE DEF x
<1>3. saving' \in [Savers -> Jobs] /\ OtherSavers(v) /\ saving'[v].step = "failed"
  BY <1>1, <1>2, JobOf DEF OtherSavers, PictureInv
<1>4. PictureTypes' BY <1>1, <1>3 DEF PictureInv, PictureTypes
<1> QED BY <1>1, <1>3, <1>4


\* One lemma for each step: it keeps all of it.
LEMMA AskKeeps ==
  ASSUME PictureInv, NEW v \in Savers, NEW op \in Operations(kind), NEW sent \in Sent,
         AskPicture(v, op, sent), op = "deluser" => sent = "empty"
  PROVE  PictureInv'
<1>0. AskDoes(v, op, sent) BY AskIs
<1>1. PictureTypes' BY <1>0 DEF AskDoes
<1>2. ReadWhenSettled'
  <2> SUFFICES ASSUME ~misled'
               PROVE  /\ column' \in Savers => saving'[column'].step = "done"
                      /\ \A q \in Savers : ReadSettled(q)'
    BY DEF ReadWhenSettled
  <2>1. /\ ~misled /\ column' = column /\ saving[v].step = "new" /\ onDisk \subseteq onDisk'
        /\ column \in Savers => saving[column].step = "done"
        /\ \A q \in Savers \ {v} : saving'[q] = saving[q]
    BY <1>0 DEF AskDoes, OtherSavers, PictureInv, ReadWhenSettled
  <2>2. ASSUME NEW q \in Savers PROVE ReadSettled(q)'
    <3>1. CASE q = v
      BY <3>1, <2>1, <1>0 DEF AskDoes, ReadSettled, Pending
    <3>2. CASE q # v
      <4>1. ReadSettled(q) BY <2>1 DEF PictureInv, ReadWhenSettled
      <4> QED BY <4>1, <3>2, <2>1 DEF ReadSettled, Pending
    <3> QED BY <3>1, <3>2
  <2> QED BY <2>1, <2>2
<1>3. PutsOwn'
  BY <1>0, PicturesAssumption DEF AskDoes, Onward, OtherSavers, InHand, PictureInv,
     Files, Pending, PutsOwn
<1>4. AloneWithSent'
  BY <1>0, PicturesAssumption DEF AskDoes, Onward, OtherSavers, InHand, PictureInv,
     Files, Pending, AloneWithSent
<1>5. OneLock'
  BY <1>0, PicturesAssumption DEF AskDoes, Onward, OtherSavers, InHand, PictureInv,
     Files, Pending, OneLock, HoldsLock
<1>6. NamedIsThere'
  BY <1>0, PicturesAssumption DEF AskDoes, Onward, OtherSavers, InHand, PictureInv,
     Files, Pending, NamedIsThere
<1>7. Tidy'
  <2> SUFFICES ASSUME ~picturesCrowded' PROVE Tidy' BY DEF Tidy
  <2>1. /\ Pending = {} /\ ~picturesCrowded /\ column' = column
        /\ \A q \in Savers \ {v} : saving'[q] = saving[q]
    BY <1>0 DEF AskDoes, OtherSavers
  <2>2. Pending' \subseteq {v} BY <2>1 DEF Pending
  <2>3. \A q \in Pending' : saving'[q].old = column'
    BY <2>1, <2>2, <1>0 DEF AskDoes, Pending
  <2>4. ASSUME ~litter', ~misled'
        PROVE  (Pending' = {} => onDisk' \subseteq {column'}) /\ \A q \in Pending' : LeftBy(q)'
    <3>1. onDisk \subseteq {column}
      BY <2>1, <2>4, <1>0 DEF AskDoes, PictureInv, PictureTypes, Tidy
    <3>2. CASE saving'[v].step = "failed" /\ UNCHANGED <<onDisk, litter>>
      BY <3>1, <3>2, <2>1, <2>2 DEF Pending
    <3>3. CASE saving'[v].step = "save" /\ op = "edit" /\ UNCHANGED <<onDisk, litter>>
               /\ saving'[v].op = op
      <4>1. Pending' # {} BY <3>3 DEF Pending
      <4>2. LeftBy(v)' BY <3>1, <3>3, <2>1 DEF LeftBy
      <4> QED BY <4>1, <4>2, <2>2
    <3>4. CASE saving'[v].step \in {"find", "write"} /\ op # "edit" /\ saving'[v].op = op
               /\ onDisk' = onDisk \cup Written(v, sent) /\ litter' = (litter \/ op = "deluser")
               /\ saving'[v].sent = sent
      <4>1. Pending' # {} BY <3>4 DEF Pending
      <4>2. op # "deluser" BY <3>4, <2>4 DEF PictureInv, PictureTypes
      <4>3. LeftBy(v)' BY <3>1, <3>4, <4>2, <2>1 DEF LeftBy, Written
      <4> QED BY <4>1, <4>3, <2>2
    <3> QED BY <3>2, <3>3, <3>4, <1>0 DEF AskDoes
  <2> QED BY <2>2, <2>3, <2>4 DEF Tidy
<1> QED BY <1>1, <1>2, <1>3, <1>4, <1>5, <1>6, <1>7 DEF PictureInv

LEMMA SaveKeeps ==
  ASSUME PictureInv, NEW v \in Savers, SavePicture(v)
  PROVE  PictureInv'
<1>0. SaveDoes(v) BY SaveIs
<1>1. PictureTypes' BY <1>0 DEF SaveDoes
<1>2. ReadWhenSettled'
  <2> SUFFICES ASSUME ~misled'
               PROVE  /\ column' \in Savers => saving'[column'].step = "done"
                      /\ \A q \in Savers : ReadSettled(q)'
    BY DEF ReadWhenSettled
  <2>1. /\ ~misled /\ column' = column /\ saving[v].step = "save"
        /\ onDisk \subseteq onDisk'
        /\ column \in Savers => saving[column].step = "done"
        /\ \A q \in Savers \ {v} : saving'[q] = saving[q]
        /\ saving[v].sent = "new" => v \in onDisk'
    BY <1>0 DEF SaveDoes, OtherSavers, PictureInv, ReadWhenSettled, Written
  <2>2. ASSUME NEW q \in Savers PROVE ReadSettled(q)'
    <3>0. ReadSettled(q) BY <2>1 DEF PictureInv, ReadWhenSettled
    <3>1. CASE q = v
      BY <3>0, <3>1, <2>1, <1>0 DEF SaveDoes, Onward, ReadSettled, Pending
    <3>2. CASE q # v
      BY <3>0, <3>2, <2>1 DEF ReadSettled, Pending
    <3> QED BY <3>1, <3>2
  <2> QED BY <2>1, <2>2
<1>3. PutsOwn'
  BY <1>0, PicturesAssumption DEF SaveDoes, Onward, OtherSavers, InHand, PictureInv,
     Files, Pending, PutsOwn
<1>4. AloneWithSent'
  BY <1>0, PicturesAssumption DEF SaveDoes, Onward, OtherSavers, InHand, PictureInv,
     Files, Pending, AloneWithSent
<1>5. OneLock'
  BY <1>0, PicturesAssumption DEF SaveDoes, Onward, OtherSavers, InHand, PictureInv,
     Files, Pending, OneLock, HoldsLock
<1>6. NamedIsThere'
  BY <1>0, PicturesAssumption DEF SaveDoes, Onward, OtherSavers, InHand, PictureInv,
     Files, Pending, NamedIsThere
<1>7. Tidy'
  <2> SUFFICES ASSUME ~picturesCrowded' PROVE Tidy' BY DEF Tidy
  <2>1. /\ Pending = {v} /\ ~picturesCrowded /\ column' = column /\ saving[v].old = column
        /\ \A q \in Savers \ {v} : saving'[q] = saving[q]
    BY <1>0 DEF SaveDoes, OtherSavers, PictureInv, Tidy, Pending
  <2>2. Pending' = {v} /\ saving'[v].old = column'
    BY <2>1, <1>0 DEF Pending, SaveDoes, Onward
  <2>3. ASSUME ~litter', ~misled' PROVE LeftBy(v)'
    <3>1. ~litter /\ ~misled /\ saving[v].sent # "null"
      BY <2>3, <1>0 DEF SaveDoes, PictureInv, PictureTypes
    <3>2. LeftBy(v) BY <3>1, <2>1 DEF PictureInv, Tidy
    <3> QED BY <3>1, <3>2, <2>1, <1>0 DEF SaveDoes, Onward, LeftBy, Written
  <2> QED BY <2>2, <2>3 DEF Tidy
<1> QED BY <1>1, <1>2, <1>3, <1>4, <1>5, <1>6, <1>7 DEF PictureInv

LEMMA FindKeeps ==
  ASSUME PictureInv, NEW v \in Savers, FindPreferences(v)
  PROVE  PictureInv'
<1>0. FindPictureDoes(v) BY FindPictureIs
<1>1. PictureTypes' BY <1>0 DEF FindPictureDoes
<1>2. ReadWhenSettled'
  BY <1>0, PicturesAssumption DEF FindPictureDoes, Onward, OtherSavers, InHand,
     PictureInv, Files, Pending, ReadWhenSettled, ReadSettled
<1>3. PutsOwn'
  <2> SUFFICES ASSUME NEW q \in Pending'
               PROVE  /\ saving'[q].put \in Files =>
                           saving'[q].put = IF saving'[q].sent = "new" THEN q ELSE saving'[q].sent
                      /\ saving'[q].op = "deluser" => saving'[q].put = Blank
                      /\ saving'[q].step = "find" => saving'[q].op = "prefs"
    BY DEF PutsOwn
  <2>1. q \in Pending BY <1>0 DEF FindPictureDoes, OtherSavers, Pending
  <2>2. CASE q = v
    <3>1. PICK put \in {NoUser, saving[v].put} :
            /\ saving'[v].put = put /\ saving'[v].sent = saving[v].sent
            /\ saving'[v].op = saving[v].op /\ saving'[v].step = "write"
      BY <1>0 DEF FindPictureDoes, Onward
    <3>2. NoUser \notin Files /\ saving[v].op = "prefs"
      BY <2>1, <2>2, <1>0, PicturesAssumption DEF Files, FindPictureDoes, PictureInv,
         PutsOwn
    <3> QED BY <3>1, <3>2, <2>1, <2>2 DEF PictureInv, PutsOwn
  <2>3. CASE q # v
    BY <2>1, <2>3, <1>0 DEF FindPictureDoes, OtherSavers, PictureInv, PutsOwn, Pending
  <2> QED BY <2>2, <2>3
<1>4. AloneWithSent'
  BY <1>0, PicturesAssumption DEF FindPictureDoes, Onward, OtherSavers, InHand,
     PictureInv, Files, Pending, AloneWithSent
<1>5. OneLock'
  BY <1>0, PicturesAssumption DEF FindPictureDoes, Onward, OtherSavers, InHand,
     PictureInv, Files, Pending, OneLock, HoldsLock
<1>6. NamedIsThere'
  BY <1>0, PicturesAssumption DEF FindPictureDoes, Onward, OtherSavers, InHand,
     PictureInv, Files, Pending, NamedIsThere
<1>7. Tidy'
  BY <1>0, PicturesAssumption DEF FindPictureDoes, Onward, OtherSavers, InHand,
     PictureInv, Files, Pending, Tidy, LeftBy, Written, Shown
<1> QED BY <1>1, <1>2, <1>3, <1>4, <1>5, <1>6, <1>7 DEF PictureInv

LEMMA WritePictureKeeps ==
  ASSUME PictureInv, NEW v \in Savers, WritePicture(v)
  PROVE  PictureInv'
<1>0. WritePictureDoes(v) BY WritePictureIs
<1>1. PictureTypes' BY <1>0 DEF WritePictureDoes
<1>2. ReadWhenSettled'
  BY <1>0, PicturesAssumption DEF WritePictureDoes, Onward, OtherSavers, InHand,
     PictureInv, Files, Pending, ReadWhenSettled, ReadSettled
<1>3. PutsOwn'
  BY <1>0, PicturesAssumption DEF WritePictureDoes, Onward, OtherSavers, InHand,
     PictureInv, Files, Pending, PutsOwn
<1>4. AloneWithSent'
  BY <1>0, PicturesAssumption DEF WritePictureDoes, Onward, OtherSavers, InHand,
     PictureInv, Files, Pending, AloneWithSent
<1>5. OneLock'
  <2>1. \A q \in Savers : ~HoldsLock(q) BY <1>0 DEF WritePictureDoes, LockedRow, HoldsLock
  <2>2. \A q \in Savers \ {v} : ~HoldsLock(q)'
    BY <2>1, <1>0 DEF WritePictureDoes, OtherSavers, HoldsLock
  <2> QED BY <2>2 DEF OneLock
<1>6. NamedIsThere'
  BY <1>0, PicturesAssumption DEF WritePictureDoes, Onward, OtherSavers, InHand,
     PictureInv, Files, Pending, NamedIsThere
<1>7. Tidy'
  <2> SUFFICES ASSUME ~picturesCrowded' PROVE Tidy' BY DEF Tidy
  <2>1. /\ Pending = {v} /\ ~picturesCrowded /\ column' = column /\ saving[v].old = column
        /\ \A q \in Savers \ {v} : saving'[q] = saving[q]
    BY <1>0 DEF WritePictureDoes, OtherSavers, PictureInv, Tidy, Pending
  <2>2. CASE saving'[v].step = "failed" /\ litter' = TRUE
    <3>1. Pending' = {} BY <2>1, <2>2 DEF Pending
    <3> QED BY <3>1, <2>2 DEF Tidy
  <2>3. ASSUME litter' = litter, NEW step \in {"commit", "remove"},
               Onward(v, step, saving[v].found, saving[v].put),
               step = "commit" => column = NoUser \/ saving[v].op = "deluser"
        PROVE  Tidy'
    <3>1. Pending' = {v} /\ saving'[v].old = column' BY <2>1, <2>3 DEF Pending, Onward
    <3>2. ASSUME ~litter', ~misled' PROVE LeftBy(v)'
      <4>1. LeftBy(v) /\ ~misled /\ saving[v].step = "write" /\ onDisk' = onDisk
        BY <3>2, <2>1, <2>3, <1>0 DEF WritePictureDoes, PictureInv, Tidy
      <4>2. /\ saving[v].op # "deluser"
            /\ ~(saving[v].op = "edit" /\ saving[v].sent = "null")
            /\ onDisk \subseteq {column} \cup Written(v, saving[v].sent)
        BY <4>1 DEF LeftBy
      <4>3. CASE step = "remove"
        BY <4>1, <4>2, <4>3, <2>1, <2>3 DEF LeftBy, Onward
      <4>4. CASE step = "commit"
        <5>1. column = NoUser /\ onDisk \subseteq Files /\ NoUser \notin Files
          BY <4>2, <4>4, <2>3, PicturesAssumption DEF PictureInv, PictureTypes, Files
        <5>2. onDisk \subseteq Written(v, saving[v].sent) BY <5>1, <4>2
        <5>3. saving[v].sent = "new" => saving[v].put = v /\ v # NoUser
          BY <4>1, <2>1, PicturesAssumption DEF PictureInv, ReadWhenSettled, ReadSettled
        <5>4. onDisk \subseteq {saving[v].put} /\ (onDisk # {} => saving[v].put # NoUser)
          BY <5>2, <5>3 DEF Written
        <5> QED BY <5>4, <4>1, <4>2, <4>4, <2>1, <2>3 DEF LeftBy, Onward, Shown
      <4> QED BY <4>3, <4>4
    <3> QED BY <3>1, <3>2 DEF Tidy
  <2> QED BY <2>2, <2>3, <1>0 DEF WritePictureDoes
<1> QED BY <1>1, <1>2, <1>3, <1>4, <1>5, <1>6, <1>7 DEF PictureInv

LEMMA RemoveKeeps ==
  ASSUME PictureInv, NEW v \in Savers, RemoveOld(v)
  PROVE  PictureInv'
<1>0. RemoveDoes(v) BY RemoveIs
<1>1. PictureTypes' BY <1>0 DEF RemoveDoes
<1>2. ReadWhenSettled'
  BY <1>0, PicturesAssumption DEF RemoveDoes, Onward, OtherSavers, InHand, PictureInv,
     Files, Pending, ReadWhenSettled, ReadSettled
<1>3. PutsOwn'
  BY <1>0, PicturesAssumption DEF RemoveDoes, Onward, OtherSavers, InHand, PictureInv,
     Files, Pending, PutsOwn
<1>4. AloneWithSent'
  BY <1>0, PicturesAssumption DEF RemoveDoes, Onward, OtherSavers, InHand, PictureInv,
     Files, Pending, AloneWithSent
<1>5. OneLock'
  BY <1>0, PicturesAssumption DEF RemoveDoes, Onward, OtherSavers, InHand, PictureInv,
     Files, Pending, OneLock, HoldsLock
<1>6. NamedIsThere'
  <2> SUFFICES ASSUME ~undone', ~misled', column' \in Files
               PROVE  \/ column' \in onDisk'
                      \/ \E q \in Savers :
                           saving'[q].step = "commit" /\ saving'[q].put \notin {NoUser, column'}
    BY DEF NamedIsThere
  <2>1. column' = column /\ ~undone /\ ~misled /\ saving[v].step = "remove"
    BY <1>0 DEF RemoveDoes
  <2>2. CASE column \in onDisk
    <3>1. CASE saving[v].old = column /\ saving[v].old # Shown(saving[v])
      <4>1. saving'[v].step = "commit" /\ saving'[v].put \notin {NoUser, column}
        BY <3>1, <1>0 DEF RemoveDoes, Onward, Shown
      <4> QED BY <4>1, <2>1
    <3>2. CASE ~(saving[v].old = column /\ saving[v].old # Shown(saving[v]))
      BY <3>2, <2>1, <2>2, <1>0 DEF RemoveDoes
    <3> QED BY <3>1, <3>2
  <2>3. CASE column \notin onDisk
    <3>1. PICK q \in Savers : saving[q].step = "commit" /\ saving[q].put \notin {NoUser, column}
      BY <2>1, <2>3 DEF PictureInv, NamedIsThere
    <3> QED BY <3>1, <2>1, <1>0 DEF RemoveDoes, OtherSavers
  <2> QED BY <2>2, <2>3
<1>7. Tidy'
  <2> SUFFICES ASSUME ~picturesCrowded' PROVE Tidy' BY DEF Tidy
  <2>1. /\ Pending = {v} /\ ~picturesCrowded /\ column' = column /\ saving[v].old = column
        /\ \A q \in Savers \ {v} : saving'[q] = saving[q]
    BY <1>0 DEF RemoveDoes, OtherSavers, PictureInv, Tidy, Pending
  <2>2. Pending' = {v} /\ saving'[v].old = column'
    BY <2>1, <1>0 DEF Pending, RemoveDoes, Onward
  <2>3. ASSUME ~litter', ~misled' PROVE LeftBy(v)'
    <3>1. LeftBy(v) /\ ~misled /\ saving[v].step = "remove"
      BY <2>1, <2>3, <1>0 DEF RemoveDoes, PictureInv, Tidy
    <3>2. /\ saving[v].op # "deluser" /\ ~(saving[v].op = "edit" /\ saving[v].sent = "null")
          /\ onDisk \subseteq {column} \cup Written(v, saving[v].sent)
      BY <3>1 DEF LeftBy
    <3>3. saving[v].sent = "new" => saving[v].put = v /\ v # NoUser /\ v # column
      BY <3>1, <2>1, PicturesAssumption DEF PictureInv, ReadWhenSettled, ReadSettled
    <3>4. onDisk' \subseteq {Shown(saving[v])}
      <4>1. CASE saving[v].sent = "new"
        <5>1. Shown(saving[v]) = v BY <4>1, <3>3 DEF Shown
        <5> QED BY <5>1, <4>1, <3>2, <3>3, <2>1, <1>0 DEF RemoveDoes, Written
      <4>2. CASE saving[v].sent # "new"
        BY <4>2, <3>2, <2>1, <1>0 DEF RemoveDoes, Written
      <4> QED BY <4>1, <4>2
    <3> QED BY <3>2, <3>4, <2>1, <1>0 DEF RemoveDoes, Onward, LeftBy, Shown
  <2> QED BY <2>2, <2>3 DEF Tidy
<1> QED BY <1>1, <1>2, <1>3, <1>4, <1>5, <1>6, <1>7 DEF PictureInv

LEMMA CommitKeeps ==
  ASSUME PictureInv, NEW v \in Savers, CommitPicture(v)
  PROVE  PictureInv'
<1>0. CommitDoes(v) BY CommitIs
<1>1. PictureTypes' BY <1>0 DEF CommitDoes
<1>2. ReadWhenSettled'
  <2> SUFFICES ASSUME ~misled'
               PROVE  /\ column' \in Savers => saving'[column'].step = "done"
                      /\ \A q \in Savers : ReadSettled(q)'
    BY DEF ReadWhenSettled
  <2>1. /\ ~misled /\ saving[v].step = "commit" /\ saving'[v].step = "done"
        /\ onDisk' = onDisk
        /\ column \in Savers => saving[column].step = "done"
        /\ \A q \in Savers \ {v} : saving'[q] = saving[q]
    BY <1>0 DEF CommitDoes, OtherSavers, PictureInv, ReadWhenSettled
  <2>2. ASSUME NEW q \in Savers PROVE ReadSettled(q)'
    <3>1. ReadSettled(q) BY <2>1 DEF PictureInv, ReadWhenSettled
    <3> QED BY <3>1, <2>1 DEF ReadSettled, Pending
  <2>3. ASSUME column' \in Savers PROVE saving'[column'].step = "done"
    <3>0. v \in Pending BY <2>1 DEF Pending
    <3>1. CASE column' = column BY <3>1, <2>1, <2>3
    <3>2. CASE column' = saving[v].put
      <4>1. column' = IF saving[v].sent = "new" THEN v ELSE saving[v].sent
        BY <3>0, <3>2, <2>3 DEF PictureInv, PutsOwn, Files
      <4>2. CASE saving[v].sent = "new" BY <4>1, <4>2, <2>1
      <4>3. CASE saving[v].sent # "new"
        <5>1. column = saving[v].sent
          BY <4>1, <4>3, <3>0, <2>1, <2>3 DEF PictureInv, AloneWithSent, Files
        <5> QED BY <5>1, <4>1, <4>3, <2>1, <2>3
      <4> QED BY <4>2, <4>3
    <3>3. CASE column' = NoUser BY <3>3, <2>3, PicturesAssumption
    <3> QED BY <3>1, <3>2, <3>3, <1>0 DEF CommitDoes
  <2> QED BY <2>2, <2>3
<1>3. PutsOwn'
  BY <1>0, PicturesAssumption DEF CommitDoes, Onward, OtherSavers, InHand, PictureInv,
     Files, Pending, PutsOwn
<1>4. AloneWithSent'
  BY <1>0, PicturesAssumption DEF CommitDoes, Onward, OtherSavers, InHand, PictureInv,
     Files, Pending, AloneWithSent
<1>5. OneLock'
  BY <1>0, PicturesAssumption DEF CommitDoes, Onward, OtherSavers, InHand, PictureInv,
     Files, Pending, OneLock, HoldsLock
<1>6. NamedIsThere'
  <2> SUFFICES ASSUME ~undone', ~misled', column' \in Files
               PROVE  \/ column' \in onDisk'
                      \/ \E q \in Savers :
                           saving'[q].step = "commit" /\ saving'[q].put \notin {NoUser, column'}
    BY DEF NamedIsThere
  <2>1. /\ onDisk' = onDisk /\ ~undone /\ ~misled /\ saving[v].step = "commit"
        /\ v \in Pending
        /\ \A q \in Savers \ {v} : saving'[q] = saving[q]
    BY <1>0 DEF CommitDoes, OtherSavers, Pending
  <2>2. CASE saving[v].op # "deluser" /\ saving[v].put = NoUser /\ column' = column
    <3>1. CASE column \in onDisk BY <3>1, <2>1, <2>2
    <3>2. CASE column \notin onDisk
      <4>1. PICK q \in Savers : saving[q].step = "commit" /\ saving[q].put \notin {NoUser, column}
        BY <2>1, <2>2, <3>2 DEF PictureInv, NamedIsThere
      <4> QED BY <4>1, <2>1, <2>2
    <3> QED BY <3>1, <3>2
  <2>3. CASE saving[v].op # "deluser" /\ saving[v].put # NoUser /\ column' = saving[v].put
    <3>1. column' = IF saving[v].sent = "new" THEN v ELSE saving[v].sent
      BY <2>1, <2>3 DEF PictureInv, PutsOwn
    <3>2. CASE saving[v].sent = "new"
      BY <3>1, <3>2, <2>1 DEF PictureInv, ReadWhenSettled, ReadSettled
    <3>3. CASE saving[v].sent # "new"
      <4>1. Pending = {v} /\ column = column'
        BY <3>1, <3>3, <2>1 DEF PictureInv, AloneWithSent
      <4>2. \A q \in Savers \ {v} : saving[q].step # "commit" BY <4>1 DEF Pending
      <4>3. column \in onDisk BY <4>1, <4>2, <2>1, <2>3 DEF PictureInv, NamedIsThere
      <4> QED BY <4>1, <4>3, <2>1
    <3> QED BY <3>2, <3>3
  <2>4. CASE column' = NoUser BY <2>4, PicturesAssumption DEF Files
  <2> QED BY <2>2, <2>3, <2>4, <1>0 DEF CommitDoes
<1>7. Tidy'
  BY <1>0, PicturesAssumption DEF CommitDoes, Onward, OtherSavers, InHand, PictureInv,
     Files, Pending, Tidy, LeftBy, Written, Shown
<1> QED BY <1>1, <1>2, <1>3, <1>4, <1>5, <1>6, <1>7 DEF PictureInv

LEMMA FailKeeps ==
  ASSUME PictureInv, NEW v \in Savers, JobFails(v)
  PROVE  PictureInv'
<1>0. FailDoes(v) BY FailIs
<1>1. PictureTypes' BY <1>0 DEF FailDoes
<1>2. ReadWhenSettled'
  BY <1>0, PicturesAssumption DEF FailDoes, Onward, OtherSavers, InHand, PictureInv,
     Files, Pending, ReadWhenSettled, ReadSettled
<1>3. PutsOwn'
  BY <1>0, PicturesAssumption DEF FailDoes, Onward, OtherSavers, InHand, PictureInv,
     Files, Pending, PutsOwn
<1>4. AloneWithSent'
  BY <1>0, PicturesAssumption DEF FailDoes, Onward, OtherSavers, InHand, PictureInv,
     Files, Pending, AloneWithSent
<1>5. OneLock'
  BY <1>0, PicturesAssumption DEF FailDoes, Onward, OtherSavers, InHand, PictureInv,
     Files, Pending, OneLock, HoldsLock
<1>6. NamedIsThere'
  BY <1>0, PicturesAssumption DEF FailDoes, Onward, OtherSavers, InHand, PictureInv,
     Files, Pending, NamedIsThere
<1>7. Tidy'
  BY <1>0, PicturesAssumption DEF FailDoes, Onward, OtherSavers, InHand, PictureInv,
     Files, Pending, Tidy, LeftBy, Written, Shown
<1> QED BY <1>1, <1>2, <1>3, <1>4, <1>5, <1>6, <1>7 DEF PictureInv

\* Nothing is under way at the start, and every step keeps all of it.
LEMMA PictureInvHolds == PictureSpec => []PictureInv
<1>1. PictureInit => PictureInv
  <2> SUFFICES ASSUME PictureInit PROVE PictureInv OBVIOUS
  <2>1. \A v \in Savers : saving[v] = IdleJob BY DEF PictureInit
  <2>2. IdleJob \in Jobs BY DEF IdleJob, Jobs, Pointers, Sent, Files
  <2>3. PictureTypes BY <2>2 DEF PictureInit, PictureTypes, Pointers, Files
  <2>4. Pending = {} /\ \A v \in Savers : saving[v].step = "new"
    BY <2>1 DEF Pending, IdleJob
  <2>5. column \notin Savers /\ (column \in Files => column \in onDisk) /\ onDisk \subseteq {column}
    BY PicturesAssumption DEF PictureInit, Files
  <2> QED
    BY <2>3, <2>4, <2>5 DEF PictureInv, ReadWhenSettled, ReadSettled, PutsOwn,
       AloneWithSent, OneLock,
        HoldsLock, NamedIsThere, Tidy
<1>2. PictureInv /\ [PictureNext]_pictureVars => PictureInv'
  <2> SUFFICES ASSUME PictureInv, [PictureNext]_pictureVars PROVE PictureInv' OBVIOUS
  <2>1. CASE UNCHANGED pictureVars
    BY <2>1 DEF pictureVars, PictureInv, PictureTypes, ReadWhenSettled, ReadSettled,
       PutsOwn, AloneWithSent,
       LeftBy, OneLock, HoldsLock, NamedIsThere, Tidy, Pending, Written, Shown
  <2>2. CASE PictureNext
    <3>1. PICK v \in Savers :
            \/ \E op \in Operations(kind), sent \in Sent :
                 AskPicture(v, op, sent) /\ (op = "deluser" => sent = "empty")
            \/ SavePicture(v) \/ FindPreferences(v) \/ WritePicture(v) \/ RemoveOld(v)
            \/ CommitPicture(v) \/ JobFails(v)
      <4>1. "empty" \in Sent BY DEF Sent
      <4>2. \A v \in Savers, op \in {"prefs", "edit", "me", "create", "deluser"}, sent \in Sent :
              AskPicture(v, op, sent) => op \in Operations(kind)
        BY DEF AskPicture
      <4> QED BY <2>2, <4>1, <4>2 DEF PictureNext
    <3> QED
      BY <3>1, AskKeeps, SaveKeeps, FindKeeps, WritePictureKeeps, RemoveKeeps,
         CommitKeeps, FailKeeps
  <2> QED BY <2>1, <2>2
<1> QED BY <1>1, <1>2, PTL DEF PictureSpec

\* avatar.py and the services that use it: the state of the pictures keeps its types.
THEOREM PictureTypesHold == PictureSpec => []PictureTypeOK
<1>1. PictureInv => PictureTypeOK
  BY DEF PictureInv, PictureTypes, PictureTypeOK, Jobs, Pointers, InHand
<1> QED BY PictureInvHolds, <1>1, PTL

\* user_service.update_avatar, update and create, and upsert of the preferences:
\* for any number of requests, the column names a file there is while nobody is
\* about to replace it, and requests that neither overlap nor fail leave no other.
THEOREM PicturesKeptHolds == PictureSpec => []PicturesKept
<1>1. PictureInv => NamesAFile
  BY DEF PictureInv, NamedIsThere, NamesAFile, LockedRow
<1>2. PictureInv => NoLeftovers
  BY DEF PictureInv, Tidy, NoLeftovers
<1> QED BY PictureInvHolds, <1>1, <1>2, PTL DEF PicturesKept

-----------------------------------------------------------------------------
(* Uploads: files written piece by piece.                                  *)

\* An upload at any step: what it carries.
Uploaded ==
  [step : {"new", "write", "done", "refused"}, name : UploadNames \cup {"none"},
   ext : Extensions, len : 0 .. Chunks, at : Paths \cup {<<>>}, pos : 0 .. Chunks]

\* The types of the uploads and of the files.
UploadTypes ==
  /\ second \in 1 .. Seconds /\ upload \in [Uploaders -> Uploaded]
  /\ DOMAIN content \subseteq Paths /\ content = [f \in DOMAIN content |-> content[f]]
  /\ \A f \in DOMAIN content : content[f] \in Seq(Uploaders) /\ Len(content[f]) <= Chunks

\* The file of an upload has its name, and is there.
OpenedAsNamed ==
  \A u \in Uploaders :
    /\ upload[u].step = "new" => upload[u].at = <<>>
    /\ upload[u].step \in {"write", "done"} => upload[u].at # <<>>
    /\ upload[u].at # <<>> =>
         /\ upload[u].at \in DOMAIN content
         /\ upload[u].at[1] = upload[u].name /\ upload[u].at[2] = upload[u].ext
    /\ upload[u].pos <= upload[u].len
    /\ upload[u].step = "done" => upload[u].pos = upload[u].len

\* Another upload has opened the same file.
Shares(u) == \E q \in Uploaders \ {u} : upload[q].at = upload[u].at

\* What u alone has written is in its file.
WrittenSoFar ==
  \A u \in Uploaders : upload[u].step \in {"write", "done"} =>
    Shares(u) \/ content[upload[u].at] = [i \in 1 .. upload[u].pos |-> u]

\* All of it together.
UploadInv == UploadTypes /\ OpenedAsNamed /\ WrittenSoFar

\* An upload that opens its file names it, and empties it.
LEMMA OpenIs ==
  ASSUME UploadInv, NEW u \in Uploaders, NEW name \in UploadNames, NEW ext \in Extensions,
         NEW len \in 1 .. Chunks, Open(u, name, ext, len), Verified(ext)
  PROVE  LET f == upload'[u].at
         IN  /\ upload[u].step = "new" /\ upload' \in [Uploaders -> Uploaded]
             /\ \A q \in Uploaders \ {u} : upload'[q] = upload[q]
             /\ upload'[u].step = "write" /\ upload'[u].name = name /\ upload'[u].ext = ext
             /\ upload'[u].len = len /\ upload'[u].pos = 0
             /\ f \in Paths /\ f # <<>> /\ f[1] = name /\ f[2] = ext
             /\ content' = [g \in DOMAIN content \cup {f} |-> IF g = f THEN <<>> ELSE content[g]]
<1> DEFINE f == BuildFilename(name, ext)
           w == [step |-> "write", name |-> name, ext |-> ext, len |-> len, at |-> f, pos |-> 0]
<1>1. f \in Paths /\ f # <<>> /\ f[1] = name /\ f[2] = ext
  <2>1. (IF ext = "lower" THEN second ELSE 0) \in 0 .. Seconds
    BY UploadsAssumption DEF UploadInv, UploadTypes
  <2> QED BY <2>1 DEF BuildFilename, Paths
<1>2. w \in Uploaded BY <1>1, UploadsAssumption DEF Uploaded
<1>3. /\ upload[u].step = "new" /\ upload' = [upload EXCEPT ![u] = w]
      /\ content' = [g \in DOMAIN content \cup {f} |-> IF g = f THEN <<>> ELSE content[g]]
  BY DEF Open
<1>4. /\ w.step = "write" /\ w.name = name /\ w.ext = ext /\ w.len = len /\ w.pos = 0
      /\ w.at = f
  OBVIOUS
<1> HIDE DEF f, w
<1>5. upload'[u] = w /\ upload' \in [Uploaders -> Uploaded]
      /\ \A q \in Uploaders \ {u} : upload'[q] = upload[q]
  BY <1>2, <1>3 DEF UploadInv, UploadTypes
<1> QED BY <1>1, <1>3, <1>4, <1>5

LEMMA OpenKeeps ==
  ASSUME UploadInv, NEW u \in Uploaders, NEW name \in UploadNames, NEW ext \in Extensions,
         NEW len \in 1 .. Chunks, Open(u, name, ext, len)
  PROVE  UploadInv'
<1>1. CASE ~Verified(ext)
  <2>1. upload' = [upload EXCEPT ![u].step = "refused"] /\ UNCHANGED <<second, content>>
        /\ upload[u].step = "new"
    BY <1>1 DEF Open
  <2>2. /\ upload' \in [Uploaders -> Uploaded] /\ upload'[u].step = "refused"
        /\ \A q \in Uploaders \ {u} : upload'[q] = upload[q]
        /\ \A q \in Uploaders : /\ upload'[q].at = upload[q].at /\ upload'[q].pos = upload[q].pos
                                /\ upload'[q].name = upload[q].name
                                /\ upload'[q].len = upload[q].len
                                /\ upload'[q].ext = upload[q].ext
    BY <2>1 DEF UploadInv, UploadTypes, Uploaded
  <2>3. UploadTypes' BY <2>1, <2>2 DEF UploadInv, UploadTypes
  <2>4. OpenedAsNamed' BY <2>1, <2>2 DEF UploadInv, OpenedAsNamed
  <2>5. WrittenSoFar' BY <2>1, <2>2 DEF UploadInv, WrittenSoFar, Shares
  <2> QED BY <2>3, <2>4, <2>5 DEF UploadInv
<1>2. CASE Verified(ext)
  <2> DEFINE f == upload'[u].at
  <2>1. /\ upload[u].step = "new" /\ upload' \in [Uploaders -> Uploaded]
        /\ \A q \in Uploaders \ {u} : upload'[q] = upload[q]
        /\ upload'[u].step = "write" /\ upload'[u].name = name /\ upload'[u].ext = ext
        /\ upload'[u].len = len /\ upload'[u].pos = 0
        /\ f \in Paths /\ f # <<>> /\ f[1] = name /\ f[2] = ext
        /\ content' = [g \in DOMAIN content \cup {f} |-> IF g = f THEN <<>> ELSE content[g]]
    BY <1>2, OpenIs
  <2>2. second' = second BY DEF Open
  <2>3. /\ DOMAIN content' = DOMAIN content \cup {f} /\ content'[f] = <<>>
        /\ \A g \in DOMAIN content \ {f} : content'[g] = content[g]
        /\ content' = [g \in DOMAIN content' |-> content'[g]]
    BY <2>1
  <2> HIDE DEF f
  <2>4. UploadTypes'
    <3>1. ASSUME NEW g \in DOMAIN content'
          PROVE content'[g] \in Seq(Uploaders) /\ Len(content'[g]) <= Chunks
      <4>1. CASE g = f BY <4>1, <2>3, UploadsAssumption
      <4>2. CASE g # f BY <4>2, <2>3 DEF UploadInv, UploadTypes
      <4> QED BY <4>1, <4>2
    <3>2. DOMAIN content' \subseteq Paths BY <2>1, <2>3 DEF UploadInv, UploadTypes
    <3>3. second' \in 1 .. Seconds BY <2>2 DEF UploadInv, UploadTypes
    <3> QED BY <3>1, <3>2, <3>3, <2>1, <2>3 DEF UploadTypes
  <2>5. OpenedAsNamed'
    <3> SUFFICES ASSUME NEW q \in Uploaders
                 PROVE  /\ upload'[q].step = "new" => upload'[q].at = <<>>
                        /\ upload'[q].step \in {"write", "done"} => upload'[q].at # <<>>
                        /\ upload'[q].at # <<>> =>
                             /\ upload'[q].at \in DOMAIN content'
                             /\ upload'[q].at[1] = upload'[q].name
                             /\ upload'[q].at[2] = upload'[q].ext
                        /\ upload'[q].pos <= upload'[q].len
                        /\ upload'[q].step = "done" => upload'[q].pos = upload'[q].len
      BY DEF OpenedAsNamed
    <3>1. CASE q = u BY <3>1, <2>1, <2>3 DEF f
    <3>2. CASE q # u BY <3>2, <2>1, <2>3 DEF UploadInv, OpenedAsNamed
    <3> QED BY <3>1, <3>2
  <2>6. WrittenSoFar'
    <3> SUFFICES ASSUME NEW q \in Uploaders, upload'[q].step \in {"write", "done"}, ~Shares(q)'
                 PROVE  content'[upload'[q].at] = [i \in 1 .. upload'[q].pos |-> q]
      BY DEF WrittenSoFar
    <3>1. CASE q = u BY <3>1, <2>1, <2>3 DEF f
    <3>2. CASE q # u
      <4>1. upload'[q] = upload[q] BY <3>2, <2>1
      <4>2. upload[q].at # f BY <3>2, <4>1 DEF Shares, f
      <4>3. ~Shares(q)
        <5> SUFFICES ASSUME NEW p \in Uploaders \ {q}, upload[p].at = upload[q].at
                     PROVE FALSE
          BY DEF Shares
        <5>1. CASE p = u BY <5>1, <4>1, <2>1 DEF UploadInv, OpenedAsNamed
        <5>2. CASE p # u BY <5>2, <4>1, <2>1 DEF Shares
        <5> QED BY <5>1, <5>2
      <4>4. upload[q].at \in DOMAIN content BY <4>1 DEF UploadInv, OpenedAsNamed
      <4> QED BY <4>1, <4>2, <4>3, <4>4, <2>3 DEF UploadInv, WrittenSoFar
    <3> QED BY <3>1, <3>2
  <2> QED BY <2>4, <2>5, <2>6 DEF UploadInv
<1> QED BY <1>1, <1>2

\* A piece is put at its place: what its writer alone had written is one longer.
LEMMA PieceIs ==
  ASSUME NEW u \in Uploaders, NEW old \in Seq(Uploaders), Len(old) <= Chunks,
         NEW n \in 1 .. Chunks
  PROVE  /\ Overwritten(old, n, u) \in Seq(Uploaders) /\ Len(Overwritten(old, n, u)) <= Chunks
         /\ old = [i \in 1 .. n - 1 |-> u] => Overwritten(old, n, u) = [i \in 1 .. n |-> u]
<1> DEFINE m == IF Len(old) < n THEN n ELSE Len(old)
<1>1. m \in 0 .. Chunks BY UploadsAssumption
<1>2. \A i \in 1 .. m : (IF i = n \/ i > Len(old) THEN u ELSE old[i]) \in Uploaders
  BY <1>1, UploadsAssumption
<1>3. Overwritten(old, n, u) = [i \in 1 .. m |-> IF i = n \/ i > Len(old) THEN u ELSE old[i]]
  BY DEF Overwritten
<1>4. ASSUME old = [i \in 1 .. n - 1 |-> u]
      PROVE Overwritten(old, n, u) = [i \in 1 .. n |-> u]
  <2>1. Len(old) = n - 1 BY <1>4, UploadsAssumption
  <2>2. m = n BY <2>1, UploadsAssumption
  <2>3. \A i \in 1 .. n : (IF i = n \/ i > Len(old) THEN u ELSE old[i]) = u
    BY <1>4, <2>1, UploadsAssumption
  <2> QED BY <2>2, <2>3, <1>3
<1> HIDE DEF m
<1>5. Overwritten(old, n, u) \in Seq(Uploaders) /\ Len(Overwritten(old, n, u)) = m
  BY <1>1, <1>2, <1>3
<1> QED BY <1>1, <1>4, <1>5, UploadsAssumption

LEMMA UploadWriteKeeps ==
  ASSUME UploadInv, NEW u \in Uploaders, WriteChunk(u)
  PROVE  UploadInv'
<1> DEFINE f == upload[u].at
           n == upload[u].pos + 1
<1>1. /\ upload[u].step = "write" /\ f # <<>> /\ f \in DOMAIN content
      /\ upload[u] \in Uploaded
      /\ second' = second /\ n - 1 <= upload[u].len
  <2>1. upload[u].step = "write" /\ second' = second /\ upload[u] \in Uploaded
    BY DEF WriteChunk, UploadInv, UploadTypes
  <2>2. f # <<>> /\ f \in DOMAIN content /\ upload[u].pos <= upload[u].len
    BY <2>1 DEF UploadInv, OpenedAsNamed
  <2>3. n - 1 = upload[u].pos BY <2>1 DEF Uploaded
  <2> QED BY <2>1, <2>2, <2>3
<1>2. CASE upload[u].pos < upload[u].len
  <2>1. /\ upload' = [upload EXCEPT ![u].pos = @ + 1]
        /\ content' = [content EXCEPT ![f] = Overwritten(content[f], n, u)]
    BY <1>2 DEF WriteChunk
  <2>2. n \in 1 .. Chunks /\ n <= upload[u].len
    BY <1>1, <1>2, UploadsAssumption DEF Uploaded
  <2>3. content[f] \in Seq(Uploaders) /\ Len(content[f]) <= Chunks
    BY <1>1 DEF UploadInv, UploadTypes
  <2> HIDE DEF f
  <2>4. /\ DOMAIN content' = DOMAIN content /\ content'[f] = Overwritten(content[f], n, u)
        /\ \A g \in DOMAIN content \ {f} : content'[g] = content[g]
        /\ content' = [g \in DOMAIN content' |-> content'[g]]
    BY <2>1, <1>1 DEF UploadInv, UploadTypes, f
  <2>5. /\ upload' \in [Uploaders -> Uploaded] /\ upload'[u].pos = n
        /\ \A q \in Uploaders \ {u} : upload'[q] = upload[q]
        /\ \A q \in Uploaders :
             /\ upload'[q].step = upload[q].step /\ upload'[q].at = upload[q].at
             /\ upload'[q].name = upload[q].name /\ upload'[q].len = upload[q].len
             /\ upload'[q].ext = upload[q].ext
    <3>1. n \in 0 .. Chunks BY <2>2, UploadsAssumption
    <3>2. upload' = [upload EXCEPT ![u] = [upload[u] EXCEPT !.pos = n]] BY <2>1
    <3>3. [upload[u] EXCEPT !.pos = n] \in Uploaded BY <3>1, <1>1 DEF Uploaded
    <3> HIDE DEF n
    <3> QED BY <3>2, <3>3, <1>1 DEF UploadInv, UploadTypes, Uploaded
  <2>6. Overwritten(content[f], n, u) \in Seq(Uploaders) /\ Len(Overwritten(content[f], n, u)) <= Chunks
    BY <2>2, <2>3, PieceIs
  <2>7. UploadTypes'
    <3>1. \A g \in DOMAIN content' : content'[g] \in Seq(Uploaders) /\ Len(content'[g]) <= Chunks
      BY <2>4, <2>6 DEF UploadInv, UploadTypes
    <3> QED BY <3>1, <2>4, <2>5, <1>1 DEF UploadInv, UploadTypes
  <2>8. OpenedAsNamed'
    <3>1. \A q \in Uploaders : upload'[q].pos <= upload'[q].len
      BY <2>5, <2>2 DEF UploadInv, OpenedAsNamed
    <3>2. \A q \in Uploaders : upload'[q].step = "done" => upload'[q].pos = upload'[q].len
      BY <2>5, <1>1 DEF UploadInv, OpenedAsNamed
    <3> QED BY <3>1, <3>2, <2>4, <2>5 DEF UploadInv, OpenedAsNamed
  <2>9. WrittenSoFar'
    <3> SUFFICES ASSUME NEW q \in Uploaders, upload'[q].step \in {"write", "done"}, ~Shares(q)'
                 PROVE  content'[upload'[q].at] = [i \in 1 .. upload'[q].pos |-> q]
      BY DEF WrittenSoFar
    <3>1. ~Shares(q) BY <2>5 DEF Shares
    <3>2. content[upload[q].at] = [i \in 1 .. upload[q].pos |-> q]
      BY <3>1, <2>5 DEF UploadInv, WrittenSoFar
    <3>3. CASE q = u
      <4>1. content[f] = [i \in 1 .. n - 1 |-> u]
        <5>1. n - 1 = upload[u].pos BY <1>1 DEF Uploaded
        <5> QED BY <5>1, <3>2, <3>3 DEF f
      <4> HIDE DEF n
      <4>2. Overwritten(content[f], n, u) = [i \in 1 .. n |-> u]
        BY <4>1, <2>2, <2>3, PieceIs
      <4>3. content'[f] = [i \in 1 .. n |-> u] BY <4>2, <2>4
      <4> QED BY <4>3, <3>3, <2>5 DEF f
    <3>4. CASE q # u
      <4>1. upload[q].at # f BY <3>1, <3>4 DEF Shares, f
      <4>2. upload[q].at \in DOMAIN content /\ upload'[q] = upload[q]
        BY <3>4, <2>5 DEF UploadInv, OpenedAsNamed
      <4> QED BY <4>1, <4>2, <3>2, <2>4
    <3> QED BY <3>3, <3>4
  <2> QED BY <2>7, <2>8, <2>9 DEF UploadInv
<1>3. CASE ~(upload[u].pos < upload[u].len)
  <2>1. upload' = [upload EXCEPT ![u].step = "done"] /\ UNCHANGED content
    BY <1>3 DEF WriteChunk
  <2>2. /\ upload' \in [Uploaders -> Uploaded] /\ upload'[u].step = "done"
        /\ \A q \in Uploaders \ {u} : upload'[q] = upload[q]
        /\ \A q \in Uploaders : /\ upload'[q].at = upload[q].at /\ upload'[q].pos = upload[q].pos
                                /\ upload'[q].name = upload[q].name
                                /\ upload'[q].len = upload[q].len
                                /\ upload'[q].ext = upload[q].ext
    BY <2>1 DEF UploadInv, UploadTypes, Uploaded
  <2>3. UploadTypes' BY <2>1, <2>2, <1>1 DEF UploadInv, UploadTypes
  <2>4. upload[u].pos = upload[u].len BY <1>1, <1>3 DEF Uploaded
  <2>5. OpenedAsNamed' BY <2>1, <2>2, <2>4, <1>1 DEF UploadInv, OpenedAsNamed
  <2>6. WrittenSoFar' BY <2>1, <2>2, <1>1 DEF UploadInv, WrittenSoFar, Shares
  <2> QED BY <2>3, <2>5, <2>6 DEF UploadInv
<1> QED BY <1>2, <1>3

LEMMA UploadFailKeeps ==
  ASSUME UploadInv, NEW u \in Uploaders, UploadFails(u)
  PROVE  UploadInv'
<1>1. upload' = [upload EXCEPT ![u].step = "refused"] /\ UNCHANGED <<second, content>>
  BY DEF UploadFails
<1>2. /\ upload' \in [Uploaders -> Uploaded] /\ upload'[u].step = "refused"
      /\ \A q \in Uploaders \ {u} : upload'[q] = upload[q]
      /\ \A q \in Uploaders : /\ upload'[q].at = upload[q].at /\ upload'[q].pos = upload[q].pos
                              /\ upload'[q].name = upload[q].name
                              /\ upload'[q].len = upload[q].len
                              /\ upload'[q].ext = upload[q].ext
  BY <1>1 DEF UploadInv, UploadTypes, Uploaded
<1>3. UploadTypes' BY <1>1, <1>2 DEF UploadInv, UploadTypes
<1>4. OpenedAsNamed' BY <1>1, <1>2 DEF UploadInv, OpenedAsNamed
<1>5. WrittenSoFar' BY <1>1, <1>2 DEF UploadInv, WrittenSoFar, Shares
<1> QED BY <1>3, <1>4, <1>5 DEF UploadInv

\* No file is there at the start, and every step keeps all of it.
LEMMA UploadInvHolds == UploadSpec => []UploadInv
<1>1. UploadInit => UploadInv
  <2> SUFFICES ASSUME UploadInit PROVE UploadInv OBVIOUS
  <2>1. NoUpload \in Uploaded BY UploadsAssumption DEF NoUpload, Uploaded, Extensions
  <2>2. \A u \in Uploaders : upload[u] = NoUpload BY DEF UploadInit
  <2>3. UploadTypes BY <2>1, UploadsAssumption DEF UploadInit, UploadTypes
  <2> QED BY <2>2, <2>3 DEF NoUpload, UploadInv, OpenedAsNamed, WrittenSoFar
<1>2. UploadInv /\ [UploadNext]_uploadVars => UploadInv'
  <2> SUFFICES ASSUME UploadInv, [UploadNext]_uploadVars PROVE UploadInv' OBVIOUS
  <2>1. CASE NextSecond
    <3>1. second' \in 1 .. Seconds /\ UNCHANGED <<upload, content>>
      BY <2>1, UploadsAssumption DEF NextSecond, UploadInv, UploadTypes
    <3> QED BY <3>1 DEF UploadInv, UploadTypes, OpenedAsNamed, WrittenSoFar, Shares
  <2>2. CASE UNCHANGED uploadVars
    BY <2>2 DEF uploadVars, UploadInv, UploadTypes, OpenedAsNamed, WrittenSoFar, Shares
  <2> QED BY <2>1, <2>2, OpenKeeps, UploadWriteKeeps, UploadFailKeeps DEF UploadNext
<1> QED BY <1>1, <1>2, PTL DEF UploadSpec

\* utils/file_ops.py: the state of the uploads keeps its types.
THEOREM UploadTypesHold == UploadSpec => []UploadTypeOK
<1>1. UploadInv => UploadTypeOK BY DEF UploadInv, UploadTypes, UploadTypeOK, Uploaded
<1> QED BY UploadInvHolds, <1>1, PTL

\* upload_file (utils/file_ops.py): for any number of uploads of any length, a
\* file that was acknowledged holds what its request sent, unless another upload
\* built the same file name.
THEOREM UploadsKeptHolds == UploadSpec => []UploadsKept
<1>1. UploadInv => UploadsKept
  <2> SUFFICES ASSUME UploadInv, NEW u \in Uploaders, upload[u].step = "done"
               PROVE  \/ content[upload[u].at] = [i \in 1 .. upload[u].len |-> u]
                      \/ \E q \in Uploaders \ {u} :
                           /\ upload[q].name = upload[u].name
                           /\ upload[q].ext = upload[u].ext
                           /\ upload[u].ext = "lower" => upload[q].at[3] = upload[u].at[3]
    BY DEF UploadsKept
  <2>1. upload[u].pos = upload[u].len /\ upload[u].at # <<>>
    BY DEF UploadInv, OpenedAsNamed
  <2>2. CASE Shares(u) BY <2>1, <2>2 DEF Shares, UploadInv, OpenedAsNamed
  <2>3. CASE ~Shares(u) BY <2>1, <2>3 DEF UploadInv, WrittenSoFar
  <2> QED BY <2>2, <2>3
<1> QED BY UploadInvHolds, <1>1, PTL

-----------------------------------------------------------------------------
(* TaskResults: the row of a task and its attempts.                        *)

\* An attempt that a worker has taken.
Started(n) == attempt[n].step \notin {"none", "sent"}

\* The state an attempt stores last.
Ending(n) == attempt[n].step \in {"find", "write"} /\ attempt[n].state # "STARTED"

\* The attempts are made one after the other, each by the one before it as it
\* ends.
InTurn ==
  /\ \E m \in Order : Made = 1 .. m
  /\ \A n, q \in Order : n \in Made /\ q < n => attempt[q].step = "over" \/ Ending(q)
  /\ \A n \in Order : attempt[n].step # "over" => attempt[n].failed < Tries
  /\ result # NoResult => Started(result.of)

\* While none is overtaken, the attempts before one at work are over.
Alone == ~late => \A n, q \in Order : Started(n) /\ q < n => attempt[q].step = "over"

\* The row came or went since the attempt looked for it.
Doomed(n) == attempt[n].step = "write" /\ (attempt[n].found <=> result = NoResult)

\* The tries of a store that failed, with the one that is bound to fail, are
\* deletions and failures of the database.
Excused ==
  ~late => \A n \in Order :
    attempt[n].step \in {"find", "write"} =>
      attempt[n].failed <= trouble /\ (Doomed(n) => attempt[n].failed < trouble)

\* What the last attempt stored is shown, or was deleted.
Visible ==
  ~dead /\ ~late /\ trouble < Tries => \A n \in Made :
    attempt[n].step = "over" /\ (\A q \in Made : q <= n) =>
      result = [of |-> n, state |-> attempt[n].state] \/ (result = NoResult /\ trouble > 0)

\* All of it together.
ResultInv == ResultTypeOK /\ InTurn /\ Alone /\ Excused /\ Visible

\* An attempt, at whatever step it is.
AttemptRecords ==
  [step : {"none", "sent", "find", "write", "works", "over"},
   state : {"STARTED"} \cup Outcomes, found : BOOLEAN, failed : 0 .. Tries]

\* What a step leaves as it was: every other attempt.
Rest(n) == \A q \in Order \ {n} : attempt'[q] = attempt[q]

\* There is a first try.
LEMMA NoTry == 0 \in 0 .. Tries /\ 0 < Tries
BY TaskResultsAssumption

\* A store begins with a look for the row.
LEMMA StoresIs ==
  ASSUME NEW n, NEW state \in {"STARTED"} \cup Outcomes
  PROVE  /\ Stores(n, state) \in AttemptRecords /\ Stores(n, state).step = "find"
         /\ Stores(n, state).state = state /\ Stores(n, state).failed = 0
BY NoTry DEF Stores, NoAttempt, AttemptRecords

\* A step is of one attempt.
LEMMA AttemptIsOne ==
  ASSUME ResultTypeOK, NEW n \in Order, NEW w \in AttemptRecords, AttemptIs(n, w)
  PROVE  attempt' \in [Order -> AttemptRecords] /\ attempt'[n] = w /\ Rest(n)
BY DEF ResultTypeOK, AttemptRecords, AttemptIs, Rest

\* What an attempt carries.
LEMMA AttemptFields ==
  ASSUME ResultInv, NEW n \in Order
  PROVE  /\ attempt[n] \in AttemptRecords
         /\ attempt[n].step \in {"none", "sent", "find", "write", "works", "over"}
         /\ attempt[n].state \in {"STARTED"} \cup Outcomes /\ attempt[n].found \in BOOLEAN
         /\ attempt[n].failed \in 0 .. Tries /\ trouble \in Nat
         /\ attempt[n].step # "over" => attempt[n].failed < Tries
<1>1. attempt[n] \in AttemptRecords BY DEF ResultInv, ResultTypeOK, AttemptRecords
<1>2. trouble \in Nat BY TaskResultsAssumption DEF ResultInv, ResultTypeOK
<1>3. attempt[n].step # "over" => attempt[n].failed < Tries BY DEF ResultInv, InTurn
<1> QED BY <1>1, <1>2, <1>3 DEF AttemptRecords

\* What each step does to the attempt it is of.
LEMMA StartIs ==
  ASSUME ResultInv, NEW n \in Order, StartAttempt(n)
  PROVE  /\ attempt' \in [Order -> AttemptRecords] /\ Rest(n) /\ attempt[n].step = "sent"
         /\ attempt'[n].step = "find" /\ attempt'[n].state = "STARTED"
         /\ attempt'[n].failed = 0
         /\ (~late' => ~late /\ (n > 1 => attempt[n - 1].step = "over"))
         /\ late' \in BOOLEAN /\ UNCHANGED <<result, trouble, dead>>
<1> DEFINE w == Stores(n, "STARTED")
<1>1. w \in AttemptRecords /\ w.step = "find" /\ w.state = "STARTED" /\ w.failed = 0
  BY StoresIs
<1>2. AttemptIs(n, w) BY DEF StartAttempt
<1> HIDE DEF w
<1>3. attempt' \in [Order -> AttemptRecords] /\ attempt'[n] = w /\ Rest(n)
  BY <1>1, <1>2, AttemptIsOne DEF ResultInv
<1>4. /\ ~late' => ~late /\ (n > 1 => attempt[n - 1].step = "over")
      /\ late' \in BOOLEAN
  BY DEF StartAttempt, ResultInv, ResultTypeOK
<1> QED BY <1>1, <1>3, <1>4 DEF StartAttempt

LEMMA FindIs ==
  ASSUME ResultInv, NEW n \in Order, FindResult(n)
  PROVE  /\ attempt' \in [Order -> AttemptRecords] /\ Rest(n) /\ attempt[n].step = "find"
         /\ attempt'[n].step = "write" /\ attempt'[n].state = attempt[n].state
         /\ attempt'[n].failed = attempt[n].failed
         /\ (attempt'[n].found <=> result # NoResult)
         /\ UNCHANGED <<result, trouble, late, dead>>
<1> DEFINE w == [attempt[n] EXCEPT !.step = "write", !.found = result # NoResult]
<1>1. /\ w \in AttemptRecords /\ w.step = "write" /\ w.state = attempt[n].state
      /\ w.failed = attempt[n].failed
      /\ (w.found <=> result # NoResult)
  BY AttemptFields DEF AttemptRecords
<1>2. AttemptIs(n, w) BY DEF FindResult
<1> HIDE DEF w
<1>3. attempt' \in [Order -> AttemptRecords] /\ attempt'[n] = w /\ Rest(n)
  BY <1>1, <1>2, AttemptIsOne DEF ResultInv
<1> QED BY <1>1, <1>3 DEF FindResult

\* A failed store is tried again, or given up.
LEMMA TryAgainIs ==
  ASSUME ResultInv, NEW n \in Order, attempt[n].step # "over"
  PROVE  LET w == TryAgain(attempt[n])
         IN  /\ w \in AttemptRecords /\ w.failed = attempt[n].failed + 1 /\ w.state = attempt[n].state
             /\ \/ w.step = "find" /\ w.failed < Tries
                \/ w.step = "over" /\ w.failed >= Tries
<1> DEFINE step == IF attempt[n].failed + 1 >= Tries THEN "over" ELSE "find"
           failed == attempt[n].failed + 1
<1>1. failed \in 0 .. Tries BY AttemptFields, TaskResultsAssumption
<1>2. (step = "find" /\ failed < Tries) \/ (step = "over" /\ failed >= Tries)
  BY <1>1, TaskResultsAssumption
<1>3. TryAgain(attempt[n]) = [attempt[n] EXCEPT !.failed = failed, !.found = FALSE, !.step = step]
  BY AttemptFields DEF TryAgain, AttemptRecords
<1> HIDE DEF step, failed
<1>4. /\ TryAgain(attempt[n]).failed = failed /\ TryAgain(attempt[n]).step = step
      /\ TryAgain(attempt[n]).state = attempt[n].state
      /\ TryAgain(attempt[n]) \in AttemptRecords
  BY <1>1, <1>2, <1>3, AttemptFields DEF AttemptRecords
<1> QED BY <1>2, <1>4 DEF failed

LEMMA WriteIs ==
  ASSUME ResultInv, NEW n \in Order, WriteResult(n)
  PROVE  /\ attempt' \in [Order -> AttemptRecords] /\ Rest(n) /\ attempt[n].step = "write"
         /\ UNCHANGED <<trouble, late, dead>>
         /\ \/ /\ (attempt[n].found <=> result # NoResult)
               /\ result' = [of |-> n, state |-> attempt[n].state]
               /\ attempt'[n].failed = 0
               /\ \/ attempt[n].state = "STARTED" /\ attempt'[n].step = "works"
                  \/ /\ attempt[n].state # "STARTED" /\ attempt'[n].step = "over"
                     /\ attempt'[n].state = attempt[n].state
            \/ /\ (attempt[n].found <=> result = NoResult)
               /\ result' = result
               /\ attempt'[n].state = attempt[n].state
               /\ attempt'[n].failed = attempt[n].failed + 1
               /\ \/ attempt'[n].step = "find" /\ attempt'[n].failed < Tries
                  \/ attempt'[n].step = "over" /\ attempt'[n].failed >= Tries
<1> DEFINE fits == attempt[n].found = (result # NoResult)
           put == IF fits THEN Stored(attempt[n]) ELSE TryAgain(attempt[n])
<1>0. attempt[n].step = "write" /\ AttemptIs(n, put) /\ UNCHANGED <<trouble, late, dead>>
      /\ result' = IF fits THEN [of |-> n, state |-> attempt[n].state] ELSE result
  BY DEF WriteResult
<1>1. fits <=> (attempt[n].found <=> result # NoResult) BY AttemptFields
<1>2. CASE fits
  <2>1. put = Stored(attempt[n]) BY <1>2
  <2>2. CASE attempt[n].state = "STARTED"
    <3>1. /\ put \in AttemptRecords /\ put.failed = 0 /\ put.step = "works"
      BY <2>1, <2>2, NoTry DEF Stored, NoAttempt, AttemptRecords
    <3> HIDE DEF put
    <3>2. attempt' \in [Order -> AttemptRecords] /\ attempt'[n] = put /\ Rest(n)
      BY <1>0, <3>1, AttemptIsOne DEF ResultInv
    <3> QED BY <1>0, <1>1, <1>2, <2>2, <3>1, <3>2
  <2>3. CASE attempt[n].state # "STARTED"
    <3>1. /\ put \in AttemptRecords /\ put.failed = 0 /\ put.step = "over"
          /\ put.state = attempt[n].state
      BY <2>1, <2>3, AttemptFields, NoTry DEF Stored, AttemptRecords
    <3> HIDE DEF put
    <3>2. attempt' \in [Order -> AttemptRecords] /\ attempt'[n] = put /\ Rest(n)
      BY <1>0, <3>1, AttemptIsOne DEF ResultInv
    <3> QED BY <1>0, <1>1, <1>2, <2>3, <3>1, <3>2
  <2> QED BY <2>2, <2>3
<1>3. CASE ~fits
  <2>1. put = TryAgain(attempt[n]) BY <1>3
  <2> HIDE DEF put
  <2>2. /\ put \in AttemptRecords /\ put.failed = attempt[n].failed + 1
        /\ put.state = attempt[n].state
        /\ (put.step = "find" /\ put.failed < Tries) \/ (put.step = "over" /\ put.failed >= Tries)
    BY <1>0, <2>1, TryAgainIs
  <2>3. attempt' \in [Order -> AttemptRecords] /\ attempt'[n] = put /\ Rest(n)
    BY <1>0, <2>2, AttemptIsOne DEF ResultInv
  <2>4. attempt[n].found <=> result = NoResult BY <1>1, <1>3, AttemptFields
  <2> HIDE DEF fits
  <2> QED BY <1>0, <1>3, <2>2, <2>3, <2>4
<1> QED BY <1>2, <1>3

LEMMA FailsIs ==
  ASSUME ResultInv, NEW n \in Order, DatabaseFails(n)
  PROVE  /\ attempt' \in [Order -> AttemptRecords] /\ Rest(n) /\ attempt[n].step \in {"find", "write"}
         /\ attempt'[n].state = attempt[n].state
         /\ attempt'[n].failed = attempt[n].failed + 1
         /\ \/ attempt'[n].step = "find" /\ attempt'[n].failed < Tries
            \/ attempt'[n].step = "over" /\ attempt'[n].failed >= Tries
         /\ trouble' = trouble + 1 /\ trouble' \in 0 .. MaxTrouble
         /\ UNCHANGED <<result, late, dead>>
<1> DEFINE put == TryAgain(attempt[n])
<1>1. /\ attempt[n].step \in {"find", "write"} /\ AttemptIs(n, put)
      /\ trouble < MaxTrouble /\ trouble' = trouble + 1 /\ UNCHANGED <<result, late, dead>>
  BY DEF DatabaseFails
<1>2. /\ put \in AttemptRecords /\ put.failed = attempt[n].failed + 1
      /\ put.state = attempt[n].state
      /\ (put.step = "find" /\ put.failed < Tries) \/ (put.step = "over" /\ put.failed >= Tries)
  BY <1>1, TryAgainIs
<1> HIDE DEF put
<1>3. attempt' \in [Order -> AttemptRecords] /\ attempt'[n] = put /\ Rest(n)
  BY <1>1, <1>2, AttemptIsOne DEF ResultInv
<1>4. trouble + 1 \in 0 .. MaxTrouble
  BY <1>1, TaskResultsAssumption DEF ResultInv, ResultTypeOK
<1> QED BY <1>1, <1>2, <1>3, <1>4

LEMMA DiesIs ==
  ASSUME ResultInv, NEW n \in Order, WorkerDies(n)
  PROVE  /\ attempt' \in [Order -> AttemptRecords] /\ Rest(n)
         /\ attempt[n].step \in {"find", "write", "works"} /\ attempt'[n].step = "over"
         /\ dead' = TRUE /\ UNCHANGED <<result, trouble, late>>
<1> DEFINE w == [NoAttempt EXCEPT !.step = "over"]
<1>1. w \in AttemptRecords /\ w.step = "over"
  BY NoTry DEF NoAttempt, AttemptRecords
<1>2. AttemptIs(n, w) BY DEF WorkerDies
<1> HIDE DEF w
<1>3. attempt' \in [Order -> AttemptRecords] /\ attempt'[n] = w /\ Rest(n)
  BY <1>1, <1>2, AttemptIsOne DEF ResultInv
<1> QED BY <1>1, <1>3 DEF WorkerDies

\* The next attempt is made by the one that retries.
LEMMA EndIs ==
  ASSUME ResultInv, NEW n \in Order, NEW outcome \in Outcomes, EndAttempt(n, outcome)
  PROVE  /\ attempt' \in [Order -> AttemptRecords] /\ attempt[n].step = "works"
         /\ attempt'[n].step = "find" /\ attempt'[n].state = outcome
         /\ attempt'[n].failed = 0
         /\ UNCHANGED <<result, trouble, late, dead>>
         /\ \/ Rest(n)
            \/ /\ n + 1 \in Order /\ attempt'[n + 1].step = "sent"
               /\ attempt'[n + 1].failed = attempt[n + 1].failed
               /\ \A q \in Order \ {n, n + 1} : attempt'[q] = attempt[q]
<1> DEFINE first == Stores(n, outcome)
           next(q) == [attempt[q] EXCEPT !.step = "sent"]
<1>1. /\ first \in AttemptRecords /\ first.step = "find" /\ first.state = outcome
      /\ first.failed = 0
  BY StoresIs
<1>2. \A q \in Order : /\ next(q) \in AttemptRecords /\ next(q).step = "sent"
                       /\ next(q).failed = attempt[q].failed
                       /\ attempt[q] \in AttemptRecords
  BY AttemptFields DEF AttemptRecords
<1>3. attempt' = [q \in Order |->
        IF q = n THEN first ELSE IF q = n + 1 /\ outcome = "RETRY" THEN next(q) ELSE attempt[q]]
  BY DEF EndAttempt
<1> HIDE DEF first, next
<1>4. attempt' \in [Order -> AttemptRecords] /\ attempt'[n] = first BY <1>1, <1>2, <1>3
<1>5. CASE outcome = "RETRY"
  <2>1. n + 1 \in Order
    BY <1>5, TaskResultsAssumption DEF EndAttempt, Order
  <2>2. attempt'[n + 1] = next(n + 1) BY <1>3, <1>5, <2>1 DEF Order
  <2>3. \A q \in Order \ {n, n + 1} : attempt'[q] = attempt[q] BY <1>3
  <2> QED BY <1>1, <1>2, <1>4, <2>1, <2>2, <2>3 DEF EndAttempt
<1>6. CASE outcome # "RETRY"
  <2>1. Rest(n) BY <1>3, <1>6 DEF Rest
  <2> QED BY <1>1, <1>4, <2>1 DEF EndAttempt
<1> QED BY <1>5, <1>6

\* Two attempts at work are one, unless one was overtaken.
Solo ==
  ~late => \A n, q \in Order :
    Started(n) /\ Started(q) /\ attempt[n].step # "over" /\ attempt[q].step # "over" => n = q

LEMMA OneAtWork == Alone => Solo
BY DEF Alone, Solo, Order

LEMMA OneAtWorkNext == Alone' => Solo'
BY OneAtWork, PTL

\* A step of one attempt leaves the turns as they are.
LEMMA MovesInTurn ==
  ASSUME ResultInv, NEW n \in Order, Rest(n), attempt[n].step \notin {"none", "over"}, Started(n)',
         Ending(n) => attempt'[n].step = "over" \/ Ending(n)',
         attempt'[n].step # "over" => attempt'[n].failed < Tries,
         result' = result \/ result'.of = n
  PROVE  InTurn'
<1> USE DEF ResultInv, InTurn, Rest
<1>1. Made' = Made BY DEF Made, Started
<1>2. \E m \in Order : Made' = 1 .. m BY <1>1
<1>3. ASSUME NEW a \in Order, NEW b \in Order, a \in Made', b < a
      PROVE  attempt'[b].step = "over" \/ Ending(b)'
  <2>1. attempt[b].step = "over" \/ Ending(b) BY <1>1, <1>3
  <2> QED BY <2>1 DEF Ending
<1>4. \A a \in Order : attempt'[a].step # "over" => attempt'[a].failed < Tries OBVIOUS
<1>5. result' # NoResult => attempt'[result'.of].step \notin {"none", "sent"}
  <2>1. CASE result'.of = n BY <2>1 DEF Started
  <2>2. CASE result' = result
    <3> SUFFICES ASSUME result # NoResult
                 PROVE attempt'[result.of].step \notin {"none", "sent"}
      BY <2>2
    <3>1. result.of \in Order BY <2>2 DEF ResultTypeOK, Shows
    <3> QED BY <2>2, <3>1 DEF Started
  <2> QED BY <2>1, <2>2
<1> QED BY <1>2, <1>3, <1>4, <1>5 DEF Started

LEMMA MovesAlone ==
  ASSUME ResultInv, NEW n \in Order, Rest(n), attempt[n].step # "over", late => late',
         Started(n) \/ (~late' => \A q \in Order : q < n => attempt[q].step = "over")
  PROVE  Alone'
<1> SUFFICES ASSUME ~late', NEW a \in Order, NEW b \in Order, Started(a)', b < a
             PROVE  attempt'[b].step = "over"
  BY DEF Alone
<1>1. CASE a = n
  <2>1. attempt[b].step = "over" BY <1>1 DEF ResultInv, Alone
  <2> QED BY <1>1, <2>1 DEF Rest, Order
<1>2. CASE a # n
  <2>1. Started(a) BY <1>2 DEF Rest, Started
  <2>2. attempt[b].step = "over" BY <2>1 DEF ResultInv, Alone
  <2> QED BY <2>2 DEF Rest
<1> QED BY <1>1, <1>2

\* What the attempt that moves has to show for the failures of its store.
LEMMA MovesExcused ==
  ASSUME ResultInv, NEW n \in Order, Rest(n), Alone', late => late',
         \/ Started(n) /\ attempt[n].step # "over"
         \/ Started(n)' /\ attempt'[n].step # "over",
         ~late /\ attempt'[n].step \in {"find", "write"} =>
           attempt'[n].failed <= trouble' /\ (Doomed(n)' => attempt'[n].failed < trouble')
  PROVE  Excused'
<1> SUFFICES ASSUME ~late', NEW q \in Order, attempt'[q].step \in {"find", "write"}
             PROVE  attempt'[q].failed <= trouble' /\ (Doomed(q)' => attempt'[q].failed < trouble')
  BY DEF Excused
<1>1. q = n
  <2>1. CASE Started(n)' /\ attempt'[n].step # "over"
    <3>1. Started(q)' /\ attempt'[q].step # "over" BY DEF Started
    <3> QED BY <2>1, <3>1, OneAtWorkNext DEF Solo
  <2>2. CASE Started(n) /\ attempt[n].step # "over"
    <3> SUFFICES ASSUME q # n PROVE FALSE OBVIOUS
    <3>1. Started(q) /\ attempt[q].step # "over" BY DEF Started, Rest
    <3> QED BY <2>2, <3>1, OneAtWork DEF ResultInv, Solo
  <2> QED BY <2>1, <2>2
<1> QED BY <1>1 DEF Doomed

LEMMA MovesVisible ==
  ASSUME ResultInv, NEW n \in Order, Rest(n), attempt[n].step \notin {"none", "over"}, Started(n)',
         result' = result, late => late', dead => dead', trouble' >= trouble, trouble' \in Nat,
         attempt'[n].step = "over" => dead' \/ late' \/ trouble' >= Tries
  PROVE  Visible'
<1> USE DEF ResultInv, Visible, Rest
<1>1. Made' = Made BY DEF Made, Started
<1> SUFFICES ASSUME ~dead', ~late', trouble' < Tries, NEW a \in Made', attempt'[a].step = "over",
                    \A q \in Made' : q <= a
             PROVE  result' = [of |-> a, state |-> attempt'[a].state]
                    \/ (result' = NoResult /\ trouble' > 0)
  OBVIOUS
<1>2. a # n /\ a \in Order BY <1>1, TaskResultsAssumption DEF Made
<1>3. trouble \in Nat BY TaskResultsAssumption DEF ResultTypeOK
<1>4. trouble < Tries BY <1>3, TaskResultsAssumption
<1>5. result = [of |-> a, state |-> attempt[a].state] \/ (result = NoResult /\ trouble > 0)
  BY <1>1, <1>2, <1>4
<1> QED BY <1>2, <1>3, <1>5

LEMMA ResultStarts == ASSUME ResultInv, NEW n \in Order, StartAttempt(n) PROVE ResultInv'
<1> USE StartIs
<1>1. ResultTypeOK' BY DEF ResultInv, ResultTypeOK, AttemptRecords
<1>2. InTurn' BY NoTry, MovesInTurn DEF Started, Ending
<1>3. ~late' => \A q \in Order : q < n => attempt[q].step = "over"
  <2> SUFFICES ASSUME ~late', NEW q \in Order, q < n PROVE attempt[q].step = "over" OBVIOUS
  <2>1. n - 1 \in Order /\ n > 1 BY TaskResultsAssumption DEF Order
  <2>2. Started(n - 1) /\ attempt[n - 1].step = "over" /\ ~late BY <2>1 DEF Started
  <2>3. q = n - 1 \/ q < n - 1 BY TaskResultsAssumption DEF Order
  <2> QED BY <2>1, <2>2, <2>3 DEF ResultInv, Alone
<1>4. Alone' BY <1>3, MovesAlone DEF Started
<1>5. trouble' \in Nat /\ trouble' >= 0
  BY TaskResultsAssumption DEF ResultInv, ResultTypeOK
<1>6. Excused'
  <2>1. attempt'[n].failed <= trouble' /\ ~Doomed(n)' BY <1>5, StartIs DEF Doomed
  <2>2. Started(n)' /\ attempt'[n].step # "over" BY StartIs DEF Started
  <2>3. Rest(n) /\ (late => late') BY StartIs
  <2> QED BY <1>4, <2>1, <2>2, <2>3, MovesExcused DEF Started, Doomed
<1>7. Visible' BY <1>5, MovesVisible DEF Started
<1> QED BY <1>1, <1>2, <1>4, <1>6, <1>7 DEF ResultInv

LEMMA ResultFinds == ASSUME ResultInv, NEW n \in Order, FindResult(n) PROVE ResultInv'
<1> USE FindIs, AttemptFields
<1>1. ResultTypeOK' BY DEF ResultInv, ResultTypeOK, AttemptRecords
<1>2. InTurn' BY MovesInTurn DEF Started, Ending
<1>4. Alone' BY MovesAlone DEF Started
<1>5. ~late => attempt[n].failed <= trouble BY DEF ResultInv, Excused
<1>6. Excused'
  <2>1. attempt'[n].failed = attempt[n].failed /\ trouble' = trouble /\ late' = late
    BY FindIs
  <2>2. ~Doomed(n)' BY FindIs DEF Doomed
  <2>3. Started(n) /\ attempt[n].step # "over" /\ Rest(n) BY FindIs DEF Started
  <2> QED BY <1>4, <1>5, <2>1, <2>2, <2>3, MovesExcused DEF Started, Doomed
<1>7. Visible' BY MovesVisible DEF Started
<1> QED BY <1>1, <1>2, <1>4, <1>6, <1>7 DEF ResultInv

LEMMA ResultWrites == ASSUME ResultInv, NEW n \in Order, WriteResult(n) PROVE ResultInv'
<1> USE WriteIs, AttemptFields
<1>0. [of |-> n, state |-> attempt[n].state] \in Shows BY DEF Shows
<1>1. ResultTypeOK' BY <1>0 DEF ResultInv, ResultTypeOK, AttemptRecords
<1>2. InTurn' BY NoTry, MovesInTurn DEF Started, Ending
<1>3. Started(n) /\ attempt[n].step # "over" BY DEF Started
<1>4. Alone' BY <1>3, MovesAlone DEF Started
<1>5. ~late /\ (attempt[n].found <=> result = NoResult) => attempt[n].failed + 1 <= trouble
  <2> SUFFICES ASSUME ~late, attempt[n].found <=> result = NoResult
               PROVE  attempt[n].failed + 1 <= trouble
    OBVIOUS
  <2>1. Doomed(n) BY DEF Doomed
  <2>2. attempt[n].failed < trouble BY <2>1 DEF ResultInv, Excused
  <2> QED BY <2>2
<1>6. Excused'
  <2>1. ~late => ((attempt'[n].step \in {"find", "write"} => attempt'[n].failed <= trouble')
                  /\ attempt'[n].step # "write")
    BY <1>5
  <2>2. Rest(n) /\ (late => late') OBVIOUS
  <2> HIDE WriteIs, AttemptFields
  <2> QED BY <1>3, <1>4, <2>1, <2>2, MovesExcused DEF Started, Doomed
<1>7. Visible'
  <2>1. CASE result' = [of |-> n, state |-> attempt[n].state]
    <3>1. Made' = Made /\ n \in Made BY DEF Made, Rest
    <3> SUFFICES ASSUME ~late, NEW a \in Made, attempt'[a].step = "over", \A q \in Made : q <= a
                 PROVE  result' = [of |-> a, state |-> attempt'[a].state]
      BY <3>1 DEF Visible
    <3>2. a \in Order /\ Started(a)' BY <3>1 DEF Made, Started
    <3>3. a = n
      <4> SUFFICES ASSUME a # n PROVE FALSE OBVIOUS
      <4>1. n < a BY <3>1, <3>2 DEF Order
      <4>2. Started(a) BY <3>2 DEF Started, Rest
      <4> QED BY <1>3, <3>2, <4>1, <4>2 DEF ResultInv, Alone
    <3> QED BY <2>1, <3>3
  <2>2. CASE result' = result /\ (attempt[n].found <=> result = NoResult)
                /\ attempt'[n].failed = attempt[n].failed + 1
                /\ (attempt'[n].step = "over" => attempt'[n].failed >= Tries)
    <3>1. attempt'[n].step = "over" => late' \/ trouble' >= Tries
      BY <1>5, <2>2, TaskResultsAssumption
    <3> QED BY <1>3, <2>2, <3>1, MovesVisible DEF Started
  <2> QED BY <2>1, <2>2
<1> QED BY <1>1, <1>2, <1>4, <1>6, <1>7 DEF ResultInv

LEMMA ResultFails == ASSUME ResultInv, NEW n \in Order, DatabaseFails(n) PROVE ResultInv'
<1> USE FailsIs, AttemptFields
<1>1. ResultTypeOK' BY DEF ResultInv, ResultTypeOK, AttemptRecords
<1>2. InTurn' BY MovesInTurn DEF Started, Ending
<1>3. Started(n) /\ attempt[n].step # "over" BY DEF Started
<1>4. Alone' BY <1>3, MovesAlone DEF Started
<1>5. ~late => attempt'[n].failed <= trouble'
  <2>1. ~late => attempt[n].failed <= trouble BY DEF ResultInv, Excused
  <2> QED BY <2>1
<1>6. Excused'
  <2>1. ~late => ((attempt'[n].step \in {"find", "write"} => attempt'[n].failed <= trouble')
                  /\ attempt'[n].step # "write")
    BY <1>5
  <2>2. Rest(n) /\ (late => late') OBVIOUS
  <2> HIDE FailsIs, AttemptFields
  <2> QED BY <1>3, <1>4, <2>1, <2>2, MovesExcused DEF Started, Doomed
<1>7. Visible'
  <2>1. attempt'[n].step = "over" => late' \/ trouble' >= Tries
    BY <1>5, TaskResultsAssumption
  <2> QED BY <1>3, <2>1, MovesVisible DEF Started
<1> QED BY <1>1, <1>2, <1>4, <1>6, <1>7 DEF ResultInv

LEMMA ResultDies == ASSUME ResultInv, NEW n \in Order, WorkerDies(n) PROVE ResultInv'
<1>0. /\ Rest(n) /\ Started(n) /\ attempt[n].step # "over" /\ Started(n)' /\ (late => late')
      /\ attempt'[n].step = "over" /\ result' = result
  BY DiesIs DEF Started
<1>1. ResultTypeOK' BY DiesIs DEF ResultInv, ResultTypeOK, AttemptRecords
<1>2. InTurn' BY <1>0, MovesInTurn DEF Started, Ending
<1>4. Alone' BY <1>0, MovesAlone DEF Started
<1>6. Excused' BY <1>0, <1>4, MovesExcused DEF Started, Doomed
<1>7. Visible' BY DiesIs DEF Visible
<1> QED BY <1>1, <1>2, <1>4, <1>6, <1>7 DEF ResultInv

LEMMA ResultDeleted == ASSUME ResultInv, DeleteResult PROVE ResultInv'
<1> USE TaskResultsAssumption DEF ResultInv, DeleteResult
<1>1. ResultTypeOK' BY DEF ResultTypeOK
<1>2. InTurn' BY DEF InTurn, Made, Ending, Started
<1>3. Alone' BY DEF Alone, Started
<1>4. Excused'
  <2> SUFFICES ASSUME ~late, NEW q \in Order, attempt[q].step \in {"find", "write"}
               PROVE  attempt[q].failed <= trouble' /\ attempt[q].failed < trouble'
    BY DEF Excused
  <2>1. attempt[q].failed <= trouble BY DEF Excused
  <2>2. attempt[q].failed \in Nat /\ trouble \in Nat BY AttemptFields
  <2> QED BY <2>1, <2>2
<1>5. Visible' BY AttemptFields DEF Visible, Made, ResultTypeOK
<1> QED BY <1>1, <1>2, <1>3, <1>4, <1>5

LEMMA ResultEnds ==
  ASSUME ResultInv, NEW n \in Order, NEW outcome \in Outcomes, EndAttempt(n, outcome)
  PROVE  ResultInv'
<1> USE EndIs, AttemptFields
<1>1. ResultTypeOK' BY DEF ResultInv, ResultTypeOK, AttemptRecords
<1>3. Started(n) /\ attempt[n].step # "over" /\ ~Ending(n) BY DEF Started, Ending
<1>4. trouble \in Nat /\ 0 <= trouble BY TaskResultsAssumption DEF ResultInv, ResultTypeOK
<1>5. CASE Rest(n)
  <2>1. InTurn' BY <1>3, <1>5, NoTry, MovesInTurn DEF Started, Ending
  <2>2. Alone' BY <1>3, <1>5, MovesAlone
  <2>3. attempt'[n].failed <= trouble' /\ ~Doomed(n)' BY <1>4 DEF Doomed
  <2>4. Excused' BY <1>3, <1>5, <2>2, <2>3, MovesExcused DEF Started, Doomed
  <2>5. Visible' BY <1>3, <1>4, <1>5, MovesVisible DEF Started
  <2> QED BY <1>1, <2>1, <2>2, <2>4, <2>5 DEF ResultInv
<1>6. CASE /\ n + 1 \in Order /\ attempt'[n + 1].step = "sent"
           /\ attempt'[n + 1].failed = attempt[n + 1].failed
           /\ \A q \in Order \ {n, n + 1} : attempt'[q] = attempt[q]
  <2>0. n < n + 1 /\ n # n + 1 BY DEF Order
  <2>1. n + 1 \notin Made BY <1>3, <1>6, <2>0 DEF ResultInv, InTurn
  <2>2. Made' = Made \cup {n + 1} /\ n \in Made BY <1>3, <1>6, <2>0 DEF Made, Started
  <2>3. Made' = 1 .. n + 1
    <3>1. PICK m \in Order : Made = 1 .. m BY DEF ResultInv, InTurn
    <3>2. m = n BY <3>1, <2>1, <2>2, <1>6, TaskResultsAssumption DEF Order
    <3> QED BY <3>1, <3>2, <2>2, TaskResultsAssumption DEF Order
  <2>4. attempt[n + 1].step = "none" /\ attempt[n + 1].failed < Tries
    BY <1>6, <2>1 DEF Made
  <2>5. InTurn'
    <3>1. ASSUME NEW a \in Order, NEW b \in Order, a \in Made', b < a
          PROVE  attempt'[b].step = "over" \/ Ending(b)'
      <4>1. a <= n + 1 /\ b <= n
        <5>1. a \in 1 .. n + 1 BY <2>3, <3>1
        <5>2. n \in Nat /\ a \in Nat /\ b \in Nat BY TaskResultsAssumption DEF Order
        <5>3. a <= n + 1 BY <5>1, <5>2
        <5> QED BY <3>1, <5>2, <5>3
      <4>2. CASE b = n BY <4>2, <1>6 DEF Ending, Outcomes
      <4>3. CASE b # n
        <5>1. b < n /\ b # n + 1 BY <4>1, <4>3, TaskResultsAssumption DEF Order
        <5>2. attempt[b].step = "over" \/ Ending(b) BY <5>1, <2>2 DEF ResultInv, InTurn
        <5> QED BY <5>1, <5>2, <4>3, <1>6 DEF Ending
      <4> QED BY <4>2, <4>3
    <3>2. ASSUME NEW a \in Order, attempt'[a].step # "over" PROVE attempt'[a].failed < Tries
      BY <3>2, <1>6, <2>4, NoTry DEF ResultInv, InTurn
    <3>3. result # NoResult => attempt'[result.of].step \notin {"none", "sent"}
      <4> SUFFICES ASSUME result # NoResult
                   PROVE attempt'[result.of].step \notin {"none", "sent"}
        OBVIOUS
      <4>1. result.of \in Order /\ Started(result.of)
        BY DEF ResultInv, ResultTypeOK, InTurn, Shows
      <4>2. result.of # n + 1 BY <4>1, <2>4 DEF Started
      <4> QED BY <4>1, <4>2, <1>6 DEF Started
    <3> QED BY <1>6, <2>3, <3>1, <3>2, <3>3 DEF InTurn, Started
  <2>6. Alone'
    <3> SUFFICES ASSUME ~late, NEW a \in Order, NEW b \in Order, Started(a)', b < a
                 PROVE  attempt'[b].step = "over"
      BY DEF Alone
    <3>1. Started(a) /\ a # n + 1 BY <1>3, <1>6 DEF Started
    <3>2. attempt[b].step = "over" BY <3>1 DEF ResultInv, Alone
    <3> QED BY <3>2, <1>3, <1>6, <2>4
  <2>7. Excused'
    <3> SUFFICES ASSUME ~late, NEW q \in Order, attempt'[q].step \in {"find", "write"}
                 PROVE  attempt'[q].failed <= trouble /\ ~Doomed(q)'
      BY DEF Excused
    <3>1. Started(q)' /\ attempt'[q].step # "over" /\ Started(n)' BY DEF Started
    <3>2. q = n BY <2>6, <3>1, OneAtWorkNext DEF Solo
    <3> QED BY <3>2, <1>4 DEF Doomed
  <2>8. Visible'
    <3> SUFFICES ASSUME NEW a \in Made', attempt'[a].step = "over", \A q \in Made' : q <= a
                 PROVE  FALSE
      BY DEF Visible
    <3>1. a = n + 1 BY <2>3, TaskResultsAssumption DEF Order
    <3> QED BY <3>1, <1>6
  <2> QED BY <1>1, <2>5, <2>6, <2>7, <2>8 DEF ResultInv
<1> QED BY <1>5, <1>6

\* The first attempt is sent, and every step keeps all of it.
LEMMA ResultInvHolds == ResultSpec => []ResultInv
<1>1. ResultInit => ResultInv
  <2> SUFFICES ASSUME ResultInit PROVE ResultInv OBVIOUS
  <2> DEFINE first == [NoAttempt EXCEPT !.step = "sent"]
  <2>1. /\ first \in AttemptRecords /\ first.step = "sent" /\ first.failed = 0
        /\ NoAttempt \in AttemptRecords /\ NoAttempt.step = "none" /\ NoAttempt.failed = 0
    BY NoTry DEF NoAttempt, AttemptRecords
  <2>2. 1 \in Order BY TaskResultsAssumption DEF Order
  <2>3. attempt = [n \in Order |-> IF n = 1 THEN first ELSE NoAttempt] BY DEF ResultInit
  <2> HIDE DEF first
  <2>4. /\ attempt \in [Order -> AttemptRecords]
        /\ \A n \in Order : attempt[n] = first \/ attempt[n] = NoAttempt
        /\ \A n \in Order : attempt[n].step # "none" <=> n = 1
    BY <2>1, <2>2, <2>3
  <2>5. \A n \in Order : attempt[n].step \in {"none", "sent"} /\ attempt[n].failed = 0
    BY <2>1, <2>4
  <2>9. ResultTypeOK
    <3>1. 0 \in 0 .. MaxTrouble BY TaskResultsAssumption
    <3> QED BY <2>4, <3>1 DEF ResultInit, ResultTypeOK, AttemptRecords
  <2>6. Made = 1 .. 1
    <3>1. Made = {1} BY <2>2, <2>4 DEF Made
    <3> QED BY <3>1
  <2>7. InTurn
    <3>1. \A n, q \in Order : n \in Made /\ q < n => FALSE
      BY <2>6, TaskResultsAssumption DEF Order
    <3>2. result = NoResult BY DEF ResultInit
    <3> QED BY <2>2, <2>5, <2>6, <3>1, <3>2, NoTry DEF InTurn
  <2>8. Alone /\ Excused /\ Visible BY <2>5 DEF Alone, Excused, Visible, Started, Made
  <2> QED BY <2>9, <2>7, <2>8 DEF ResultInv
<1>2. ResultInv /\ [ResultNext]_resultVars => ResultInv'
  <2> SUFFICES ASSUME ResultInv, [ResultNext]_resultVars PROVE ResultInv' OBVIOUS
  <2>1. CASE UNCHANGED resultVars
    BY <2>1 DEF resultVars, ResultInv, ResultTypeOK, InTurn, Alone, Excused, Visible,
       Made, Started,
                Ending, Doomed
  <2> QED
    BY <2>1, ResultStarts, ResultFinds, ResultWrites, ResultFails, ResultDies, ResultEnds,
             ResultDeleted DEF ResultNext
<1> QED BY <1>1, <1>2, PTL DEF ResultSpec

\* Every variable of the task results has its type, for any number of attempts
\* and of tries.
THEOREM ResultTypesHold == ResultSpec => []ResultTypeOK
BY ResultInvHolds, PTL DEF ResultInv

\* DatabaseBackend._store_result: for any number of attempts, of tries of a store,
\* of deletions and of failures, the row shows the outcome of the last attempt, or
\* was deleted, and never goes back to an earlier one.
THEOREM ResultsKeptHolds == ResultSpec => []ResultsKept
<1>1. ResultInv => ResultShown
  <2> SUFFICES ASSUME ResultInv, AtRest, ~dead, ~late, trouble < Tries
               PROVE  result = [of |-> Last, state |-> attempt[Last].state]
                      \/ (result = NoResult /\ trouble > 0)
    BY DEF ResultShown
  <2>1. PICK m \in Order : Made = 1 .. m BY DEF ResultInv, InTurn
  <2>2. m \in Made /\ (\A q \in Made : q <= m) /\ \A n \in Made : (\A q \in Made : q <= n) => n = m
    BY <2>1, TaskResultsAssumption DEF Order
  <2>3. Last = m BY <2>2 DEF Last
  <2> QED BY <2>2, <2>3 DEF ResultInv, Visible, AtRest
<1>2. ResultInv => NeverBack
  BY DEF ResultInv, InTurn, Alone, NeverBack, Made, ResultTypeOK, Shows
<1> QED BY <1>1, <1>2, ResultInvHolds, PTL DEF ResultsKept
=============================================================================
