---------------------------- MODULE PluginRegistry ----------------------------
(***************************************************************************)
(* Plugins: directories on disk, one key per plugin in Redis with its      *)
(* status, and a key that says that the directories changed since a worker *)
(* started (plugin/core.py, plugin/installer.py, plugin/requirements.py,   *)
(* utils/locks.py, app/admin/service/plugin_service.py).  A worker that    *)
(* starts rewrites the keys while administrators install, uninstall and    *)
(* switch plugins through the workers that run.                            *)
(***************************************************************************)
EXTENDS Integers, FiniteSets

CONSTANTS
  Plugins,     \* names of plugins
  Loaders,     \* workers that start
  Operators,   \* requests of administrators
  Nil,         \* no request
  Remote       \* the keys remote_list_url and remote_list_urls

ASSUME PluginRegistryAssumption == Nil \notin Operators /\ Remote \notin Plugins

VARIABLES
  dirs,     \* plugins that have a directory
  info,     \* info[p]: the status key of p, also the keys Remote
  changed,  \* the key changed
  env,      \* plugins whose .env.example is in .env
  loader,   \* loader[w]: where worker w is in parse_plugin_config
  listed,   \* listed[w]: get_plugins, cached for the life of the worker
  todo,     \* todo[w]: keys to delete, then plugins still to write
  kept,     \* kept[w]: the plugin it works on and the status it has read
  task,     \* task[o]: the step request o is about to take
  plugin,   \* plugin[o]: the plugin it is about
  copy,     \* copy[o]: the status it has read
  envCopy,  \* envCopy[o]: the .env it has read
  holder,   \* the request that owns mc:reload_lock
  lockFile, \* RELOAD_LOCK_FILE exists
  latest,   \* history: the last worker that cleared changed
  wanted,   \* history: wanted[p], the status the last switch gave p
  raced,    \* history: a request overlapped another or a start, or a start was cut short
  halfway,  \* history: an installation failed after it made the directory
  outlasted \* history: the lock ran out, or was not waited for

pluginVars == <<dirs, info, changed, env, loader, listed, todo, kept, task, plugin, copy,
                envCopy, holder, lockFile, latest, wanted, raced, halfway, outlasted>>

Status == {"none", "on", "off"}
Nothing == [name |-> Nil, status |-> "none"]
Inert == {"idle", "done", "failed", "installed"}
Switching == {"get", "set", "address"}
Uninstalling == {"remove", "move", "drop", "mark"}
Installing == {"look", "lock", "place", "read", "append", "packages", "flag",
               "unlink", "release", "undo", "leave"}

PluginTypeOK ==
  /\ dirs \subseteq Plugins /\ env \subseteq Plugins
  /\ info \in [Plugins \cup {Remote} -> Status] /\ changed \in BOOLEAN
  /\ loader \in [Loaders -> {"down", "clean", "delete", "next", "write", "up"}]
  /\ listed \in [Loaders -> SUBSET Plugins]
  /\ todo \in [Loaders -> SUBSET (Plugins \cup {Remote})]
  /\ kept \in [Loaders -> [name : Plugins \cup {Nil}, status : Status]]
  /\ task \in [Operators -> Inert \cup Switching \cup Uninstalling \cup Installing]
  /\ plugin \in [Operators -> Plugins \cup {Nil}]
  /\ copy \in [Operators -> Status] /\ envCopy \in [Operators -> SUBSET Plugins]
  /\ holder \in Operators \cup {Nil} /\ lockFile \in BOOLEAN
  /\ latest \in Loaders \cup {Nil} /\ wanted \in [Plugins -> Status]
  /\ raced \in BOOLEAN /\ halfway \in BOOLEAN /\ outlasted \in BOOLEAN

PluginInit ==
  /\ dirs \in SUBSET Plugins /\ env = {} /\ changed = FALSE
  /\ info = [p \in Plugins \cup {Remote} |-> "none"]
  /\ loader = [w \in Loaders |-> "down"] /\ listed = [w \in Loaders |-> {}]
  /\ todo = [w \in Loaders |-> {}] /\ kept = [w \in Loaders |-> Nothing]
  /\ task = [o \in Operators |-> "idle"]
  /\ plugin = [o \in Operators |-> Nil]
  /\ copy = [o \in Operators |-> "none"] /\ envCopy = [o \in Operators |-> {}]
  /\ holder = Nil /\ lockFile = FALSE
  /\ latest = Nil /\ wanted = [p \in Plugins |-> "none"]
  /\ raced = FALSE /\ halfway = FALSE /\ outlasted = FALSE

disk == <<dirs, env>>
boot == <<loader, listed, todo, kept, latest>>
work == <<task, plugin, copy, envCopy>>
lockState == <<holder, lockFile, outlasted>>
ghosts == <<wanted, raced, halfway>>

Starting == {w \in Loaders : loader[w] \notin {"down", "up"}}
Working == {o \in Operators : task[o] \notin Inert}

-----------------------------------------------------------------------------
(* parse_plugin_config of a worker that starts.                             *)

Loads(w, from, to) == loader[w] = from /\ loader' = [loader EXCEPT ![w] = to]

\* The directories are listed, once.
ListPlugins(w) ==
  /\ Loads(w, "down", "clean") /\ listed' = [listed EXCEPT ![w] = dirs]
  /\ raced' = (raced \/ Working # {} \/ Starting # {})
  /\ UNCHANGED <<disk, info, changed, todo, kept, latest, work, lockState, wanted, halfway>>

\* delete_prefix scans for every key but those of the plugins listed ...
Scan(w) ==
  /\ Loads(w, "clean", "delete")
  /\ todo' = [todo EXCEPT ![w] = {k \in DOMAIN info : info[k] # "none"} \ listed[w]]
  /\ UNCHANGED <<disk, info, changed, listed, kept, latest, work, lockState, ghosts>>

\* ... and deletes what it found, changed and the remote addresses included.
DeleteUnknown(w) ==
  /\ Loads(w, "delete", "next")
  /\ info' = [k \in DOMAIN info |-> IF k \in todo[w] THEN "none" ELSE info[k]]
  /\ changed' = FALSE
  /\ todo' = [todo EXCEPT ![w] = listed[w]]
  /\ UNCHANGED <<disk, listed, kept, latest, work, lockState, ghosts>>

\* Mutant: a start enables every plugin.
RememberedNever(s) == "on"

\* What a status counts as when it is read: a plugin without a key is enabled.
Remembered(s) == IF s = "none" THEN "on" ELSE s

ReadInfo(w, p) ==
  /\ p \in todo[w] /\ Loads(w, "next", "write")
  /\ kept' = [kept EXCEPT ![w] = [name |-> p, status |-> Remembered(info[p])]]
  /\ UNCHANGED <<disk, info, changed, listed, todo, latest, work, lockState, ghosts>>

WriteInfo(w) ==
  /\ Loads(w, "write", "next")
  /\ info' = [info EXCEPT ![kept[w].name] = kept[w].status]
  /\ todo' = [todo EXCEPT ![w] = @ \ {kept[w].name}] /\ kept' = [kept EXCEPT ![w] = Nothing]
  /\ UNCHANGED <<disk, changed, listed, latest, work, lockState, ghosts>>

\* The worker serves the plugins it listed, and reports the change as seen.
ClearChanged(w) ==
  /\ todo[w] = {} /\ Loads(w, "next", "up") /\ changed' = FALSE /\ latest' = w
  /\ UNCHANGED <<disk, info, listed, todo, kept, work, lockState, ghosts>>

StopLoader(w) ==
  /\ loader[w] # "down" /\ Loads(w, loader[w], "down")
  /\ todo' = [todo EXCEPT ![w] = {}] /\ listed' = [listed EXCEPT ![w] = {}]
  /\ kept' = [kept EXCEPT ![w] = Nothing]
  /\ raced' = (raced \/ w \in Starting)
  /\ UNCHANGED <<disk, info, changed, latest, work, lockState, wanted, halfway>>

-----------------------------------------------------------------------------
(* Requests of administrators.                                              *)

Does(o, from, to) == task[o] = from /\ task' = [task EXCEPT ![o] = to]

\* update_status, set_remote_list_url(s), uninstall, install of a zip file (to
\* the lock at once) or of a git repository (which looks at the disk first).
Ask(o, p) ==
  /\ latest # Nil
  /\ \E step \in {"get", "address", "remove", "look", "lock"} : Does(o, "idle", step)
  /\ plugin' = [plugin EXCEPT ![o] = p]
  /\ raced' = (raced \/ Working # {} \/ Starting # {})
  /\ UNCHANGED <<disk, info, changed, boot, copy, envCopy, lockState, wanted, halfway>>

GetStatus(o) ==
  /\ Does(o, "get", IF info[plugin[o]] = "none" THEN "failed" ELSE "set")
  /\ copy' = [copy EXCEPT ![o] = info[plugin[o]]]
  /\ UNCHANGED <<disk, info, changed, boot, plugin, envCopy, lockState, ghosts>>

Flipped(s) == IF s = "off" THEN "on" ELSE "off"

SetStatus(o) ==
  /\ Does(o, "set", "done")
  /\ info' = [info EXCEPT ![plugin[o]] = Flipped(copy[o])]
  /\ wanted' = [wanted EXCEPT ![plugin[o]] = Flipped(copy[o])]
  /\ copy' = [copy EXCEPT ![o] = "none"]
  /\ UNCHANGED <<disk, changed, boot, plugin, envCopy, lockState, raced, halfway>>

SetRemote(o) ==
  /\ Does(o, "address", "done") /\ info' = [info EXCEPT ![Remote] = "on"]
  /\ UNCHANGED <<disk, changed, boot, plugin, copy, envCopy, lockState, ghosts>>

\* uninstall: the packages, the directory, the key and the flag.
RemovePackages(o) ==
  /\ \/ plugin[o] \in dirs /\ Does(o, "remove", "move")
     \/ Does(o, "remove", "failed")
  /\ UNCHANGED <<disk, info, changed, boot, plugin, copy, envCopy, lockState, ghosts>>

MoveDir(o) ==
  /\ Does(o, "move", IF plugin[o] \in dirs THEN "drop" ELSE "failed")
  /\ dirs' = dirs \ {plugin[o]}
  /\ UNCHANGED <<env, info, changed, boot, plugin, copy, envCopy, lockState, ghosts>>

DropInfo(o) ==
  /\ Does(o, "drop", "mark") /\ info' = [info EXCEPT ![plugin[o]] = "none"]
  /\ wanted' = [wanted EXCEPT ![plugin[o]] = "none"]
  /\ UNCHANGED <<disk, changed, boot, plugin, copy, envCopy, lockState, raced, halfway>>

MarkChanged(o, from, to) ==
  /\ Does(o, from, to) /\ changed' = TRUE
  /\ UNCHANGED <<disk, info, boot, plugin, copy, envCopy, lockState, ghosts>>

LookForDir(o) ==
  /\ Does(o, "look", IF plugin[o] \in dirs THEN "failed" ELSE "lock")
  /\ UNCHANGED <<disk, info, changed, boot, plugin, copy, envCopy, lockState, ghosts>>

\* Mutant: the lock is not waited for.
AcquireReloadAnyway(o) ==
  /\ Does(o, "lock", "place") /\ lockFile' = TRUE /\ holder' = o
  /\ UNCHANGED <<disk, info, changed, boot, plugin, copy, envCopy, outlasted, ghosts>>

\* acquire_distributed_reload_lock: the result of acquire is not looked at.
AcquireReload(o) ==
  /\ Does(o, "lock", "place") /\ lockFile' = TRUE
  /\ \/ holder = Nil /\ holder' = o /\ UNCHANGED outlasted
     \/ holder # Nil /\ outlasted' = TRUE /\ UNCHANGED holder
  /\ UNCHANGED <<disk, info, changed, boot, plugin, copy, envCopy, ghosts>>

\* The archive is extracted or the repository cloned, if the directory is new.
Place(o) ==
  /\ \/ plugin[o] \notin dirs /\ Does(o, "place", "read") /\ dirs' = dirs \cup {plugin[o]}
     \/ Does(o, "place", "undo") /\ UNCHANGED dirs
  /\ UNCHANGED <<env, info, changed, boot, plugin, copy, envCopy, lockState, ghosts>>

\* _append_env_example reads .env and writes it whole.
ReadEnv(o) ==
  /\ Does(o, "read", "append") /\ envCopy' = [envCopy EXCEPT ![o] = env]
  /\ UNCHANGED <<disk, info, changed, boot, plugin, copy, lockState, ghosts>>

AppendEnv(o) ==
  /\ Does(o, "append", "packages") /\ env' = envCopy[o] \cup {plugin[o]}
  /\ envCopy' = [envCopy EXCEPT ![o] = {}]
  /\ UNCHANGED <<dirs, info, changed, boot, plugin, copy, lockState, ghosts>>

\* install_requirements, which gives up after PLUGIN_PIP_MAX_RETRY attempts and
\* leaves the directory and .env as they are.
InstallPackages(o) ==
  /\ \/ Does(o, "packages", "flag") /\ UNCHANGED halfway
     \/ Does(o, "packages", "undo") /\ halfway' = TRUE
  /\ UNCHANGED <<disk, info, changed, boot, plugin, copy, envCopy, lockState, wanted, raced>>

\* The way out of the lock: the file first, then the lock if it is still owned.
Unlink(o, from, to) ==
  /\ Does(o, from, to) /\ lockFile' = FALSE
  /\ UNCHANGED <<disk, info, changed, boot, plugin, copy, envCopy, holder, outlasted, ghosts>>

ReleaseReload(o, from, to) ==
  /\ Does(o, from, to) /\ holder' = IF holder = o THEN Nil ELSE holder
  /\ UNCHANGED <<disk, info, changed, boot, plugin, copy, envCopy, lockFile, outlasted, ghosts>>

\* The lock runs out after 300 s.
ReloadLapses ==
  /\ holder # Nil /\ holder' = Nil /\ outlasted' = TRUE
  /\ UNCHANGED <<disk, info, changed, boot, work, lockFile, ghosts>>

PluginNext ==
  \/ \E w \in Loaders :
       \/ ListPlugins(w) \/ Scan(w) \/ DeleteUnknown(w) \/ WriteInfo(w)
       \/ ClearChanged(w) \/ StopLoader(w)
       \/ \E p \in Plugins : ReadInfo(w, p)
  \/ \E o \in Operators :
       \/ \E p \in Plugins : Ask(o, p)
       \/ GetStatus(o) \/ SetStatus(o) \/ SetRemote(o)
       \/ RemovePackages(o) \/ MoveDir(o) \/ DropInfo(o) \/ MarkChanged(o, "mark", "done")
       \/ LookForDir(o) \/ AcquireReload(o) \/ Place(o) \/ ReadEnv(o) \/ AppendEnv(o)
       \/ InstallPackages(o) \/ MarkChanged(o, "flag", "unlink")
       \/ Unlink(o, "unlink", "release") \/ ReleaseReload(o, "release", "installed")
       \/ Unlink(o, "undo", "leave") \/ ReleaseReload(o, "leave", "failed")
  \/ ReloadLapses

PluginSpec == PluginInit /\ [][PluginNext]_pluginVars

-----------------------------------------------------------------------------
(* Properties.                                                              *)

Quiet == ~raced /\ Working = {} /\ Starting = {}

\* As long as requests and starts neither overlap nor are cut short, the status
\* an administrator gave a plugin survives every restart of every worker until
\* the plugin is uninstalled, and the worker that started last either serves
\* the plugins that are on disk or the change is flagged, unless an
\* installation failed after it had made the directory.
RegistryFollows ==
  Quiet =>
    /\ \A p \in Plugins : wanted[p] # "none" => info[p] = wanted[p]
    /\ latest # Nil /\ loader[latest] = "up" /\ ~halfway =>
         changed \/ listed[latest] = dirs

\* As long as the lock is not outlasted, installations do not mix, whatever
\* else overlaps: the lock file that stops the reloader is there while any of
\* them works on the disk, and .env keeps the variables of all that passed it.
InstallsShielded ==
  ~outlasted => \A o \in Operators :
    /\ task[o] \in {"place", "read", "append", "packages", "flag", "unlink", "undo"} => lockFile
    /\ task[o] \in {"packages", "flag", "unlink", "release", "installed"} => plugin[o] \in env

=============================================================================
