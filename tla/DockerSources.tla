---------------------------- MODULE DockerSources ----------------------------
(***************************************************************************)
(* The rows of docker_config: the list of image sources, one JSON value    *)
(* that every request reads, changes and writes whole                      *)
(* (plugin/docker/api/v1/registries.py), and the connected status          *)
(* (plugin/docker/service/docker_service.py, api/v1/system.py).            *)
(***************************************************************************)
EXTENDS FiniteSets

CONSTANTS
  Editors,    \* requests, one each
  Names,      \* names that requests give
  Urls,       \* addresses that requests give
  Earlier,    \* sources saved before, each with itself as name and address
  Default,    \* DEFAULT_REGISTRY_ID, also the name and the address it has
  NoRow       \* the row does not exist

ASSUME DockerSourcesAssumption == Default \notin Editors \cup Names \cup Urls \cup Earlier

VARIABLES
  saved,      \* the row docker_registries: a set of sources, or NoRow
  connected,  \* the row connected: "true", "false" or "none"
  rowLock,    \* the requests that hold the row by SELECT ... FOR UPDATE
  edit,       \* edit[e]: the step request e is about to take
  about,      \* about[e]: the source it is about
  found,      \* found[e]: the row as it has read it ({}: connected, whatever it says)
  due,        \* history: the list after the requests answered with success
  writtenOver \* history: an addition or a change was made to a list that was no longer the row

sourceVars == <<saved, connected, rowLock, edit, about, found, due, writtenOver>>

Ids == Editors \cup Earlier \cup {Default}
SourceRow == [id : Ids, name : Names \cup Earlier \cup {Default}, url : Urls \cup Earlier \cup {Default}]
Rows == {NoRow} \cup SUBSET SourceRow
Kinds == {"list", "create", "update", "delete", "connect", "disconnect"}
Writes == {"insert", "append", "change", "drop", "true", "false"}

\* _get_default_registries
SameAll(i) == [id |-> i, name |-> i, url |-> i]
DefaultSources == {SameAll(Default)}

SourceTypeOK ==
  /\ saved \in Rows /\ connected \in {"none", "true", "false"}
  /\ rowLock \subseteq Editors
  /\ edit \in [Editors -> {"idle", "done", "failed"} \cup Kinds \cup Writes]
  /\ about \in [Editors -> SourceRow] /\ found \in [Editors -> Rows]
  /\ due \in SUBSET SourceRow /\ writtenOver \in BOOLEAN

SourceInit ==
  /\ saved \in {NoRow, DefaultSources \cup {SameAll(i) : i \in Earlier}}
  /\ due = IF saved = NoRow THEN DefaultSources ELSE saved
  /\ connected = "none" /\ rowLock = {}
  /\ edit = [e \in Editors |-> "idle"]
  /\ about = [e \in Editors |-> SameAll(Default)]
  /\ found = [e \in Editors |-> NoRow]
  /\ writtenOver = FALSE

Edits(e, from, to) == edit[e] = from /\ edit' = [edit EXCEPT ![e] = to]

\* The handlers; update may leave the name or the address as it is (Default).
AskSource(e, kind, s) ==
  /\ Edits(e, "idle", kind)
  /\ about' = [about EXCEPT ![e] = s]
  /\ UNCHANGED <<saved, connected, rowLock, found, due, writtenOver>>

\* What a request knows goes when it ends.
Leaving(e) == edit'[e] \in {"done", "failed"}
Knows(e, row) ==
  /\ found' = [found EXCEPT ![e] = IF Leaving(e) THEN NoRow ELSE row]
  /\ about' = [about EXCEPT ![e] = IF Leaving(e) THEN SameAll(Default) ELSE @]

Reads(e, row) == Knows(e, row) /\ UNCHANGED <<saved, connected, due, writtenOver>>

Listed(row) == IF row = NoRow THEN DefaultSources ELSE row

\* No source but the one of this id has the name or the address, if given.
Free(s, row) ==
  \A t \in row : t.id # s.id =>
    /\ s.name = Default \/ t.name # s.name
    /\ s.url = Default \/ t.url # s.url

\* list_registries answers with the row, or saves the default list.
ListRegistries(e) ==
  /\ Edits(e, "list", IF saved = NoRow THEN "insert" ELSE "done")
  /\ Reads(e, saved) /\ UNCHANGED rowLock

CreateRegistry(e) ==
  /\ Edits(e, "create", IF Free([about[e] EXCEPT !.id = e], Listed(saved)) THEN "append" ELSE "failed")
  /\ Reads(e, saved) /\ UNCHANGED rowLock

\* What update_registry makes of the source: what is not given stays.
Changed(s, t) ==
  IF t.id # s.id THEN t
  ELSE [t EXCEPT !.name = IF s.name = Default THEN @ ELSE s.name,
                 !.url = IF s.url = Default THEN @ ELSE s.url]

\* The source is there, is not the default one, and stays free of conflicts.
Editable(id, row) == row # NoRow /\ id # Default /\ \E t \in row : t.id = id

UpdateRegistry(e) ==
  /\ Edits(e, "update",
       IF Editable(about[e].id, saved) /\ Free(about[e], saved) THEN "change" ELSE "failed")
  /\ Reads(e, saved) /\ UNCHANGED rowLock

\* Mutant: delete_registry reads the row without a lock.
DeleteRegistryUnlocked(e) ==
  /\ Edits(e, "delete", IF Editable(about[e].id, saved) THEN "drop" ELSE "failed")
  /\ Reads(e, saved) /\ UNCHANGED rowLock

\* delete_registry reads with FOR UPDATE: it waits for the row.
DeleteRegistry(e) ==
  /\ rowLock = {}
  /\ LET ok == Editable(about[e].id, saved)
     IN  /\ Edits(e, "delete", IF ok THEN "drop" ELSE "failed")
         /\ rowLock' = IF ok THEN {e} ELSE {}
  /\ Reads(e, saved)

\* The list a request writes, made from the one it has read.
Result(e) ==
  CASE edit[e] = "insert" -> DefaultSources
    [] edit[e] = "append" -> Listed(found[e]) \cup {[about[e] EXCEPT !.id = e]}
    [] edit[e] = "change" -> {Changed(about[e], t) : t \in found[e]}
    [] edit[e] = "drop"   -> {t \in found[e] : t.id # about[e].id}

\* The same change made to the list that is due.
Effect(e) ==
  CASE edit[e] = "insert" -> due
    [] edit[e] = "append" -> due \cup {[about[e] EXCEPT !.id = e]}
    [] edit[e] = "change" -> {Changed(about[e], t) : t \in due}
    [] edit[e] = "drop"   -> {t \in due : t.id # about[e].id}

Writing(e) == edit[e] \in {"insert", "append", "change", "drop"}

\* The commit: an INSERT meets the unique key of a row made meanwhile; an
\* UPDATE waits for the row, and is left out when the value is what was read.
CommitList(e) ==
  /\ Writing(e)
  /\ IF found[e] = NoRow
     THEN IF saved = NoRow
          THEN saved' = Result(e) /\ due' = Effect(e) /\ Edits(e, edit[e], "done")
          ELSE UNCHANGED <<saved, due>> /\ Edits(e, edit[e], "failed")
     ELSE /\ rowLock \subseteq {e}
          /\ saved' = IF Result(e) = found[e] THEN saved ELSE Result(e)
          /\ due' = Effect(e) /\ Edits(e, edit[e], "done")
  /\ rowLock' = rowLock \ {e}
  /\ writtenOver' = (writtenOver
       \/ (found[e] # NoRow /\ edit[e] # "drop" /\ saved # found[e]))
  /\ Knows(e, found[e]) /\ UNCHANGED connected

\* The commit fails: the transaction is rolled back.
RollBack(e) ==
  /\ \E step \in Writes : Edits(e, step, "failed")
  /\ rowLock' = rowLock \ {e}
  /\ Knows(e, found[e]) /\ UNCHANGED <<saved, connected, due, writtenOver>>

\* set_connected_status: the row is read, then made or changed.
SetConnected(e, kind, value) ==
  /\ Edits(e, kind, value) /\ Reads(e, IF connected = "none" THEN NoRow ELSE {})
  /\ UNCHANGED rowLock

CommitConnected(e, value) ==
  /\ IF found[e] = NoRow /\ connected # "none"
     THEN Edits(e, value, "failed") /\ UNCHANGED connected
     ELSE Edits(e, value, "done") /\ connected' = value
  /\ Knows(e, found[e]) /\ UNCHANGED <<saved, rowLock, due, writtenOver>>

\* get_connected_status: no row, or a failing read, counts as not connected.
ConnectedShown == connected = "true"

SourceNext ==
  \E e \in Editors :
    \/ \E kind \in {"list", "connect", "disconnect"} : AskSource(e, kind, about[e])
    \/ \E kind \in {"create", "update", "delete"} :
         \E s \in [id : Ids \ {f \in Editors : edit[f] # "done"},
                   name : Names \cup {Default}, url : Urls \cup {Default}] :
           /\ kind = "create" => s.id = Default /\ s.name # Default /\ s.url # Default
           /\ kind = "delete" => s.name = Default /\ s.url = Default
           /\ AskSource(e, kind, s)
    \/ ListRegistries(e) \/ CreateRegistry(e) \/ UpdateRegistry(e) \/ DeleteRegistry(e)
    \/ CommitList(e) \/ RollBack(e)
    \/ SetConnected(e, "connect", "true") \/ SetConnected(e, "disconnect", "false")
    \/ \E value \in {"true", "false"} : CommitConnected(e, value)

SourceSpec == SourceInit /\ [][SourceNext]_sourceVars

-----------------------------------------------------------------------------
(* Properties.                                                              *)

\* The list always has the default source and no two sources with one name or
\* one address, and it is what the successful requests made of it, in their
\* order, unless an addition or a change started from a list no longer saved:
\* deletions lose nothing and let nothing come back, however they interleave.
SourcesKept ==
  saved # NoRow =>
    /\ DefaultSources \subseteq saved
    /\ \A s, t \in saved : s.id # t.id => s.name # t.name /\ s.url # t.url
    /\ ~writtenOver => saved = due

=============================================================================
