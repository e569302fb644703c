------------------------------- MODULE Startup -------------------------------
(***************************************************************************)
(* The start of the API workers (database/db.py, database/seed.py): each   *)
(* worker creates the tables and, if sys_user is empty, runs the seed      *)
(* script, under a Redis lock with a time to live and a bounded wait.  Any *)
(* error ends the worker; its supervisor may start it again.               *)
(***************************************************************************)
EXTENDS Integers

CONSTANTS
  Workers,    \* API workers
  Nobody,     \* no worker
  MaxStarts   \* bound: starts of workers

ASSUME StartupAssumption == Nobody \notin Workers /\ MaxStarts \in Nat

VARIABLES
  phase,    \* phase[w]: where worker w is in create_tables
  owner,    \* the worker that owns CREATE_TABLES_LOCK_KEY
  made,   \* create_all has been committed
  seeded,   \* sys_user has rows
  starts,   \* starts so far
  mishap    \* history: a step failed or ran out of time, or a worker was killed

startVars == <<phase, owner, made, seeded, starts, mishap>>

StartTypeOK ==
  /\ phase \in [Workers -> {"down", "wait", "create", "check", "seed", "release", "serving", "exited"}]
  /\ owner \in Workers \cup {Nobody}
  /\ made \in BOOLEAN /\ seeded \in BOOLEAN
  /\ starts \in Nat /\ mishap \in BOOLEAN

StartInit ==
  /\ phase = [w \in Workers |-> "down"] /\ owner = Nobody
  /\ made = FALSE /\ seeded = FALSE /\ starts = 0 /\ mishap = FALSE

Goes(w, from, to) == phase[w] = from /\ phase' = [phase EXCEPT ![w] = to]
Inside == {"create", "check", "seed", "release"}

Boot(w) ==
  /\ starts < MaxStarts /\ starts' = starts + 1
  /\ Goes(w, "down", "wait") \/ Goes(w, "exited", "wait")
  /\ UNCHANGED <<owner, made, seeded, mishap>>

\* Mutant: the lock is taken from its owner.
AcquireTablesAnyway(w) ==
  /\ owner' = w /\ Goes(w, "wait", "create")
  /\ UNCHANGED <<made, seeded, starts, mishap>>

AcquireTables(w) ==
  /\ owner = Nobody /\ owner' = w /\ Goes(w, "wait", "create")
  /\ UNCHANGED <<made, seeded, starts, mishap>>

\* blocking_timeout: the worker has waited for 120 s.
GiveUp(w) ==
  /\ owner # Nobody /\ Goes(w, "wait", "exited") /\ mishap' = TRUE
  /\ UNCHANGED <<owner, made, seeded, starts>>

CreateAll(w) ==
  /\ Goes(w, "create", "check") /\ made' = TRUE
  /\ UNCHANGED <<owner, seeded, starts, mishap>>

\* is_database_seeded
CheckSeeded(w) ==
  /\ Goes(w, "check", IF seeded THEN "release" ELSE "seed")
  /\ UNCHANGED <<owner, made, seeded, starts, mishap>>

\* The context manager gives the lock back on the way out, if w still has it.
LeaveLock(w) == owner' = IF owner = w THEN Nobody ELSE owner

\* execute_sql_file: one transaction with fixed ids, which fails as a whole if
\* another worker has committed the same rows since the check.
Seed(w) ==
  /\ seeded' = TRUE
  /\ \/ ~seeded /\ Goes(w, "seed", "release") /\ UNCHANGED owner
     \/ seeded /\ Goes(w, "seed", "exited") /\ LeaveLock(w)
  /\ UNCHANGED <<made, starts, mishap>>

\* The end of the block; releasing a lock that is not owned any more raises.
ReleaseTables(w) ==
  /\ Goes(w, "release", IF owner = w THEN "serving" ELSE "exited") /\ LeaveLock(w)
  /\ UNCHANGED <<made, seeded, starts, mishap>>

\* The database fails in create_all, in the check or in the script.
StartFails(w) ==
  /\ phase[w] \in {"create", "check", "seed"} /\ Goes(w, phase[w], "exited")
  /\ LeaveLock(w) /\ mishap' = TRUE
  /\ UNCHANGED <<made, seeded, starts>>

\* A worker is killed; one inside the lock leaves it to its time to live.
Kill(w) ==
  /\ phase[w] # "down" /\ Goes(w, phase[w], "down")
  /\ mishap' = (mishap \/ phase[w] \in Inside)
  /\ UNCHANGED <<owner, made, seeded, starts>>

\* CREATE_TABLES_LOCK_TIMEOUT passes, whether or not its owner is done.
LockLapses ==
  /\ owner # Nobody /\ owner' = Nobody /\ mishap' = TRUE
  /\ UNCHANGED <<phase, made, seeded, starts>>

StartNext ==
  \/ \E w \in Workers :
       \/ Boot(w) \/ AcquireTables(w) \/ GiveUp(w) \/ CreateAll(w) \/ CheckSeeded(w)
       \/ Seed(w) \/ ReleaseTables(w) \/ StartFails(w) \/ Kill(w)
  \/ LockLapses

StartSpec == StartInit /\ [][StartNext]_startVars

-----------------------------------------------------------------------------
(* Properties.                                                              *)

\* A worker serves only over tables that exist and are seeded, also after
\* crashes between the two and with a lock that ran out; and as long as
\* nothing fails and no time runs out, no start fails, however many workers
\* start at once: none of them seeds what another has seeded.
StartsSafely ==
  /\ \A w \in Workers : phase[w] = "serving" => made /\ seeded
  /\ ~mishap => \A w \in Workers : phase[w] # "exited"

=============================================================================
