---------------------------- MODULE BeatScheduler ----------------------------
(***************************************************************************)
(* The Celery beat with its schedule in the database                       *)
(* (app/task/utils/schedulers.py).  Beats load the enabled rows of         *)
(* task_scheduler, wait for a lock in Redis, and then look for changes,    *)
(* run what is due and save what they ran; administrators write the rows   *)
(* and announce it by a timestamp in Redis.                                *)
(*                                                                         *)
(* Time is counted in instants, Sub of them to a second: the timestamp is  *)
(* stored in seconds, the beat's own clock is not.  When a task is due is  *)
(* not modelled: any enabled entry may be.  edit stands for the schedule   *)
(* of a row; 0 is the schedule LOCAL_BEAT_SCHEDULE gives it.  count is     *)
(* total_run_count, and last_run_time, which is set together with it.      *)
(***************************************************************************)
EXTENDS Integers, Sequences

CONSTANTS
  Beats,     \* beat processes
  Admins,    \* requests of administrators that may run at the same time
  Tasks,     \* names of scheduled tasks
  OneOff,    \* tasks with one_off
  Defaults,  \* names install_default_entries writes
  Locals,    \* names in LOCAL_BEAT_SCHEDULE
  Ops,       \* operations the administrators use
  MaxEdit,   \* bound: schedules 0 .. MaxEdit
  MaxId,     \* bound: row ids 1 .. MaxId
  MaxRuns,   \* bound: runs counted in a row
  MaxTime,   \* bound: instants the clock runs
  Sub,       \* instants of a second
  Late,      \* TRUE: a beat may outstay its lock's 25 seconds
  Faults,    \* TRUE: the database may fail a save or a reload
  Crashes,   \* TRUE: a beat may be killed
  None,      \* no row, no name, no owner
  Orphan     \* the lock's owner died

ASSUME BeatAssumption ==
  /\ OneOff \subseteq Tasks /\ Defaults \subseteq Tasks /\ Locals \subseteq Tasks
  /\ OneOff \cap (Defaults \cup Locals) = {}
  /\ Ops \subseteq {"create", "update", "toggle", "delete"}
  /\ MaxEdit \in Nat /\ MaxId \in Nat /\ MaxRuns \in Nat /\ MaxTime \in Nat
  /\ Sub \in Nat \ {0}
  /\ Late \in BOOLEAN /\ Faults \in BOOLEAN /\ Crashes \in BOOLEAN
  /\ None \notin Beats \cup Tasks \cup {Orphan} /\ Orphan \notin Beats

Edits == 0 .. MaxEdit
Rows == [id : 1 .. MaxId, enabled : BOOLEAN, edit : Edits, count : 0 .. MaxRuns]
Entries ==
  [id : 1 .. MaxId, enabled : BOOLEAN, edit : Edits, count : 0 .. MaxRuns, quiet : BOOLEAN]
Missing == -1
Stamps == 0 .. MaxTime
Frames == [name : Tasks \cup {None}, failed : SUBSET Tasks]
Setups ==
  [groups : Seq(SUBSET Tasks), name : Tasks \cup {None},
   read : Rows \cup {None}, made : [Tasks -> Entries \cup {None}]]
Requests ==
  [pc : {"idle", "read", "flushed"}, op : Ops \cup {None}, task : Tasks \cup {None},
   edit : Edits, row : Rows \cup {None}]
Places == {"off", "setup", "merge", "wait", "tick", "look", "work",
           "pop", "save", "reload", "close"}
Reasons == {"setup", "tick", "plain", "final", "exit"}

ASSUME NoneIsNoRow == None \notin Rows \cup Entries

VARIABLES
  rows,     \* rows[t]: the committed row of t, or None
  nextId,   \* the next primary key
  tx,       \* tx[a]: the request of an administrator
  notices,  \* timestamps taken but not yet in Redis
  notice,   \* the key last_update
  lock,     \* the key beat_lock
  now,      \* the clock
  pc,       \* pc[b]: what beat b is doing
  why,      \* why[b]: what the outermost sync was called for
  frames,   \* frames[b]: the calls of sync in progress, the innermost last
  copy,     \* copy[b]: _schedule
  dirty,    \* dirty[b]: _dirty
  seen,     \* seen[b]: _last_update
  setup,    \* setup[b]: progress of setup_schedule
  fired     \* history: runs of a one-off task since it was last enabled, at most 2

beatVars == <<pc, why, frames, copy, dirty, seen, setup>>
vars == <<rows, nextId, tx, notices, notice, lock, now, beatVars, fired>>

TypeOK ==
  /\ rows \in [Tasks -> Rows \cup {None}]
  /\ nextId \in 1 .. MaxId + 1
  /\ tx \in [Admins -> Requests]
  /\ notices \subseteq Stamps
  /\ notice \in Stamps \cup {Missing}
  /\ lock \in Beats \cup {None, Orphan}
  /\ now \in Stamps
  /\ pc \in [Beats -> Places]
  /\ why \in [Beats -> Reasons]
  /\ frames \in [Beats -> Seq(Frames)]
  /\ copy \in [Beats -> [Tasks -> Entries \cup {None}]]
  /\ dirty \in [Beats -> SUBSET Tasks]
  /\ seen \in [Beats -> Stamps \cup {Missing}]
  /\ setup \in [Beats -> Setups]
  /\ fired \in [OneOff -> 0 .. 2]

----------------------------------------------------------------------------
(* Rows, copies and timestamps. *)

NoEntries == [t \in Tasks |-> None]
NoSetup == [groups |-> <<>>, name |-> None, read |-> None, made |-> NoEntries]
NoTx == [pc |-> "idle", op |-> None, task |-> None, edit |-> 0, row |-> None]
Frame == [name |-> None, failed |-> {}]

(* TaskScheduler(...) with its column defaults. *)
NewRow(edit) == [id |-> nextId, enabled |-> TRUE, edit |-> edit, count |-> 0]

(* Mutant: an entry counts from nothing. *)
EntryUncounted(row) == [id |-> row.id, enabled |-> row.enabled, edit |-> row.edit,
                        count |-> 0, quiet |-> FALSE]

(* ModelEntry(row).  A row as loaded has no_changes = False. *)
Entry(row) == [id |-> row.id, enabled |-> row.enabled, edit |-> row.edit,
               count |-> row.count, quiet |-> FALSE]

(* get_all_task_schedulers. *)
EnabledEntries ==
  [t \in Tasks |-> IF rows[t] # None /\ rows[t].enabled THEN Entry(rows[t]) ELSE None]

(* The row e was loaded from is there; a new row of its name is another. *)
Same(t, e) == rows[t] # None /\ rows[t].id = e.id

(* Another transaction holds the lock of row t. *)
RowLocked(t) == \E a \in Admins : tx[a].pc = "flushed" /\ tx[a].task = t

(* Mutant: the next second. *)
ToStrNext(t) == t - (t % Sub) + Sub

(* timezone.to_str cuts a time off to the second. *)
ToStr(t) == t - (t % Sub)

Init ==
  /\ rows = [t \in Tasks |-> None]
  /\ nextId = 1
  /\ tx = [a \in Admins |-> NoTx]
  /\ notices = {} /\ notice = Missing /\ lock = None /\ now = 0
  /\ pc = [b \in Beats |-> "off"]
  /\ why = [b \in Beats |-> "setup"]
  /\ frames = [b \in Beats |-> <<>>]
  /\ copy = [b \in Beats |-> NoEntries]
  /\ dirty = [b \in Beats |-> {}]
  /\ seen = [b \in Beats |-> Missing]
  /\ setup = [b \in Beats |-> NoSetup]
  /\ fired = [t \in OneOff |-> 0]

----------------------------------------------------------------------------
(* Administrators: one transaction per request, flushed when it ends       *)
(* (create: by the insert) and then committed.  SQLAlchemy writes only the *)
(* columns that differ from the row as it was read.  After the flush       *)
(* update_changed starts a task that takes the time and stores it, while   *)
(* the COMMIT is under way.                                                *)

(* The handlers of scheduler_service up to their last SELECT. *)
Read(a, op, t, edit) ==
  /\ tx[a].pc = "idle" /\ op \in Ops
  /\ IF op = "create" THEN rows[t] = None ELSE rows[t] # None
  /\ op = "update" => edit # rows[t].edit
  /\ op \in {"toggle", "delete"} => edit = 0
  /\ tx' = [tx EXCEPT ![a] = [pc |-> "read", op |-> op, task |-> t, edit |-> edit,
                                row |-> rows[t]]]
  /\ UNCHANGED <<rows, nextId, notices, notice, lock, now, beatVars, fired>>

(* The statement finds what it needs: no row of that name, or the row that *)
(* was read.                                                               *)
Applies(r) ==
  IF r.op = "create" THEN rows[r.task] = None /\ nextId <= MaxId
                     ELSE Same(r.task, r.row)

(* INSERT, UPDATE or DELETE takes the row's lock, INSERT also an id; the   *)
(* listener takes the time.                                                *)
Flush(a) ==
  LET r == tx[a] IN
  /\ r.pc = "read" /\ ~RowLocked(r.task) /\ Applies(r)
  /\ IF r.op = "create"
     THEN /\ tx' = [tx EXCEPT ![a].pc = "flushed", ![a].row = NewRow(r.edit)]
          /\ nextId' = nextId + 1
     ELSE tx' = [tx EXCEPT ![a].pc = "flushed"] /\ UNCHANGED nextId
  /\ notices' = notices \cup {ToStr(now)}
  /\ UNCHANGED <<rows, notice, lock, now, beatVars, fired>>

(* The row the request leaves behind. *)
Result(r) ==
  CASE r.op = "create" -> r.row
    [] r.op = "update" -> [rows[r.task] EXCEPT !.edit = r.edit]
    [] r.op = "toggle" -> [rows[r.task] EXCEPT !.enabled = ~r.row.enabled]
    [] r.op = "delete" -> None

Commit(a) ==
  LET r == tx[a] IN
  /\ r.pc = "flushed"
  /\ rows' = [rows EXCEPT ![r.task] = Result(r)]
  /\ fired' = [t \in OneOff |->
       IF t = r.task /\ (r.op = "create" \/ (r.op = "toggle" /\ ~r.row.enabled))
       THEN 0 ELSE fired[t]]
  /\ tx' = [tx EXCEPT ![a] = NoTx]
  /\ UNCHANGED <<nextId, notices, notice, lock, now, beatVars>>

(* An exception (the name is taken, the row is gone) or the end of the     *)
(* worker: rolled back.  A timestamp already taken may still be stored.    *)
Abort(a) ==
  /\ tx[a].pc # "idle"
  /\ tx' = [tx EXCEPT ![a] = NoTx]
  /\ UNCHANGED <<rows, nextId, notices, notice, lock, now, beatVars, fired>>

(* update_changed_async: SET last_update.  Tasks of several workers end in *)
(* any order.                                                              *)
Publish(s) ==
  /\ s \in notices
  /\ notices' = notices \ {s}
  /\ notice' = s
  /\ UNCHANGED <<rows, nextId, tx, lock, now, beatVars, fired>>

Tick ==
  /\ now < MaxTime
  /\ now' = now + 1
  /\ UNCHANGED <<rows, nextId, tx, notices, notice, lock, beatVars, fired>>

----------------------------------------------------------------------------
(* schedule_changed: compares last_update with the time of the last look,  *)
(* and makes this one the last.  A missing key is set, and then            *)
(* _last_update stays as it is.                                            *)

Changed(b) == notice # Missing /\ seen[b] # Missing /\ notice > seen[b]

Look(b) ==
  IF notice = Missing
  THEN notice' = ToStr(now) /\ UNCHANGED seen
  ELSE seen' = [seen EXCEPT ![b] = now] /\ UNCHANGED notice

Goes(b, to) == pc' = [pc EXCEPT ![b] = to]

(* A call of sync, from the property schedule, from Celery, or from close. *)
Syncs(b, reason) ==
  /\ Goes(b, "pop")
  /\ why' = [why EXCEPT ![b] = reason]
  /\ frames' = [frames EXCEPT ![b] = <<Frame>>]

(* The process is gone, and with it everything it had in memory. *)
Gone(b) ==
  /\ Goes(b, "off")
  /\ why' = [why EXCEPT ![b] = "setup"]
  /\ frames' = [frames EXCEPT ![b] = <<>>]
  /\ copy' = [copy EXCEPT ![b] = NoEntries]
  /\ dirty' = [dirty EXCEPT ![b] = {}]
  /\ seen' = [seen EXCEPT ![b] = Missing]
  /\ setup' = [setup EXCEPT ![b] = NoSetup]

----------------------------------------------------------------------------
(* Start: setup_schedule runs when Celery creates the scheduler, before    *)
(* the signal beat_init that makes it wait for the lock.                   *)

Start(b) ==
  /\ pc[b] = "off"
  /\ Goes(b, "setup")
  /\ copy' = [copy EXCEPT ![b] = EnabledEntries]
  /\ setup' = [setup EXCEPT ![b] = [NoSetup EXCEPT !.groups = <<Defaults, Locals>>]]
  /\ UNCHANGED <<rows, nextId, tx, notices, notice, lock, now, why, frames, dirty, seen, fired>>

(* from_entry: SELECT by name, without a lock. *)
SetupRead(b, t) ==
  /\ pc[b] = "setup" /\ setup[b].name = None /\ t \in Head(setup[b].groups)
  /\ setup' = [setup EXCEPT ![b].name = t, ![b].read = rows[t]]
  /\ UNCHANGED <<rows, nextId, tx, notices, notice, lock, now,
                 pc, why, frames, copy, dirty, seen, fired>>

(* What from_entry makes of the row it read: a row with another schedule   *)
(* becomes a new one of the same id.                                       *)
Merged(row) ==
  IF row = None THEN NewRow(0)
  ELSE IF row.edit = 0 THEN row
  ELSE [row EXCEPT !.enabled = TRUE, !.edit = 0, !.count = 0]

(* The columns of new that differ from old, written over row. *)
Over(row, old, new) ==
  [row EXCEPT !.enabled = IF new.enabled # old.enabled THEN new.enabled ELSE @,
              !.edit = IF new.edit # old.edit THEN new.edit ELSE @,
              !.count = IF new.count # old.count THEN new.count ELSE @]

(* from_entry: its commit, and update_from_dict keeps the entry if it is   *)
(* enabled.                                                                *)
SetupWrite(b) ==
  LET t == setup[b].name
      read == setup[b].read
      new == Merged(read)
  IN
  /\ pc[b] = "setup" /\ t # None
  /\ CASE read = None ->
            /\ ~RowLocked(t) /\ rows[t] = None /\ nextId <= MaxId
            /\ rows' = [rows EXCEPT ![t] = new]
            /\ nextId' = nextId + 1
            /\ notices' = notices \cup {ToStr(now)}
       [] read # None /\ new # read ->
            /\ ~RowLocked(t) /\ Same(t, read)
            /\ rows' = [rows EXCEPT ![t] = Over(rows[t], read, new)]
            /\ notices' = notices \cup {ToStr(now)}
            /\ UNCHANGED nextId
       [] read # None /\ new = read -> UNCHANGED <<rows, nextId, notices>>
  /\ setup' = [setup EXCEPT
       ![b].groups = <<Head(setup[b].groups) \ {t}>> \o Tail(setup[b].groups),
       ![b].name = None, ![b].read = None,
       ![b].made[t] = IF new.enabled THEN Entry(new) ELSE None]
  /\ UNCHANGED <<tx, notice, lock, now, pc, why, frames, copy, dirty, seen, fired>>

(* from_entry raises: another process inserted the name, or the row to     *)
(* update is gone.  update_from_dict passes it on and the beat ends.       *)
SetupFails(b) ==
  LET t == setup[b].name IN
  /\ pc[b] = "setup" /\ t # None /\ ~RowLocked(t)
  /\ IF setup[b].read = None
     THEN rows[t] # None
     ELSE /\ setup[b].read.edit # 0
          /\ ~Same(t, setup[b].read)
  /\ Gone(b)
  /\ UNCHANGED <<rows, nextId, tx, notices, notice, lock, now, fired>>

(* The property schedule at the end of update_from_dict. *)
SetupLook(b) ==
  /\ pc[b] = "setup" /\ setup[b].name = None /\ Head(setup[b].groups) = {}
  /\ Look(b)
  /\ IF Changed(b) THEN Syncs(b, "setup") ELSE Goes(b, "merge") /\ UNCHANGED <<why, frames>>
  /\ UNCHANGED <<rows, nextId, tx, notices, lock, now, copy, dirty, setup, fired>>

(* tasks.update(s), and the next dictionary or the signal beat_init. *)
Merge(b) ==
  LET made == setup[b].made IN
  /\ pc[b] = "merge"
  /\ copy' = [copy EXCEPT ![b] =
       [t \in Tasks |-> IF made[t] # None THEN made[t] ELSE copy[b][t]]]
  /\ IF Len(setup[b].groups) = 1
     THEN setup' = [setup EXCEPT ![b] = NoSetup] /\ Goes(b, "wait")
     ELSE /\ setup' = [setup EXCEPT ![b] = [NoSetup EXCEPT !.groups = Tail(setup[b].groups)]]
          /\ Goes(b, "setup")
  /\ UNCHANGED <<rows, nextId, tx, notices, notice, lock, now, why, frames, dirty, seen, fired>>

(* Mutant: does not wait for the lock. *)
AcquireUnasked(b) ==
  /\ pc[b] = "wait"
  /\ lock' = IF lock = None THEN b ELSE lock
  /\ Goes(b, "tick")
  /\ UNCHANGED <<rows, nextId, tx, notices, notice, now,
                 why, frames, copy, dirty, seen, setup, fired>>

(* acquire_distributed_beat_lock. *)
Acquire(b) ==
  /\ pc[b] = "wait" /\ lock = None
  /\ lock' = b
  /\ Goes(b, "tick")
  /\ UNCHANGED <<rows, nextId, tx, notices, notice, now,
                 why, frames, copy, dirty, seen, setup, fired>>

----------------------------------------------------------------------------
(* sync and the property schedule call each other: sync takes a name out   *)
(* of _dirty and asks for schedule, which calls sync and reloads if there  *)
(* is a change.  frames holds the calls of sync in progress.               *)

Top(b) == frames[b][Len(frames[b])]
Outer(b) == SubSeq(frames[b], 1, Len(frames[b]) - 1)

(* _dirty.pop() and self.schedule. *)
Pop(b) ==
  /\ pc[b] = "pop"
  /\ \E t \in dirty[b] :
       LET named == [frames[b] EXCEPT ![Len(frames[b])].name = t] IN
       /\ dirty' = [dirty EXCEPT ![b] = @ \ {t}]
       /\ IF Changed(b)
          THEN frames' = [frames EXCEPT ![b] = Append(named, Frame)] /\ UNCHANGED pc
          ELSE frames' = [frames EXCEPT ![b] = named] /\ Goes(b, "save")
  /\ Look(b)
  /\ UNCHANGED <<rows, nextId, tx, notices, lock, now, why, copy, setup, fired>>

(* The innermost of the calls fs returns: what failed goes back to _dirty. *)
(* If schedule called it, it reloads; else Celery goes on, or close ends   *)
(* and the finalizer of __init__ syncs once more before the process ends.  *)
Returns(b, fs) ==
  LET again == dirty[b] \cup fs[Len(fs)].failed IN
  IF Len(fs) > 1 \/ why[b] \in {"setup", "tick"}
  THEN /\ dirty' = [dirty EXCEPT ![b] = again]
       /\ frames' = [frames EXCEPT ![b] = fs]
       /\ Goes(b, "reload")
       /\ UNCHANGED <<why, copy, seen, setup>>
  ELSE IF why[b] \in {"plain", "final"}
  THEN /\ dirty' = [dirty EXCEPT ![b] = again]
       /\ IF why[b] = "plain"
          THEN /\ frames' = [frames EXCEPT ![b] = <<>>] /\ Goes(b, "tick") /\ UNCHANGED why
          ELSE Syncs(b, "exit")
       /\ UNCHANGED <<copy, seen, setup>>
  ELSE Gone(b)

SyncEnds(b) ==
  /\ pc[b] = "pop" /\ dirty[b] = {}
  /\ Returns(b, frames[b])
  /\ UNCHANGED <<rows, nextId, tx, notices, notice, lock, now, fired>>

(* Mutant: the count is not among the fields. *)
SavedTime(row, entry) == row

(* Mutant: saves every column. *)
SavedWhole(row, entry) ==
  [row EXCEPT !.count = entry.count, !.edit = entry.edit, !.enabled = entry.enabled]

(* tasks[name].save(): the row of the entry's id, SELECT FOR UPDATE; the   *)
(* UPDATE is announced unless the entry says no_changes.                   *)
Saved(row, entry) == [row EXCEPT !.count = entry.count]

Save(b) ==
  LET t == Top(b).name
      entry == copy[b][t]
  IN
  /\ pc[b] = "save" /\ entry # None /\ ~RowLocked(t)
  /\ IF Same(t, entry)
     THEN /\ rows' = [rows EXCEPT ![t] = Saved(rows[t], entry)]
          /\ notices' = IF rows' = rows \/ entry.quiet THEN notices
                                                       ELSE notices \cup {ToStr(now)}
     ELSE UNCHANGED <<rows, notices>>
  /\ Goes(b, "pop")
  /\ UNCHANGED <<nextId, tx, notice, lock, now, why, frames, copy, dirty, seen, setup, fired>>

(* Mutant: the name goes back to _dirty at once. *)
SaveMissingAgain(b) ==
  /\ pc[b] = "save" /\ copy[b][Top(b).name] = None
  /\ dirty' = [dirty EXCEPT ![b] = @ \cup {Top(b).name}]
  /\ Goes(b, "pop")
  /\ UNCHANGED <<rows, nextId, tx, notices, notice, lock, now,
                 why, frames, copy, seen, setup, fired>>

(* KeyError: the task is no longer in the schedule. *)
SaveMissing(b) ==
  /\ pc[b] = "save" /\ copy[b][Top(b).name] = None
  /\ frames' = [frames EXCEPT ![b][Len(frames[b])].failed = @ \cup {Top(b).name}]
  /\ Goes(b, "pop")
  /\ UNCHANGED <<rows, nextId, tx, notices, notice, lock, now,
                 why, copy, dirty, seen, setup, fired>>

(* DatabaseError: the loop ends; the name that was popped is not put back. *)
SaveFails(b) ==
  /\ Faults /\ pc[b] = "save" /\ copy[b][Top(b).name] # None
  /\ Returns(b, frames[b])
  /\ UNCHANGED <<rows, nextId, tx, notices, notice, lock, now, fired>>

(* schedule goes on after sync: _schedule is read anew and the caller goes *)
(* on, an outer sync with the save of its name.  tick then asks once more, *)
(* to rebuild its heap.                                                    *)
Reload(b) ==
  /\ pc[b] = "reload"
  /\ copy' = [copy EXCEPT ![b] = EnabledEntries]
  /\ frames' = [frames EXCEPT ![b] = Outer(b)]
  /\ Goes(b, IF Outer(b) # <<>> THEN "save" ELSE IF why[b] = "tick" THEN "look" ELSE "merge")
  /\ UNCHANGED <<rows, nextId, tx, notices, notice, lock, now, why, dirty, seen, setup, fired>>

(* The query fails: an outer sync catches it and returns, tick passes it   *)
(* to Celery's loop, which closes, and setup_schedule ends the beat.       *)
ReloadFails(b) ==
  /\ Faults /\ pc[b] = "reload"
  /\ IF Outer(b) # <<>> THEN Returns(b, Outer(b))
     ELSE IF why[b] = "tick"
     THEN /\ Goes(b, "close")
          /\ frames' = [frames EXCEPT ![b] = <<>>]
          /\ UNCHANGED <<why, copy, dirty, seen, setup>>
     ELSE Gone(b)
  /\ UNCHANGED <<rows, nextId, tx, notices, notice, lock, now, fired>>

----------------------------------------------------------------------------
(* Celery's loop: tick, sleep, and now and then sync.                      *)

(* lock.extend raises if the lock is not this beat's any more; Celery then *)
(* closes the scheduler.                                                   *)
Extend(b) ==
  /\ pc[b] = "tick"
  /\ Goes(b, IF lock = b THEN "look" ELSE "close")
  /\ UNCHANGED <<rows, nextId, tx, notices, notice, lock, now,
                 why, frames, copy, dirty, seen, setup, fired>>

(* Scheduler.tick asks for schedule. *)
TickLook(b) ==
  /\ pc[b] = "look"
  /\ Look(b)
  /\ IF Changed(b) THEN Syncs(b, "tick") ELSE Goes(b, "work") /\ UNCHANGED <<why, frames>>
  /\ UNCHANGED <<rows, nextId, tx, notices, lock, now, copy, dirty, setup, fired>>

(* The end of a tick: the next one, or first Celery's periodic sync. *)
Rests(b) ==
  \/ Goes(b, "tick") /\ UNCHANGED <<why, frames>>
  \/ Syncs(b, "plain")

(* is_due says yes; reserve counts the run in the copy and sends the task. *)
Counted(entry) == [entry EXCEPT !.count = @ + 1, !.quiet = TRUE]

Due(b, t) == pc[b] = "work" /\ copy[b][t] # None /\ copy[b][t].enabled

Run(b, t) ==
  /\ Due(b, t) /\ copy[b][t].count < MaxRuns
  /\ t \in OneOff => copy[b][t].count = 0
  /\ copy' = [copy EXCEPT ![b][t] = Counted(@)]
  /\ dirty' = [dirty EXCEPT ![b] = @ \cup {t}]
  /\ fired' = IF t \in OneOff THEN [fired EXCEPT ![t] = IF @ < 2 THEN @ + 1 ELSE 2] ELSE fired
  /\ Rests(b)
  /\ UNCHANGED <<rows, nextId, tx, notices, notice, lock, now, seen, setup>>

(* is_due of a one-off task that has run: disabled, in the copy and in the *)
(* row.                                                                    *)
Disabled(entry) == [entry EXCEPT !.enabled = FALSE, !.count = 0]

OneOffReset(b, t) ==
  LET entry == copy[b][t] IN
  /\ Due(b, t) /\ t \in OneOff /\ entry.count > 0 /\ ~RowLocked(t)
  /\ copy' = [copy EXCEPT ![b][t] = [Disabled(entry) EXCEPT !.quiet = FALSE]]
  /\ IF Same(t, entry)
     THEN /\ rows' = [rows EXCEPT ![t] = Disabled(@)]
          /\ notices' = IF rows' = rows THEN notices ELSE notices \cup {ToStr(now)}
     ELSE UNCHANGED <<rows, notices>>
  /\ Rests(b)
  /\ UNCHANGED <<nextId, tx, notice, lock, now, dirty, seen, setup, fired>>

(* Its save fails: the copy is disabled, the row is not, and the loop ends. *)
ResetFails(b, t) ==
  /\ Faults /\ Due(b, t) /\ t \in OneOff /\ copy[b][t].count > 0
  /\ copy' = [copy EXCEPT ![b][t] = [Disabled(@) EXCEPT !.quiet = FALSE]]
  /\ Goes(b, "close")
  /\ UNCHANGED <<rows, nextId, tx, notices, notice, lock, now,
                 why, frames, dirty, seen, setup, fired>>

(* Nothing is due. *)
Idle(b) ==
  /\ pc[b] = "work"
  /\ Rests(b)
  /\ UNCHANGED <<rows, nextId, tx, notices, notice, lock, now, copy, dirty, seen, setup, fired>>

(* The beat is interrupted in its sleep. *)
Stop(b) ==
  /\ pc[b] = "tick"
  /\ Goes(b, "close")
  /\ UNCHANGED <<rows, nextId, tx, notices, notice, lock, now,
                 why, frames, copy, dirty, seen, setup, fired>>

(* close gives its lock back, if it is still its own, and syncs. *)
Close(b) ==
  /\ pc[b] = "close"
  /\ lock' = IF lock = b THEN None ELSE lock
  /\ Syncs(b, "final")
  /\ UNCHANGED <<rows, nextId, tx, notices, notice, now, copy, dirty, seen, setup, fired>>

(* The lock runs out between owned and release: release raises, and only   *)
(* the finalizer syncs.                                                    *)
CloseFails(b) ==
  /\ Late /\ pc[b] = "close" /\ lock = b
  /\ lock' = None
  /\ Syncs(b, "exit")
  /\ UNCHANGED <<rows, nextId, tx, notices, notice, now, copy, dirty, seen, setup, fired>>

Crash(b) ==
  /\ Crashes /\ pc[b] # "off"
  /\ Gone(b)
  /\ lock' = IF lock = b THEN Orphan ELSE lock
  /\ UNCHANGED <<rows, nextId, tx, notices, notice, now, fired>>

(* Mutant: the lock has no time limit; only the stall of its owner ends it. *)
ExpireOwned ==
  /\ Late /\ lock \in Beats
  /\ lock' = None
  /\ UNCHANGED <<rows, nextId, tx, notices, notice, now, beatVars, fired>>

(* The 25 seconds of the lock are over. *)
Expire ==
  /\ lock = Orphan \/ (Late /\ lock \in Beats)
  /\ lock' = None
  /\ UNCHANGED <<rows, nextId, tx, notices, notice, now, beatVars, fired>>

AdminStep(a) ==
  \/ \E op \in Ops, t \in Tasks, edit \in Edits : Read(a, op, t, edit)
  \/ Flush(a) \/ Commit(a) \/ Abort(a)

SetupStep(b) ==
  \/ \E t \in Tasks : SetupRead(b, t)
  \/ SetupWrite(b) \/ SetupFails(b) \/ SetupLook(b) \/ Merge(b)

SyncStep(b) == Pop(b) \/ SyncEnds(b) \/ Save(b) \/ SaveMissing(b) \/ Reload(b)

LoopStep(b) ==
  \/ Acquire(b) \/ Extend(b) \/ TickLook(b) \/ Idle(b) \/ Close(b)
  \/ \E t \in Tasks : Run(b, t) \/ OneOffReset(b, t)

FaultStep(b) ==
  \/ SaveFails(b) \/ ReloadFails(b) \/ CloseFails(b) \/ Crash(b)
  \/ \E t \in Tasks : ResetFails(b, t)

BeatStep(b) == SetupStep(b) \/ SyncStep(b) \/ LoopStep(b)

Next ==
  \/ \E a \in Admins : AdminStep(a)
  \/ \E s \in notices : Publish(s)
  \/ \E b \in Beats : BeatStep(b) \/ Start(b) \/ Stop(b) \/ FaultStep(b)
  \/ Expire \/ Tick

Spec == Init /\ [][Next]_vars

(* A process that runs goes on to its next step; a flushed transaction     *)
(* ends, and the database grants a row lock to who waits for it; a lock    *)
(* nobody extends runs out; the clock runs.  Nothing makes an              *)
(* administrator, a start or a crash happen.                               *)
FairSpec ==
  /\ Spec
  /\ \A a \in Admins : WF_vars(Commit(a))
  /\ \A s \in Stamps : WF_vars(Publish(s))
  /\ \A b \in Beats : WF_vars(BeatStep(b)) /\ SF_vars(Save(b))
  /\ WF_vars(lock = Orphan /\ Expire)
  /\ WF_vars(Tick)

----------------------------------------------------------------------------
(* Properties. *)

(* A beat that believes it may run tasks. *)
Running(b) ==
  \/ pc[b] \in {"tick", "look", "work"}
  \/ pc[b] \in {"pop", "save", "reload"} /\ why[b] \in {"tick", "plain"}

(* Unless a beat outstays its lock, at most one of the beats that were      *)
(* started runs tasks (schedulers.py:439-460 and 349-365).                 *)
SoleBeat == \A b, c \in Beats : Running(b) /\ Running(c) => b = c

(* The invariant that proves it: who runs, or is about to release, owns    *)
(* the lock.                                                               *)
LockInv == \A b \in Beats : Running(b) \/ pc[b] = "close" => lock = b

(* Every run the copy of a running beat counts and the row does not is still to  *)
(* be saved: sync, which forgets a name before it saves it and may reload  *)
(* in between, drops none (schedulers.py:326-347).                         *)
UnsavedIsDirty ==
  \A b \in Beats, t \in Tasks :
    /\ Running(b) /\ copy[b][t] # None /\ Same(t, copy[b][t])
    /\ copy[b][t].count > rows[t].count
    => t \in dirty[b] \/ \E i \in DOMAIN frames[b] : frames[b][i].name = t

(* A one-off task runs once each time it is enabled (is_due,               *)
(* schedulers.py:126-132).                                                 *)
OneOffOnce == \A t \in OneOff : fired[t] <= 1

SetupWrites == \E b \in Beats : pc[b] = "setup" /\ setup'[b].made # setup[b].made
AdminWrites == \E a \in Admins : tx[a].pc = "flushed" /\ tx'[a].pc = "idle"

(* Once it is set up, a beat changes of a row only what it counts, and     *)
(* disables a one-off task: an edit, a status or a deletion an             *)
(* administrator committed meanwhile is never undone by a stale copy       *)
(* (ModelEntry.save, schedulers.py:144-161).                               *)
AdminChangesKept ==
  [][\A t \in Tasks : rows'[t] # rows[t] =>
       \/ SetupWrites \/ AdminWrites
       \/ rows[t] # None /\ rows'[t] = [rows[t] EXCEPT !.count = rows'[t].count]
       \/ rows[t] # None /\ t \in OneOff /\ rows'[t] = Disabled(rows[t])]_vars

(* The count of a recurring task never falls, short of a new schedule from *)
(* LOCAL_BEAT_SCHEDULE (__next__ and save, schedulers.py:136-161).         *)
RunCountKept ==
  [][\A t \in Tasks \ OneOff :
       (/\ rows[t] # None /\ rows'[t] # None /\ rows'[t].id = rows[t].id
        /\ rows'[t].count < rows[t].count) => SetupWrites]_vars

(* The mutual recursion of sync and schedule ends, and the beat goes on to *)
(* its work (schedulers.py:326-347 and 410-436).                           *)
SyncTerminates ==
  \A b \in Beats : pc[b] \in {"pop", "save", "reload"}
                   ~> pc[b] \notin {"pop", "save", "reload", "look"}

(* A waiting beat gets the lock of one that died, unless another does      *)
(* (lock with a timeout, schedulers.py:452-460).                           *)
TakenOver == \A b \in Beats : pc[b] = "wait" ~> pc[b] = "off" \/ \E c \in Beats : Running(c)

(* A schedule an administrator changed reaches the copy of the beat that   *)
(* runs (schedule_changed, schedulers.py:383-396).                         *)
Outdated(b, t) ==
  /\ Running(b) /\ copy[b][t] # None /\ Same(t, copy[b][t])
  /\ rows[t].edit # copy[b][t].edit
ChangesNoticed == \A b \in Beats, t \in Tasks : Outdated(b, t) ~> ~Outdated(b, t)

----------------------------------------------------------------------------
(* The inductive invariant behind TypeOK and AdminChangesKept.             *)

Syncing == {"pop", "save", "reload"}

(* Who flushed has the row to itself, and finds it as it was read.         *)
RequestsInv ==
  /\ \A a \in Admins : tx[a].pc # "idle" => tx[a].op \in Ops /\ tx[a].task \in Tasks
  /\ \A a \in Admins : tx[a].pc # "idle" /\ tx[a].op # "create" => tx[a].row \in Rows
  /\ \A a \in Admins : tx[a].pc = "flushed" =>
       /\ tx[a].row \in Rows
       /\ IF tx[a].op = "create" THEN rows[tx[a].task] = None
                                 ELSE Same(tx[a].task, tx[a].row)
  /\ \A a, c \in Admins :
       /\ tx[a].pc = "flushed" /\ tx[c].pc = "flushed" /\ tx[a].task = tx[c].task
       => a = c

(* Every call of sync but the innermost has a name it is about to save.    *)
StackInv(b) ==
  /\ pc[b] \in Syncing => frames[b] # <<>>
  /\ pc[b] = "save" => Top(b).name \in Tasks
  /\ pc[b] = "reload" /\ Len(frames[b]) = 1 => why[b] \in {"setup", "tick"}
  /\ \A i \in 1 .. Len(frames[b]) - 1 : frames[b][i].name \in Tasks

(* What is still to be set up has not been made.                           *)
SetupInv(b) ==
  /\ pc[b] \in {"setup", "merge"} \/ (pc[b] \in Syncing /\ why[b] = "setup") =>
       setup[b].groups # <<>>
  /\ setup[b].name # None => setup[b].groups # <<>> /\ setup[b].name \in Head(setup[b].groups)
  /\ setup[b].groups # <<>> => \A t \in Head(setup[b].groups) : setup[b].made[t] = None

BeatInv == RequestsInv /\ \A b \in Beats : StackInv(b) /\ SetupInv(b)

----------------------------------------------------------------------------
(* The inductive invariant behind UnsavedIsDirty and RunCountKept.         *)

(* The entry of t once what is being set up is merged.                     *)
Merging(b, t) == IF setup[b].made[t] # None THEN setup[b].made[t] ELSE copy[b][t]

(* An id that row t, or a copy of it, may have: it was given out, and not  *)
(* to a row of that name that a request is about to create.                *)
Old(id, t) ==
  /\ id < nextId
  /\ \A a \in Admins :
       tx[a].pc = "flushed" /\ tx[a].op = "create" /\ tx[a].task = t => id # tx[a].row.id

(* An id that beats or the table know row t by.                            *)
Known(id, t) ==
  \/ rows[t] # None /\ rows[t].id = id
  \/ \E b \in Beats :
       \/ copy[b][t] # None /\ copy[b][t].id = id
       \/ setup[b].made[t] # None /\ setup[b].made[t].id = id
       \/ setup[b].name = t /\ setup[b].read # None /\ setup[b].read.id = id

IdsInv ==
  /\ \A t \in Tasks, id \in 1 .. MaxId : Known(id, t) => Old(id, t)
  /\ \A a \in Admins : tx[a].pc = "flushed" /\ tx[a].op = "create" => tx[a].row.id < nextId

SettingUp(b) == pc[b] \in {"setup", "merge"} \/ (pc[b] \in Syncing /\ why[b] = "setup")

(* A sync in progress is still to save t.                                  *)
Named(b, t) ==
  \E i \in 1 .. Len(frames[b]) :
    frames[b][i].name = t /\ (i < Len(frames[b]) \/ pc[b] = "save")

(* Nothing is to be saved while a beat sets up, and nothing is set up later. *)
PhaseInv(b) ==
  /\ SettingUp(b) \/ pc[b] = "off" => dirty[b] = {}
  /\ SettingUp(b) /\ pc[b] \in Syncing => pc[b] # "save" /\ frames[b] = <<Frame>>
  /\ pc[b] \notin Syncing => frames[b] = <<>>
  /\ ~SettingUp(b) => setup[b] = NoSetup

(* Only this beat counts runs: a row it read has the count it had.         *)
ReadInv(b) ==
  setup[b].read # None =>
    /\ setup[b].name # None
    /\ Same(setup[b].name, setup[b].read) => setup[b].read.count = rows[setup[b].name].count

(* The copy is never behind the row, and ahead of it only where a run is   *)
(* still to be saved.                                                      *)
Counts(b, t) ==
  Merging(b, t) # None /\ Same(t, Merging(b, t)) =>
    /\ Merging(b, t).count >= rows[t].count
    /\ Merging(b, t).count > rows[t].count => t \in dirty[b] \/ Named(b, t)

CountsInv(b) == PhaseInv(b) /\ ReadInv(b) /\ \A t \in Tasks : Counts(b, t)

=============================================================================
