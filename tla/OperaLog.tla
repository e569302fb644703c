------------------------------- MODULE OperaLog -------------------------------
(***************************************************************************)
(* The operation log of one API process                                    *)
(* (middleware/opera_log_middleware.py, common/queue.py): after its        *)
(* handler a request puts an entry into a bounded queue, waiting for room, *)
(* and only then is its response sent and its transaction committed.  One  *)
(* consumer takes entries in batches and inserts each batch in a           *)
(* transaction of its own, over the same pool of database connections.     *)
(*                                                                         *)
(* An entry is named by the request it records.  Time is not counted: the  *)
(* wait for a batch and the wait for a connection may end at any point at  *)
(* which the code can time out.                                            *)
(***************************************************************************)
EXTENDS Integers, Sequences, FiniteSets

CONSTANTS
  Callers,    \* requests
  Consumer,   \* the consumer task
  Capacity,   \* maxsize of opera_log_queue
  BatchSize,  \* OPERA_LOG_QUEUE_BATCH_CONSUME_SIZE
  PoolSize,   \* pool_size + max_overflow
  MaxStops    \* bound: shutdowns and crashes of the process

ASSUME OperaLogAssumption ==
  /\ Consumer \notin Callers
  /\ Capacity \in Nat \ {0} /\ BatchSize \in Nat \ {0} /\ PoolSize \in Nat \ {0}
  /\ MaxStops \in Nat

Kinds == {"api", "clear", "plain", "skip"}
Stages == {"new", "connect", "work", "put", "reply", "done", "dead"}

VARIABLES
  kind,     \* kind[r]: a transaction, delete or delete_all, no database, an excluded path
  stage,    \* stage[r]: where request r is
  seen,     \* seen[r]: rows the open delete_all of r has deleted
  conns,    \* who holds a connection of the pool
  queue,    \* opera_log_queue
  batch,    \* items of batch_dequeue, then the logs of consumer
  consumer, \* what the consumer waits for
  table,    \* entries in sys_opera_log
  removed,  \* entries an administrator removed from it
  lost,     \* history: entries dropped with a batch or with the process
  entered,  \* history: entries put so far
  stops     \* shutdowns and crashes so far

logVars == <<kind, stage, seen, conns, queue, batch, consumer, table, removed,
             lost, entered, stops>>

Items(s) == {s[i] : i \in DOMAIN s}
Up == consumer # "off"

LogTypeOK ==
  /\ kind \in [Callers -> Kinds]
  /\ stage \in [Callers -> Stages]
  /\ seen \in [Callers -> SUBSET Callers]
  /\ conns \subseteq Callers \cup {Consumer}
  /\ queue \in Seq(Callers) /\ Len(queue) <= Capacity
  /\ batch \in Seq(Callers) /\ Len(batch) <= BatchSize
  /\ consumer \in {"collect", "connect", "insert", "off"}
  /\ table \subseteq Callers /\ removed \subseteq Callers /\ lost \subseteq Callers
  /\ entered \subseteq Callers
  /\ stops \in Nat

LogInit ==
  /\ kind \in [Callers -> Kinds]
  /\ stage = [r \in Callers |-> "new"]
  /\ seen = [r \in Callers |-> {}]
  /\ conns = {} /\ queue = <<>> /\ batch = <<>> /\ consumer = "collect"
  /\ table = {} /\ removed = {} /\ lost = {}
  /\ entered = {} /\ stops = 0

Goes(r, s) == stage' = [stage EXCEPT ![r] = s]
PoolFree == Cardinality(conns) < PoolSize
PoolFull == Cardinality(conns) = PoolSize

\* dispatch: excluded paths go through unrecorded; a handler that needs no
\* database ends at once; the others ask the pool for a connection.
Arrive(r) ==
  /\ Up /\ stage[r] = "new"
  /\ Goes(r, CASE kind[r] = "skip" -> "done" [] kind[r] = "plain" -> "put"
               [] OTHER -> "connect")
  /\ UNCHANGED <<kind, seen, conns, queue, batch, consumer, table, removed, lost, entered, stops>>

Connect(r) ==
  /\ stage[r] = "connect" /\ PoolFree
  /\ conns' = conns \cup {r} /\ Goes(r, "work")
  /\ UNCHANGED <<kind, seen, queue, batch, consumer, table, removed, lost, entered, stops>>

\* The pool gives up after pool_timeout; the error is caught by dispatch.
ConnectTimeout(r) ==
  /\ stage[r] = "connect" /\ PoolFull /\ Goes(r, "put")
  /\ UNCHANGED <<kind, seen, conns, queue, batch, consumer, table, removed, lost, entered, stops>>

\* The handler; delete deletes the rows it is given and delete_all those that
\* are there, in its transaction.
Handle(r) ==
  /\ stage[r] = "work" /\ Goes(r, "put")
  /\ \E rows \in SUBSET table :
       /\ kind[r] # "clear" => rows = {}
       /\ seen' = [seen EXCEPT ![r] = rows]
  /\ UNCHANGED <<kind, conns, queue, batch, consumer, table, removed, lost, entered, stops>>

\* An exception leaves the handler and rolls its transaction back on the way.
HandleFails(r) ==
  /\ stage[r] = "work" /\ Goes(r, "put") /\ conns' = conns \ {r}
  /\ UNCHANGED <<kind, seen, queue, batch, consumer, table, removed, lost, entered, stops>>

\* await opera_log_queue.put
Put(r) ==
  /\ stage[r] = "put" /\ Len(queue) < Capacity /\ Goes(r, "reply")
  /\ queue' = Append(queue, r)
  /\ entered' = entered \cup {r}
  /\ UNCHANGED <<kind, seen, conns, batch, consumer, table, removed, lost, stops>>

\* Mutant: the commit clears what is in the table by then.
ReplyClearsAll(r) ==
  /\ stage[r] = "reply" /\ Goes(r, "done") /\ conns' = conns \ {r}
  /\ table' = IF kind[r] = "clear" THEN {} ELSE table
  /\ removed' = IF kind[r] = "clear" THEN removed \cup table ELSE removed
  /\ seen' = [seen EXCEPT ![r] = {}]
  /\ UNCHANGED <<kind, queue, batch, consumer, lost, entered, stops>>

\* The response is sent and get_db_transaction commits.
Reply(r) ==
  /\ stage[r] = "reply" /\ Goes(r, "done") /\ conns' = conns \ {r}
  /\ table' = table \ seen[r]
  /\ removed' = removed \cup (seen[r] \cap table)
  /\ seen' = [seen EXCEPT ![r] = {}]
  /\ UNCHANGED <<kind, queue, batch, consumer, lost, entered, stops>>

\* The commit fails, or there is nothing to commit.
ReplyFails(r) ==
  /\ stage[r] = "reply" /\ Goes(r, "done") /\ conns' = conns \ {r}
  /\ seen' = [seen EXCEPT ![r] = {}]
  /\ UNCHANGED <<kind, queue, batch, consumer, table, removed, lost, entered, stops>>

-----------------------------------------------------------------------------
(* The consumer.                                                            *)

Take ==
  /\ consumer = "collect" /\ queue # <<>>
  /\ batch' = Append(batch, Head(queue)) /\ queue' = Tail(queue)
  /\ consumer' = IF Len(batch') = BatchSize THEN "connect" ELSE "collect"
  /\ UNCHANGED <<kind, stage, seen, conns, table, removed, lost, entered, stops>>

\* Mutants: the timeout cancels what has been collected; it only counts when
\* the batch is full.
BatchTimeoutDrops ==
  /\ consumer = "collect" /\ batch # <<>> /\ batch' = <<>>
  /\ UNCHANGED <<kind, stage, seen, conns, queue, consumer, table, removed, lost, entered, stops>>
BatchTimeoutFull ==
  /\ consumer = "collect" /\ Len(batch) = BatchSize /\ consumer' = "connect"
  /\ UNCHANGED <<kind, stage, seen, conns, queue, batch, table, removed, lost, entered, stops>>

\* wait_for times out: what has been collected is the batch.
BatchTimeout ==
  /\ consumer = "collect" /\ batch # <<>> /\ consumer' = "connect"
  /\ UNCHANGED <<kind, stage, seen, conns, queue, batch, table, removed, lost, entered, stops>>

BatchConnect ==
  /\ consumer = "connect" /\ PoolFree
  /\ conns' = conns \cup {Consumer} /\ consumer' = "insert"
  /\ UNCHANGED <<kind, stage, seen, queue, batch, table, removed, lost, entered, stops>>

Insert ==
  /\ consumer = "insert" /\ consumer' = "collect"
  /\ table' = table \cup Items(batch) /\ batch' = <<>> /\ conns' = conns \ {Consumer}
  /\ UNCHANGED <<kind, stage, seen, queue, removed, lost, entered, stops>>

\* Mutant: the consumer waits for a connection without a limit.
BatchLostInserting ==
  /\ consumer = "insert" /\ consumer' = "collect"
  /\ lost' = lost \cup Items(batch) /\ batch' = <<>> /\ conns' = conns \ {Consumer}
  /\ UNCHANGED <<kind, stage, seen, queue, table, removed, entered, stops>>

\* The pool gives up, or the transaction fails (one entry too long for its
\* column is enough): consumer logs how many entries are lost and goes on.
BatchLost ==
  /\ \/ consumer = "insert"
     \/ consumer = "connect" /\ PoolFull
  /\ consumer' = "collect"
  /\ lost' = lost \cup Items(batch) /\ batch' = <<>> /\ conns' = conns \ {Consumer}
  /\ UNCHANGED <<kind, stage, seen, queue, table, removed, entered, stops>>

-----------------------------------------------------------------------------
(* The process.                                                             *)

\* What the process has in memory is gone, and with it what is not committed.
Ends(Cut) ==
  /\ Up /\ stops < MaxStops /\ stops' = stops + 1
  /\ stage' = [r \in Callers |-> IF r \in Cut THEN "dead" ELSE stage[r]]
  /\ seen' = [r \in Callers |-> {}] /\ conns' = {}
  /\ lost' = lost \cup Items(batch) \cup Items(queue)
  /\ queue' = <<>> /\ batch' = <<>> /\ consumer' = "off"
  /\ UNCHANGED <<kind, table, removed, entered>>

Running == {r \in Callers : stage[r] \notin {"new", "done", "dead"}}

\* register_init after the yield: the server waits for its requests, but
\* nobody waits for the consumer.
Shutdown == Running = {} /\ Ends({})
Killed == Running # {} /\ Ends(Running)

Startup ==
  /\ ~Up /\ consumer' = "collect"
  /\ UNCHANGED <<kind, stage, seen, conns, queue, batch, table, removed, lost, entered, stops>>

Calls(r) == Connect(r) \/ ConnectTimeout(r) \/ Handle(r) \/ HandleFails(r)
              \/ Put(r) \/ Reply(r) \/ ReplyFails(r)
Consumes == Take \/ BatchTimeout \/ BatchConnect \/ Insert \/ BatchLost

LogNext ==
  \/ \E r \in Callers : Arrive(r) \/ Calls(r)
  \/ Consumes
  \/ Shutdown \/ Killed \/ Startup

\* The event loop runs every task that can go on, and every wait of these has
\* a time limit; the process is restarted by its supervisor.
LogFairness ==
  /\ \A r \in Callers : WF_logVars(Calls(r))
  /\ WF_logVars(Consumes) /\ WF_logVars(Startup)

LogSpec == LogInit /\ [][LogNext]_logVars
LogFairSpec == LogSpec /\ LogFairness

-----------------------------------------------------------------------------
(* Properties.                                                              *)

Waiting == Items(batch \o queue)

\* Every entry that was put is in exactly one place: waiting (once), in the
\* table, removed from it, or lost; and no request is answered before its
\* entry was put.  batch_dequeue is cut off by a timeout and by cancellation,
\* a failed insert drops a batch, and none of them may drop or double an entry
\* without a trace.
EntriesAccounted ==
  /\ entered = Waiting \cup table \cup removed \cup lost
  /\ Cardinality(Waiting) = Len(batch) + Len(queue)
  /\ Waiting \cap (table \cup removed \cup lost) = {}
  /\ table \cap (removed \cup lost) = {} /\ removed \cap lost = {}
  /\ \A r \in Callers : stage[r] \in {"reply", "done"} /\ kind[r] # "skip" => r \in entered

\* Clearing the log leaves the record of the clearing: the rows deleted are
\* those of the statement, although the commit comes after the entry was put.
ClearingIsOnRecord ==
  [][\A r \in Callers : r \in table /\ stage[r] # stage'[r] => r \in table']_logVars

\* Every request ends, although it may hold a connection while it waits for
\* room in the queue and the consumer that makes the room needs one.
CallersEnd ==
  \A r \in Callers : stage[r] \in {"connect", "put"} ~> stage[r] \in {"done", "dead"}

\* No entry waits for ever, not even the last one of a batch that never fills.
EntriesSettle == \A r \in Callers : r \in Waiting ~> r \notin Waiting

=============================================================================
