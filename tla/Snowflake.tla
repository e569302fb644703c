------------------------------ MODULE Snowflake ------------------------------
(***************************************************************************)
(* Snowflake ids (utils/snowflake.py): every API process leases a node,    *)
(* a pair of a datacenter and a worker number, from Redis with SET NX EX,  *)
(* renews the lease with a heartbeat and puts the node, its clock and a    *)
(* sequence number into each id.                                           *)
(*                                                                         *)
(* A lease's time to live is not counted: any key may run out at any time. *)
(* The clock is one for all processes; a host whose clock is behind shows  *)
(* as a step back of the clock between two owners of a node.  From the     *)
(* first step on that the code has no defence against (a lease that lapses *)
(* under its owner, a clock set back, a node fixed by the environment) the *)
(* run is disturbed, and no longer promises that ids differ.               *)
(***************************************************************************)
EXTENDS Integers

CONSTANTS
  Procs,        \* API processes
  Datacenters,  \* MAX_DATACENTER_ID + 1
  Workers,      \* MAX_WORKER_ID + 1
  SeqSize,      \* SEQUENCE_MASK + 1
  Tolerance,    \* CLOCK_BACKWARD_TOLERANCE_MS
  MaxTime,      \* bound: milliseconds the clock runs from the epoch
  None          \* no process

ASSUME SnowflakeAssumption ==
  /\ Datacenters \in Nat \ {0} /\ Workers \in Nat \ {0} /\ SeqSize \in Nat \ {0}
  /\ Tolerance \in Nat /\ MaxTime \in Nat
  /\ None \notin Procs

Nodes == (0 .. Datacenters - 1) \X (0 .. Workers - 1)
Seqs == 0 .. SeqSize - 1
Ids == [ts : Nat, node : Nodes, seq : Seqs]

VARIABLES
  key,     \* key[n]: the process whose SET NX created the key of node n
  pc,      \* pc[p]: what process p is doing
  left,    \* left[p]: nodes acquire_node_id has still to try
  node,    \* node[p]: datacenter_id and worker_id of p
  seq,     \* seq[p]: sequence
  last,    \* last[p]: last_timestamp
  since,   \* since[p]: when p registered its node
  now,     \* the clock, in milliseconds since the epoch
  issued,  \* history: the ids handed out
  clash,   \* history: an id was handed out twice
  auto,    \* auto[p]: _auto_allocated
  disturbed  \* history: a lease lapsed, the clock went back or a node is fixed

vars == <<key, pc, left, node, seq, last, since, now, issued, clash, auto, disturbed>>

TypeOK ==
  /\ key \in [Nodes -> Procs \cup {None}]
  /\ pc \in [Procs -> {"down", "scan", "try", "boot", "up", "spin", "closing"}]
  /\ left \in [Procs -> SUBSET Nodes]
  /\ node \in [Procs -> Nodes]
  /\ seq \in [Procs -> Seqs]
  /\ last \in [Procs -> Nat \cup {-1}]
  /\ since \in [Procs -> Nat]
  /\ now \in Nat
  /\ issued \subseteq Ids
  /\ clash \in BOOLEAN
  /\ auto \in [Procs -> BOOLEAN]
  /\ disturbed \in BOOLEAN

Init ==
  /\ key = [n \in Nodes |-> None]
  /\ pc = [p \in Procs |-> "down"]
  /\ left = [p \in Procs |-> {}]
  /\ node = [p \in Procs |-> <<0, 0>>]
  /\ seq = [p \in Procs |-> 0]
  /\ last = [p \in Procs |-> -1]
  /\ since = [p \in Procs |-> 0]
  /\ now = 0
  /\ issued = {}
  /\ clash = FALSE
  /\ auto = [p \in Procs |-> FALSE]
  /\ disturbed = FALSE

-----------------------------------------------------------------------------
(* The 64-bit layout.  The shifts multiply, and | adds, because no field   *)
(* is wider than its place.                                                *)

Compose(i) ==
  ((i.ts * Datacenters + i.node[1]) * Workers + i.node[2]) * SeqSize + i.seq

\* Mutant: the worker is masked with the width of the sequence.
ParseWrongMask(id) ==
  [ts |-> ((id \div SeqSize) \div Workers) \div Datacenters,
   node |-> <<((id \div SeqSize) \div Workers) % Datacenters, (id \div SeqSize) % SeqSize>>,
   seq |-> id % SeqSize]

Parse(id) ==
  [ts |-> ((id \div SeqSize) \div Workers) \div Datacenters,
   node |-> <<((id \div SeqSize) \div Workers) % Datacenters, (id \div SeqSize) % Workers>>,
   seq |-> id % SeqSize]

-----------------------------------------------------------------------------
(* The lease.                                                              *)

Holding == {"boot", "up", "spin", "closing"}

\* The order in which acquire_node_id tries the nodes.
NodeBefore(m, n) == m[1] < n[1] \/ (m[1] = n[1] /\ m[2] < n[2])

\* The process ends, and with it what it had in memory.
Gone(p) ==
  /\ pc' = [pc EXCEPT ![p] = "down"]
  /\ left' = [left EXCEPT ![p] = {}]
  /\ node' = [node EXCEPT ![p] = <<0, 0>>]
  /\ seq' = [seq EXCEPT ![p] = 0]
  /\ last' = [last EXCEPT ![p] = -1]
  /\ since' = [since EXCEPT ![p] = 0]
  /\ auto' = [auto EXCEPT ![p] = FALSE]

Start(p) ==
  /\ pc[p] = "down"
  /\ pc' = [pc EXCEPT ![p] = "scan"]
  /\ UNCHANGED <<key, left, node, seq, last, since, now, issued, clash, auto, disturbed>>

\* The environment fixes both numbers: no key is set, and none guards the node.
StartFixed(p, n) ==
  /\ pc[p] = "down"
  /\ pc' = [pc EXCEPT ![p] = "boot"]
  /\ node' = [node EXCEPT ![p] = n]
  /\ since' = [since EXCEPT ![p] = now]
  /\ disturbed' = TRUE
  /\ issued' = {}
  /\ UNCHANGED <<key, left, seq, last, now, clash, auto>>

Scan(p) ==
  /\ pc[p] = "scan"
  /\ left' = [left EXCEPT ![p] = {n \in Nodes : key[n] = None}]
  /\ pc' = [pc EXCEPT ![p] = "try"]
  /\ UNCHANGED <<key, node, seq, last, since, now, issued, clash, auto, disturbed>>

\* Mutant: the key is set without NX.
RegisterOver(p, n) ==
  /\ pc[p] = "try"
  /\ n \in left[p] /\ \A m \in left[p] \ {n} : NodeBefore(n, m)
  /\ key' = [key EXCEPT ![n] = p]
  /\ node' = [node EXCEPT ![p] = n]
  /\ since' = [since EXCEPT ![p] = now]
  /\ pc' = [pc EXCEPT ![p] = "boot"]
  /\ left' = [left EXCEPT ![p] = {}]
  /\ auto' = [auto EXCEPT ![p] = TRUE]
  /\ UNCHANGED <<seq, last, now, issued, clash, disturbed>>

\* _register of the first node not tried yet: SET NX, and the next on failure.
Register(p, n) ==
  /\ pc[p] = "try"
  /\ n \in left[p] /\ \A m \in left[p] \ {n} : NodeBefore(n, m)
  /\ IF key[n] = None
     THEN /\ key' = [key EXCEPT ![n] = p]
          /\ node' = [node EXCEPT ![p] = n]
          /\ since' = [since EXCEPT ![p] = now]
          /\ pc' = [pc EXCEPT ![p] = "boot"]
          /\ left' = [left EXCEPT ![p] = {}]
          /\ auto' = [auto EXCEPT ![p] = TRUE]
     ELSE /\ left' = [left EXCEPT ![p] = @ \ {n}]
          /\ UNCHANGED <<key, node, since, pc, auto>>
  /\ UNCHANGED <<seq, last, now, issued, clash, disturbed>>

\* No node is left: the error ends the start-up.
Exhausted(p) ==
  /\ pc[p] = "try" /\ left[p] = {}
  /\ Gone(p)
  /\ UNCHANGED <<key, now, issued, clash, disturbed>>

\* The rest of the start-up takes a millisecond or more, on this clock.
Serve(p) ==
  /\ pc[p] = "boot"
  /\ now > since[p] \/ disturbed
  /\ pc' = [pc EXCEPT ![p] = "up"]
  /\ UNCHANGED <<key, left, node, seq, last, since, now, issued, clash, auto, disturbed>>

\* shutdown: the heartbeat is cancelled, then the key is deleted, whoever's
\* it is by then.
Close(p) ==
  /\ pc[p] = "up"
  /\ pc' = [pc EXCEPT ![p] = "closing"]
  /\ UNCHANGED <<key, left, node, seq, last, since, now, issued, clash, auto, disturbed>>

Release(p) ==
  /\ pc[p] = "closing"
  /\ key' = IF auto[p] THEN [key EXCEPT ![node[p]] = None] ELSE key
  /\ Gone(p)
  /\ UNCHANGED <<now, issued, clash, disturbed>>

Crash(p) ==
  /\ pc[p] # "down"
  /\ Gone(p)
  /\ UNCHANGED <<key, now, issued, clash, disturbed>>

\* The key of n runs out.  A heartbeat prolongs the key it names, its own or
\* not, and never creates it again.
Expire(n) ==
  /\ key[n] # None
  /\ disturbed' = (disturbed \/ \E p \in Procs : pc[p] \in Holding /\ node[p] = n)
  /\ key' = [key EXCEPT ![n] = None]
  /\ issued' = IF disturbed' THEN {} ELSE issued
  /\ UNCHANGED <<pc, left, node, seq, last, since, now, clash, auto>>

-----------------------------------------------------------------------------
(* generate.                                                               *)

Issue(p, ts, s) ==
  LET i == [ts |-> ts, node |-> node[p], seq |-> s] IN
  /\ last' = [last EXCEPT ![p] = ts]
  /\ seq' = [seq EXCEPT ![p] = s]
  /\ issued' = IF disturbed THEN {} ELSE issued \cup {i}
  /\ clash' = (clash \/ \E j \in issued : Compose(j) = Compose(i))
  /\ pc' = [pc EXCEPT ![p] = "up"]
  /\ UNCHANGED <<key, left, node, since, now, auto, disturbed>>

\* Mutant: any other millisecond restarts the sequence, an earlier one too.
GenerateAnyMs(p) ==
  /\ pc[p] = "up"
  /\ \/ now # last[p] /\ Issue(p, now, 0)
     \/ now = last[p] /\ seq[p] + 1 < SeqSize /\ Issue(p, now, seq[p] + 1)

\* Mutant: the sequence is not masked.
GenerateUnmasked(p) ==
  /\ pc[p] = "up"
  /\ Issue(p, now, IF now = last[p] THEN seq[p] + 1 ELSE 0)

\* An id is ready at once: a new millisecond, or room in this one.
Generate(p) ==
  /\ pc[p] = "up"
  /\ \/ now > last[p] /\ Issue(p, now, 0)
     \/ now = last[p] /\ seq[p] + 1 < SeqSize /\ Issue(p, now, seq[p] + 1)

\* It is not: the sequence wraps, or the clock is a little behind.  Farther
\* behind, generate raises and leaves everything as it was.
Wait(p) ==
  /\ pc[p] = "up"
  /\ \/ /\ now = last[p] /\ seq[p] + 1 = SeqSize
        /\ seq' = [seq EXCEPT ![p] = 0]
     \/ /\ now < last[p] /\ last[p] - now <= Tolerance
        /\ UNCHANGED seq
  /\ pc' = [pc EXCEPT ![p] = "spin"]
  /\ UNCHANGED <<key, left, node, last, since, now, issued, clash, auto, disturbed>>

\* _till_next_ms returns.
Resume(p) ==
  /\ pc[p] = "spin"
  /\ now > last[p]
  /\ Issue(p, now, 0)

Tick ==
  /\ now < MaxTime
  /\ now' = now + 1
  /\ UNCHANGED <<key, pc, left, node, seq, last, since, issued, clash, auto, disturbed>>

StepBack ==
  /\ now' \in 0 .. now - 1
  /\ disturbed' = TRUE
  /\ issued' = {}
  /\ UNCHANGED <<key, pc, left, node, seq, last, since, clash, auto>>

-----------------------------------------------------------------------------

Next ==
  \/ \E p \in Procs :
       \/ Start(p) \/ Scan(p) \/ Exhausted(p) \/ Serve(p)
       \/ Close(p) \/ Release(p) \/ Crash(p)
       \/ Generate(p) \/ Wait(p) \/ Resume(p)
       \/ \E n \in Nodes : Register(p, n) \/ StartFixed(p, n)
  \/ \E n \in Nodes : Expire(n)
  \/ Tick \/ StepBack

Spec == Init /\ [][Next]_vars

-----------------------------------------------------------------------------
(* Properties.                                                             *)

\* No id is handed out twice, by one process or by two, across crashes,
\* shutdowns and nodes that change hands, although a restarted process has
\* forgotten its last timestamp; unless a lease lapsed under its owner, the
\* clock went back or nodes are fixed by hand.
UniqueIds == ~disturbed => ~clash

\* The ids of one process only grow, whatever its clock does: generate waits
\* or refuses when the clock is behind, and waits when the sequence wraps.
IdsIncrease ==
  [][\A p \in Procs : last'[p] # last[p] \/ seq'[p] # seq[p] =>
       \/ pc'[p] = "down"
       \/ pc[p] = "up" /\ pc'[p] = "spin" /\ last'[p] = last[p]
       \/ last'[p] > last[p]
       \/ last'[p] = last[p] /\ seq'[p] > seq[p]]_vars

\* parse gives back what generate put in.
ParseInvertsCompose == \A i \in issued : Parse(Compose(i)) = i

-----------------------------------------------------------------------------
(* The inductive invariant behind UniqueIds.                               *)

OwnsNode == \A p \in Procs : pc[p] \in Holding => key[node[p]] = p

\* What was issued on the node of p before p, and by p.
Older(i, p) == i.ts <= since[p]
Mine(i, p) ==
  i.ts < last[p] \/ (i.ts = last[p] /\ (i.seq <= seq[p] \/ pc[p] = "spin"))

IssuedBefore ==
  \A p \in Procs : \A i \in issued :
    pc[p] \in Holding /\ i.node = node[p] => Older(i, p) \/ Mine(i, p)

ClockAhead ==
  /\ \A i \in issued : i.ts <= now
  /\ \A p \in Procs : pc[p] \in Holding => since[p] <= now /\ last[p] <= now
  /\ \A p \in Procs : pc[p] \in {"up", "spin", "closing"} => since[p] < now
  /\ \A p \in Procs : pc[p] \in {"down", "scan", "try", "boot"} => last[p] = -1

\* While nothing disturbs the run: a process that holds a node owns its key,
\* whatever was issued on that node is older than its lease or its own, and
\* the clock is ahead of all of it.
Undisturbed == OwnsNode /\ IssuedBefore /\ ClockAhead /\ ~clash
IdsInv == ~disturbed => Undisturbed

=============================================================================
