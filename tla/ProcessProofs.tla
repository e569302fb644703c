--------------------------- MODULE ProcessProofs ----------------------------
(***************************************************************************)
(* Theorems about what each API process runs by itself: the ids that it    *)
(* gives out (Snowflake), for every number of processes, nodes and         *)
(* sequence values and for every run of the clock, and its operation log   *)
(* (OperaLog), for every number of requests, every size of the queue, the  *)
(* batch and the pool, and any number of crashes.                          *)
(***************************************************************************)
EXTENDS Snowflake, OperaLog, FiniteSetTheorems, SequenceTheorems, TLAPS

-----------------------------------------------------------------------------
(* Snowflake: the layout: a number is its digits.                          *)

LEMMA ProductMonotone ==
  ASSUME NEW n \in Nat, NEW a \in Int, NEW c \in Int, a < c
  PROVE  a * n + n <= c * n
<1>1. (c - a - 1) * n >= 0 OBVIOUS
<1> QED BY <1>1

LEMMA DigitsUnique ==
  ASSUME NEW n \in Nat \ {0}, NEW a \in Int, NEW c \in Int,
         NEW b \in 0 .. n - 1, NEW d \in 0 .. n - 1,
         a * n + b = c * n + d
  PROVE  a = c /\ b = d
<1>1. /\ a * n \in Int /\ c * n \in Int
      /\ b \in Int /\ d \in Int /\ 0 <= b /\ b < n /\ 0 <= d /\ d < n
  OBVIOUS
<1>2. ~(a < c)
  <2> SUFFICES ASSUME a < c PROVE FALSE OBVIOUS
  <2>1. a * n + n <= c * n BY ProductMonotone
  <2> QED BY <1>1, <2>1
<1>3. ~(c < a)
  <2> SUFFICES ASSUME c < a PROVE FALSE OBVIOUS
  <2>1. c * n + n <= a * n BY ProductMonotone
  <2> QED BY <1>1, <2>1
<1>4. a = c BY <1>2, <1>3
<1> QED BY <1>1, <1>4

LEMMA DigitsRecovered ==
  ASSUME NEW n \in Nat \ {0}, NEW a \in Int, NEW b \in 0 .. n - 1
  PROVE  (a * n + b) \div n = a /\ (a * n + b) % n = b
<1> DEFINE x == a * n + b
<1>1. x \in Int OBVIOUS
<1>2. x \div n \in Int /\ x % n \in 0 .. n - 1 /\ x = n * (x \div n) + (x % n)
  <2> HIDE DEF x
  <2>1. x \div n \in Int BY <1>1
  <2>2. x % n \in 0 .. n - 1 BY <1>1
  <2>3. x = n * (x \div n) + (x % n) BY <1>1
  <2> QED BY <2>1, <2>2, <2>3
<1>3. n * (x \div n) = (x \div n) * n BY <1>2
<1>4. (x \div n) * n + (x % n) = a * n + b BY <1>2, <1>3
<1> HIDE DEF x
<1>5. x \div n = a /\ x % n = b BY <1>2, <1>4, DigitsUnique
<1> QED BY <1>5 DEF x

LEMMA IdFields ==
  ASSUME NEW i \in Ids
  PROVE  /\ i.ts \in Int /\ i.node[1] \in 0 .. Datacenters - 1
         /\ i.node[2] \in 0 .. Workers - 1 /\ i.seq \in 0 .. SeqSize - 1
         /\ i.ts * Datacenters + i.node[1] \in Int
         /\ (i.ts * Datacenters + i.node[1]) * Workers + i.node[2] \in Int
         /\ i = [ts |-> i.ts, node |-> <<i.node[1], i.node[2]>>, seq |-> i.seq]
<1>1. /\ i.ts \in Int /\ i.node[1] \in 0 .. Datacenters - 1
      /\ i.node[2] \in 0 .. Workers - 1 /\ i.seq \in 0 .. SeqSize - 1
      /\ i = [ts |-> i.ts, node |-> <<i.node[1], i.node[2]>>, seq |-> i.seq]
  BY DEF Ids, Nodes, Seqs
<1>2. Datacenters \in Int /\ Workers \in Int BY SnowflakeAssumption
<1>3. i.ts * Datacenters + i.node[1] \in Int BY <1>1, <1>2
<1> QED BY <1>1, <1>2, <1>3

\* parse (utils/snowflake.py) recovers the four fields that generate composed,
\* whatever the widths of the fields.
THEOREM ParseInvertsEveryId == \A i \in Ids : Parse(Compose(i)) = i
<1> SUFFICES ASSUME NEW i \in Ids PROVE Parse(Compose(i)) = i OBVIOUS
<1> DEFINE a == i.ts * Datacenters + i.node[1]
           b == a * Workers + i.node[2]
<1>1. /\ i.ts \in Int /\ i.node[1] \in 0 .. Datacenters - 1
      /\ i.node[2] \in 0 .. Workers - 1 /\ i.seq \in 0 .. SeqSize - 1
      /\ a \in Int /\ b \in Int
      /\ i = [ts |-> i.ts, node |-> <<i.node[1], i.node[2]>>, seq |-> i.seq]
  BY IdFields
<1>2. a \div Datacenters = i.ts /\ a % Datacenters = i.node[1]
  BY <1>1, DigitsRecovered, SnowflakeAssumption
<1>3. b \div Workers = a /\ b % Workers = i.node[2]
  <2> HIDE DEF a
  <2> QED BY <1>1, DigitsRecovered, SnowflakeAssumption
<1>4. Compose(i) \div SeqSize = b /\ Compose(i) % SeqSize = i.seq
  <2>1. Compose(i) = b * SeqSize + i.seq BY DEF Compose
  <2> HIDE DEF b
  <2> QED BY <1>1, <2>1, DigitsRecovered, SnowflakeAssumption
<1> HIDE DEF a, b
<1> QED BY <1>1, <1>2, <1>3, <1>4 DEF Parse

\* Two ids are the same number only if all their fields are the same.
LEMMA ComposeUnique ==
  ASSUME NEW i \in Ids, NEW j \in Ids, Compose(i) = Compose(j) PROVE i = j
BY ParseInvertsEveryId

-----------------------------------------------------------------------------
(* Snowflake: type correctness.                                            *)

LEMMA InitType == Init => TypeOK
<1> SUFFICES ASSUME Init PROVE TypeOK OBVIOUS
<1>1. <<0, 0>> \in Nodes /\ 0 \in Seqs BY SnowflakeAssumption DEF Nodes, Seqs
<1> QED BY <1>1 DEF Init, TypeOK

LEMMA GoneType ==
  ASSUME TypeOK, NEW p \in Procs, Gone(p)
  PROVE  /\ pc' \in [Procs -> {"down", "scan", "try", "boot", "up", "spin", "closing"}]
         /\ left' \in [Procs -> SUBSET Nodes] /\ node' \in [Procs -> Nodes]
         /\ seq' \in [Procs -> Seqs] /\ last' \in [Procs -> Nat \cup {-1}]
         /\ since' \in [Procs -> Nat] /\ auto' \in [Procs -> BOOLEAN]
<1>1. <<0, 0>> \in Nodes /\ 0 \in Seqs BY SnowflakeAssumption DEF Nodes, Seqs
<1> QED BY <1>1 DEF TypeOK, Gone

LEMMA IssueType ==
  ASSUME TypeOK, NEW p \in Procs, NEW s \in Seqs, Issue(p, now, s)
  PROVE  TypeOK' /\ [ts |-> now, node |-> node[p], seq |-> s] \in Ids
<1>1. [ts |-> now, node |-> node[p], seq |-> s] \in Ids BY DEF TypeOK, Ids
<1>2. issued' \subseteq Ids BY <1>1 DEF Issue, TypeOK
<1> QED BY <1>1, <1>2 DEF Issue, TypeOK

LEMMA GenerateIssues ==
  ASSUME TypeOK, NEW p \in Procs, Generate(p) \/ Resume(p)
  PROVE  \E s \in Seqs :
           /\ Issue(p, now, s)
           /\ \/ now > last[p] /\ s = 0
              \/ now = last[p] /\ s = seq[p] + 1 /\ pc[p] = "up"
<1>1. 0 \in Seqs BY SnowflakeAssumption DEF Seqs
<1>2. seq[p] + 1 < SeqSize => seq[p] + 1 \in Seqs
  BY SnowflakeAssumption DEF TypeOK, Seqs
<1> QED BY <1>1, <1>2 DEF Generate, Resume

LEMMA NextType == TypeOK /\ [Next]_vars => TypeOK'
<1> SUFFICES ASSUME TypeOK, [Next]_vars PROVE TypeOK' OBVIOUS
<1>1. ASSUME NEW p \in Procs, Start(p) \/ Serve(p) \/ Close(p) PROVE TypeOK'
  BY <1>1 DEF Start, Serve, Close, TypeOK
<1>2. ASSUME NEW p \in Procs, Scan(p) PROVE TypeOK'
  <2>1. {n \in Nodes : key[n] = None} \in SUBSET Nodes OBVIOUS
  <2> QED BY <1>2, <2>1 DEF Scan, TypeOK
<1>3. ASSUME NEW p \in Procs, NEW n \in Nodes, Register(p, n) PROVE TypeOK'
  <2>1. CASE key[n] = None
    <3>1. {} \in SUBSET Nodes OBVIOUS
    <3> QED BY <1>3, <2>1, <3>1 DEF Register, TypeOK
  <2>2. CASE key[n] # None BY <1>3, <2>2 DEF Register, TypeOK
  <2> QED BY <2>1, <2>2
<1>4. ASSUME NEW p \in Procs, Exhausted(p) \/ Crash(p) PROVE TypeOK'
  BY <1>4, GoneType DEF Exhausted, Crash, TypeOK
<1>5. ASSUME NEW p \in Procs, Release(p) PROVE TypeOK'
  <2>1. key' \in [Nodes -> Procs \cup {None}] BY <1>5 DEF Release, TypeOK
  <2> QED BY <1>5, <2>1, GoneType DEF Release, TypeOK
<1>6. ASSUME NEW p \in Procs, Generate(p) \/ Resume(p) PROVE TypeOK'
  BY <1>6, GenerateIssues, IssueType
<1>7. ASSUME NEW p \in Procs, Wait(p) PROVE TypeOK'
  <2>1. 0 \in Seqs BY SnowflakeAssumption DEF Seqs
  <2> QED BY <1>7, <2>1 DEF Wait, TypeOK
<1>8. ASSUME NEW n \in Nodes, Expire(n) PROVE TypeOK' BY <1>8 DEF Expire, TypeOK
<1>9. CASE Tick BY <1>9 DEF Tick, TypeOK
<1>12. CASE StepBack
  <2>1. now' \in Nat BY <1>12 DEF StepBack, TypeOK
  <2>2. issued' \subseteq Ids /\ disturbed' \in BOOLEAN BY <1>12 DEF StepBack
  <2> QED BY <1>12, <2>1, <2>2 DEF StepBack, TypeOK
<1>10. CASE UNCHANGED vars BY <1>10 DEF vars, TypeOK
<1>11. ASSUME NEW p \in Procs, NEW n \in Nodes, StartFixed(p, n) PROVE TypeOK'
  BY <1>11 DEF StartFixed, TypeOK
<1> QED
  BY <1>1, <1>2, <1>3, <1>4, <1>5, <1>6, <1>7, <1>8, <1>9, <1>10, <1>11, <1>12 DEF Next

\* The variables keep their types in every behaviour.
THEOREM SnowflakeTypeCorrect == Spec => []TypeOK
BY InitType, NextType, PTL DEF Spec

\* Every id that was ever issued is read back by parse as it was composed,
\* wherever the clocks go: no node and no sequence number outgrows its field.
THEOREM IssuedIdsParse == Spec => []ParseInvertsCompose
<1>1. TypeOK => ParseInvertsCompose
  <2>1. TypeOK => issued \subseteq Ids BY DEF TypeOK
  <2> QED BY <2>1, ParseInvertsEveryId DEF ParseInvertsCompose
<1> QED BY <1>1, SnowflakeTypeCorrect, PTL

-----------------------------------------------------------------------------
(* Snowflake: one process's ids.                                           *)

\* generate (utils/snowflake.py) hands out growing ids while the process
\* lives, even when the clock is set back and leases are lost.
THEOREM ProcessIdsIncrease == Spec => IdsIncrease
<1> DEFINE Grows(p) ==
      last'[p] # last[p] \/ seq'[p] # seq[p] =>
        \/ pc'[p] = "down"
        \/ pc[p] = "up" /\ pc'[p] = "spin" /\ last'[p] = last[p]
        \/ last'[p] > last[p]
        \/ last'[p] = last[p] /\ seq'[p] > seq[p]
<1>1. ASSUME TypeOK, Next, NEW p \in Procs PROVE Grows(p)
  <2>1. ASSUME NEW q \in Procs, Exhausted(q) \/ Crash(q) \/ Release(q) PROVE Grows(p)
    BY <1>1, <2>1 DEF Exhausted, Crash, Release, Gone, TypeOK
  <2>2. ASSUME NEW q \in Procs, Generate(q) \/ Resume(q) PROVE Grows(p)
    <3>1. PICK s \in Seqs : /\ Issue(q, now, s)
                            /\ \/ now > last[q] /\ s = 0
                               \/ now = last[q] /\ s = seq[q] + 1 /\ pc[q] = "up"
      BY <1>1, <2>2, GenerateIssues
    <3>2. CASE p = q BY <1>1, <3>1, <3>2 DEF Issue, TypeOK, Seqs
    <3>3. CASE p # q BY <1>1, <3>1, <3>3 DEF Issue, TypeOK
    <3> QED BY <3>2, <3>3
  <2>3. ASSUME NEW q \in Procs, Wait(q) PROVE Grows(p)
    BY <1>1, <2>3 DEF Wait, TypeOK
  <2>4. CASE UNCHANGED <<last, seq>> BY <2>4
  <2> QED
    BY <1>1, <2>1, <2>2, <2>3, <2>4 DEF Next, Start, Scan, Serve, Close, Register,
       StartFixed,
       Expire, Tick, StepBack
<1>2. TypeOK /\ [Next]_vars => [\A p \in Procs : Grows(p)]_vars BY <1>1
<1> QED BY <1>2, SnowflakeTypeCorrect, PTL DEF Spec, IdsIncrease

-----------------------------------------------------------------------------
(* Snowflake: ids of all processes.                                        *)

LEMMA InitIds == Init => Undisturbed
BY DEF Init, Undisturbed, OwnsNode, IssuedBefore, ClockAhead, Holding

\* A process whose end leaves the keys of the others alone.
LEMMA GoneIds ==
  ASSUME TypeOK, Undisturbed, NEW p \in Procs, Gone(p), UNCHANGED <<now, issued, clash>>,
         \A q \in Procs \ {p} : pc[q] \in Holding => key'[node[q]] = key[node[q]]
  PROVE  Undisturbed'
<1>1. pc'[p] = "down" /\ last'[p] = -1 BY DEF Gone, TypeOK
<1>2. \A q \in Procs \ {p} : /\ pc'[q] = pc[q] /\ node'[q] = node[q] /\ seq'[q] = seq[q]
                              /\ last'[q] = last[q] /\ since'[q] = since[q]
  BY DEF Gone, TypeOK
<1>3. OwnsNode' BY <1>1, <1>2 DEF Undisturbed, OwnsNode, Holding
<1>4. IssuedBefore'
  BY <1>1, <1>2 DEF Undisturbed, IssuedBefore, Older, Mine, Holding
<1>5. ClockAhead' BY <1>1, <1>2 DEF Undisturbed, ClockAhead, Holding
<1> QED BY <1>3, <1>4, <1>5 DEF Undisturbed

LEMMA IssueIds ==
  ASSUME TypeOK, Undisturbed, ~disturbed, NEW p \in Procs, pc[p] \in {"up", "spin"},
         NEW s \in Seqs, Issue(p, now, s),
         \/ now > last[p] /\ s = 0
         \/ now = last[p] /\ s = seq[p] + 1 /\ pc[p] = "up"
  PROVE  Undisturbed'
<1> DEFINE i == [ts |-> now, node |-> node[p], seq |-> s]
<1>1. i \in Ids /\ issued' = issued \cup {i} /\ issued \subseteq Ids
  BY IssueType DEF Issue, TypeOK
<1>2. /\ pc'[p] = "up" /\ last'[p] = now /\ seq'[p] = s
      /\ \A q \in Procs \ {p} : pc'[q] = pc[q] /\ last'[q] = last[q] /\ seq'[q] = seq[q]
      /\ UNCHANGED <<key, node, since, now>>
  BY DEF Issue, TypeOK
<1>3. since[p] < now /\ last[p] <= now /\ key[node[p]] = p
  BY DEF Undisturbed, ClockAhead, OwnsNode, Holding
<1>4. /\ now \in Int /\ last[p] \in Int /\ since[p] \in Int /\ seq[p] \in Int /\ s \in Int
      /\ \A j \in issued : j.ts \in Int /\ j.seq \in Int
  BY <1>1 DEF TypeOK, Ids, Seqs
<1>5. OwnsNode' BY <1>2 DEF Undisturbed, OwnsNode, Holding
<1>6. ClockAhead'
  BY <1>1, <1>2, <1>3, <1>4 DEF Undisturbed, ClockAhead, Holding, TypeOK
<1>7. IssuedBefore'
  <2>1. ASSUME NEW q \in Procs, NEW j \in issued', pc'[q] \in Holding, j.node = node'[q]
        PROVE  Older(j, q)' \/ Mine(j, q)'
    <3>1. CASE q = p /\ j = i BY <1>2, <1>4, <3>1 DEF Mine
    <3>2. CASE q = p /\ j # i
      <4>1. j \in issued BY <1>1, <3>2
      <4>2. Older(j, p) \/ Mine(j, p)
        BY <1>2, <2>1, <3>2, <4>1 DEF Undisturbed, IssuedBefore, Holding
      <4>3. CASE Older(j, p) BY <1>2, <3>2, <4>3 DEF Older
      <4>4. CASE Mine(j, p) BY <1>2, <1>4, <3>2, <4>1, <4>4 DEF Mine
      <4> QED BY <4>2, <4>3, <4>4
    <3>3. CASE q # p
      <4>1. node[q] # node[p]
        BY <1>2, <1>3, <2>1, <3>3 DEF Undisturbed, OwnsNode
      <4>2. j \in issued BY <1>1, <1>2, <2>1, <4>1
      <4> QED BY <1>2, <2>1, <3>3, <4>2 DEF Undisturbed, IssuedBefore, Older, Mine
    <3> QED BY <3>1, <3>2, <3>3
  <2> QED BY <2>1 DEF IssuedBefore
<1>8. ~clash'
  <2>1. ASSUME NEW j \in issued, Compose(j) = Compose(i) PROVE FALSE
    <3>1. j = i BY <1>1, <2>1, ComposeUnique
    <3>2. Older(j, p) \/ Mine(j, p) BY <3>1 DEF Undisturbed, IssuedBefore, Holding
    <3>3. ~Older(j, p) BY <1>3, <1>4, <3>1 DEF Older
    <3>4. ~Mine(j, p) BY <1>3, <1>4, <3>1 DEF Mine
    <3> QED BY <3>2, <3>3, <3>4
  <2> QED BY <2>1 DEF Issue, Undisturbed
<1> QED BY <1>5, <1>6, <1>7, <1>8 DEF Undisturbed

LEMMA NextIds ==
  ASSUME TypeOK, IdsInv, [Next]_vars PROVE IdsInv'
<1> SUFFICES ASSUME ~disturbed' PROVE Undisturbed' BY DEF IdsInv
<1>0. ~disturbed /\ Undisturbed
  <2>1. UNCHANGED disturbed => ~disturbed BY DEF TypeOK
  <2> QED
    BY <2>1 DEF IdsInv, Next, vars, Start, StartFixed, Scan, Exhausted, Serve, Close,
       Release, Crash,
       Generate, Wait, Resume, Issue, Register, Expire, Tick, StepBack, TypeOK
<1>1. ASSUME NEW p \in Procs, Start(p) \/ Close(p) PROVE Undisturbed'
  BY <1>0, <1>1 DEF Start, Close, TypeOK, Undisturbed, OwnsNode, IssuedBefore, Older,
     Mine,
     ClockAhead, Holding
<1>2. ASSUME NEW p \in Procs, Scan(p) \/ Serve(p) PROVE Undisturbed'
  BY <1>0, <1>2 DEF Scan, Serve, TypeOK, Undisturbed, OwnsNode, IssuedBefore, Older, Mine,
     ClockAhead, Holding
<1>3. ASSUME NEW p \in Procs, NEW n \in Nodes, Register(p, n) PROVE Undisturbed'
  <2>1. CASE key[n] # None
    BY <1>0, <1>3, <2>1 DEF Register, Undisturbed, OwnsNode, IssuedBefore, Older, Mine,
       ClockAhead
  <2>2. CASE key[n] = None
    <3>1. /\ pc'[p] = "boot" /\ node'[p] = n /\ since'[p] = now /\ key'[n] = p
          /\ \A q \in Procs \ {p} : pc'[q] = pc[q] /\ node'[q] = node[q] /\ since'[q] = since[q]
          /\ \A m \in Nodes \ {n} : key'[m] = key[m]
          /\ UNCHANGED <<seq, last, now, issued, clash>> /\ pc[p] = "try"
      BY <1>3, <2>2 DEF Register, TypeOK
    <3>2. OwnsNode'
      BY <1>0, <2>2, <3>1, SnowflakeAssumption DEF TypeOK, Undisturbed, OwnsNode, Holding
    <3>3. IssuedBefore'
      BY <1>0, <3>1 DEF Undisturbed, IssuedBefore, ClockAhead, Older, Mine
    <3>4. ClockAhead'
      BY <1>0, <3>1 DEF TypeOK, Undisturbed, ClockAhead, Holding
    <3> QED BY <3>1, <3>2, <3>3, <3>4, <1>0 DEF Undisturbed
  <2> QED BY <2>1, <2>2
<1>4. ASSUME NEW p \in Procs, Exhausted(p) \/ Crash(p) PROVE Undisturbed'
  BY <1>0, <1>4, GoneIds DEF Exhausted, Crash
<1>5. ASSUME NEW p \in Procs, Release(p) PROVE Undisturbed'
  <2>1. key[node[p]] = p BY <1>0, <1>5 DEF Release, Undisturbed, OwnsNode, Holding
  <2>2. \A q \in Procs \ {p} : pc[q] \in Holding => key'[node[q]] = key[node[q]]
    BY <1>0, <1>5, <2>1 DEF Release, TypeOK, Undisturbed, OwnsNode
  <2> QED BY <1>0, <1>5, <2>2, GoneIds DEF Release
<1>6. ASSUME NEW p \in Procs, Generate(p) \/ Resume(p) PROVE Undisturbed'
  <2>1. pc[p] \in {"up", "spin"} BY <1>6 DEF Generate, Resume
  <2> QED BY <1>0, <1>6, <2>1, GenerateIssues, IssueIds
<1>7. ASSUME NEW p \in Procs, Wait(p) PROVE Undisturbed'
  BY <1>0, <1>7 DEF Wait, TypeOK, Undisturbed, OwnsNode, IssuedBefore, Older, Mine,
     ClockAhead,
     Holding
<1>8. ASSUME NEW n \in Nodes, Expire(n) PROVE Undisturbed'
  BY <1>0, <1>8 DEF Expire, TypeOK, Undisturbed, OwnsNode, IssuedBefore, Older, Mine,
     ClockAhead,
     Holding
<1>9. CASE Tick
  <2>1. now' > now /\ now \in Int BY <1>9 DEF Tick, TypeOK
  <2>2. \A i \in issued : i.ts \in Int BY DEF TypeOK, Ids
  <2> QED
    BY <1>0, <1>9, <2>1, <2>2 DEF Tick, TypeOK, Undisturbed, OwnsNode, IssuedBefore,
       Older, Mine,
          ClockAhead
<1>10. CASE UNCHANGED vars
  BY <1>0, <1>10 DEF vars, Undisturbed, OwnsNode, IssuedBefore, Older, Mine, ClockAhead
<1> QED
  BY <1>1, <1>2, <1>3, <1>4, <1>5, <1>6, <1>7, <1>8, <1>9, <1>10 DEF Next, StepBack,
     StartFixed

\* What the lease protocol keeps in an undisturbed run: whoever holds a node
\* owns its key, and the ids issued on it before are older than its lease.
THEOREM LeasesAreKept == Spec => []IdsInv
<1>1. Init => IdsInv BY InitIds DEF IdsInv
<1>2. TypeOK /\ IdsInv /\ [Next]_vars => IdsInv' BY NextIds
<1> QED BY <1>1, <1>2, SnowflakeTypeCorrect, PTL DEF Spec

\* Until a lease lapses under its owner, a clock is set back or a node is fixed
\* by hand, the ids of all processes differ: SET NX gives a node to one process
\* at a time, and the next owner of a node starts after the last id of the one
\* before it.
THEOREM IdsAreUnique == Spec => []UniqueIds
<1>1. IdsInv => UniqueIds BY DEF IdsInv, Undisturbed, UniqueIds
<1> QED BY <1>1, LeasesAreKept, PTL

-----------------------------------------------------------------------------
(* OperaLog: what stands in line.                                          *)

OneEach(s) == \A i, j \in DOMAIN s : s[i] = s[j] => i = j

LEMMA LineItems ==
  ASSUME NEW s \in Seq(Callers), NEW t \in Seq(Callers)
  PROVE  Items(s \o t) = Items(s) \cup Items(t)
<1>1. /\ DOMAIN (s \o t) = 1 .. Len(s) + Len(t) /\ DOMAIN s = 1 .. Len(s)
      /\ DOMAIN t = 1 .. Len(t) /\ Len(s) \in Nat /\ Len(t) \in Nat
  BY ConcatProperties
<1>2. \A i \in DOMAIN (s \o t) : (s \o t)[i] = IF i <= Len(s) THEN s[i] ELSE t[i - Len(s)]
  BY <1>1, ConcatProperties
<1>3. ASSUME NEW i \in DOMAIN (s \o t) PROVE (s \o t)[i] \in Items(s) \cup Items(t)
  <2>1. CASE i <= Len(s) BY <1>1, <1>2, <2>1 DEF Items
  <2>2. CASE i > Len(s)
    <3>1. i - Len(s) \in DOMAIN t BY <1>1, <2>2
    <3> QED BY <1>1, <1>2, <2>2, <3>1 DEF Items
  <2> QED BY <1>1, <2>1, <2>2
<1>4. ASSUME NEW i \in DOMAIN s PROVE s[i] \in Items(s \o t)
  <2>1. i \in DOMAIN (s \o t) /\ i <= Len(s) BY <1>1
  <2> QED BY <1>2, <2>1 DEF Items
<1>5. ASSUME NEW i \in DOMAIN t PROVE t[i] \in Items(s \o t)
  <2>1. i + Len(s) \in DOMAIN (s \o t) /\ ~(i + Len(s) <= Len(s)) BY <1>1
  <2>2. (s \o t)[i + Len(s)] = t[i] BY <1>1, <1>2, <2>1
  <2> QED BY <2>1, <2>2 DEF Items
<1> QED BY <1>3, <1>4, <1>5 DEF Items

LEMMA LineSplit ==
  ASSUME NEW s \in Seq(Callers), NEW t \in Seq(Callers), OneEach(s \o t)
  PROVE  OneEach(t) /\ Items(s) \cap Items(t) = {}
<1>1. /\ DOMAIN (s \o t) = 1 .. Len(s) + Len(t) /\ DOMAIN s = 1 .. Len(s)
      /\ DOMAIN t = 1 .. Len(t) /\ Len(s) \in Nat /\ Len(t) \in Nat
  BY ConcatProperties
<1>2. \A i \in DOMAIN s : i \in DOMAIN (s \o t) /\ (s \o t)[i] = s[i]
  BY <1>1, ConcatProperties
<1>3. \A i \in DOMAIN t : i + Len(s) \in DOMAIN (s \o t) /\ (s \o t)[i + Len(s)] = t[i]
  <2> SUFFICES ASSUME NEW i \in DOMAIN t
               PROVE  i + Len(s) \in DOMAIN (s \o t) /\ (s \o t)[i + Len(s)] = t[i]
    OBVIOUS
  <2>1. i + Len(s) \in 1 .. Len(s) + Len(t) /\ ~(i + Len(s) <= Len(s)) BY <1>1
  <2>2. (s \o t)[i + Len(s)] = t[(i + Len(s)) - Len(s)] BY <2>1, ConcatProperties
  <2>3. (i + Len(s)) - Len(s) = i BY <1>1
  <2> QED BY <1>1, <2>1, <2>2, <2>3
<1>4. ASSUME NEW i \in DOMAIN t, NEW j \in DOMAIN t, t[i] = t[j] PROVE i = j
  <2>1. i + Len(s) = j + Len(s) BY <1>3, <1>4 DEF OneEach
  <2> QED BY <1>1, <2>1
<1>5. ASSUME NEW i \in DOMAIN s, NEW j \in DOMAIN t, s[i] = t[j] PROVE FALSE
  <2>1. i = j + Len(s) BY <1>2, <1>3, <1>5 DEF OneEach
  <2> QED BY <1>1, <2>1
<1> QED BY <1>4, <1>5 DEF OneEach, Items

LEMMA LineAppend ==
  ASSUME NEW s \in Seq(Callers), NEW x \in Callers
  PROVE  /\ Items(Append(s, x)) = Items(s) \cup {x}
         /\ OneEach(s) /\ x \notin Items(s) => OneEach(Append(s, x))
<1>1. /\ DOMAIN s = 1 .. Len(s) /\ Len(s) \in Nat
      /\ DOMAIN Append(s, x) = 1 .. Len(s) + 1
      /\ \A i \in DOMAIN s : Append(s, x)[i] = s[i]
      /\ Append(s, x)[Len(s) + 1] = x
  OBVIOUS
<1> QED BY <1>1 DEF Items, OneEach

LEMMA LineGrows ==
  ASSUME NEW s \in Seq(Callers), NEW t \in Seq(Callers), NEW x \in Callers
  PROVE  s \o Append(t, x) = Append(s \o t, x)
OBVIOUS

LEMMA LineMoves ==
  ASSUME NEW s \in Seq(Callers), NEW t \in Seq(Callers), t # <<>>
  PROVE  Append(s, Head(t)) \o Tail(t) = s \o t
OBVIOUS

LEMMA LineLength ==
  ASSUME NEW s \in Seq(Callers), OneEach(s)
  PROVE  Cardinality(Items(s)) = Len(s)
<1>1. /\ DOMAIN s = 1 .. Len(s) /\ Len(s) \in Nat
  OBVIOUS
<1>2. IsFiniteSet(1 .. Len(s)) /\ Cardinality(1 .. Len(s)) = Len(s)
  BY <1>1, FS_Interval
<1>3. s \in Surjection(1 .. Len(s), Items(s))
  BY <1>1 DEF Surjection, Items
<1>4. s \in Injection(1 .. Len(s), Items(s))
  BY <1>1, <1>3 DEF Surjection, Injection, OneEach, IsInjective
<1> QED BY <1>2, <1>3, <1>4, FS_Surjection

-----------------------------------------------------------------------------
(* OperaLog: the entries.                                                  *)

\* The types, and room in a batch that is collected.
LogTypes ==
  /\ LogTypeOK
  /\ consumer = "collect" => Len(batch) < BatchSize
  /\ consumer = "off" => batch = <<>>

LEMMA LogTypesInit == LogInit => LogTypes
<1> SUFFICES ASSUME LogInit PROVE LogTypes OBVIOUS
<1> USE DEF LogInit
<1>1. /\ kind \in [Callers -> Kinds] /\ stage \in [Callers -> Stages]
      /\ seen \in [Callers -> SUBSET Callers] /\ consumer = "collect"
  BY DEF Stages
<1>2. /\ queue \in Seq(Callers) /\ Len(queue) = 0
      /\ batch \in Seq(Callers) /\ Len(batch) = 0
  OBVIOUS
<1>3. /\ conns \subseteq Callers \cup {Consumer} /\ table \subseteq Callers
      /\ removed \subseteq Callers /\ lost \subseteq Callers /\ entered \subseteq Callers
      /\ stops \in Nat
  OBVIOUS
<1> QED BY <1>1, <1>2, <1>3, OperaLogAssumption DEF LogTypeOK, LogTypes

\* Every step keeps the types, and the queue and the batch within their sizes.
LEMMA LogTypesKept == LogTypes /\ [LogNext]_logVars => LogTypes'
<1> SUFFICES ASSUME LogTypes, [LogNext]_logVars PROVE LogTypes' OBVIOUS
<1> USE DEF LogTypes, LogTypeOK, Kinds, Stages, Items, Up
<1>1. ASSUME NEW r \in Callers, Arrive(r) PROVE LogTypes'
  BY <1>1, OperaLogAssumption DEF Arrive, Goes
<1>2. ASSUME NEW r \in Callers, Connect(r) PROVE LogTypes'
  BY <1>2, OperaLogAssumption DEF Connect, Goes
<1>3. ASSUME NEW r \in Callers, ConnectTimeout(r) PROVE LogTypes'
  BY <1>3, OperaLogAssumption DEF ConnectTimeout, Goes
<1>4. ASSUME NEW r \in Callers, Handle(r) PROVE LogTypes'
  BY <1>4, OperaLogAssumption DEF Handle, Goes
<1>5. ASSUME NEW r \in Callers, HandleFails(r) PROVE LogTypes'
  BY <1>5, OperaLogAssumption DEF HandleFails, Goes
<1>6. ASSUME NEW r \in Callers, Put(r) PROVE LogTypes'
  BY <1>6, OperaLogAssumption DEF Put, Goes
<1>7. ASSUME NEW r \in Callers, Reply(r) PROVE LogTypes'
  BY <1>7, OperaLogAssumption DEF Reply, Goes
<1>8. ASSUME NEW r \in Callers, ReplyFails(r) PROVE LogTypes'
  BY <1>8, OperaLogAssumption DEF ReplyFails, Goes
<1>9. CASE Take BY <1>9, OperaLogAssumption DEF Take
<1>10. CASE BatchTimeout BY <1>10, OperaLogAssumption DEF BatchTimeout
<1>11. CASE BatchConnect BY <1>11, OperaLogAssumption DEF BatchConnect
<1>12. CASE Insert BY <1>12, OperaLogAssumption DEF Insert
<1>13. CASE BatchLost BY <1>13, OperaLogAssumption DEF BatchLost
<1>14. CASE Shutdown BY <1>14, OperaLogAssumption DEF Shutdown, Ends
<1>15. CASE Killed
  <2>1. /\ stage' \in [Callers -> Stages] /\ seen' \in [Callers -> SUBSET Callers]
        /\ conns' = {} /\ queue' = <<>> /\ batch' = <<>> /\ consumer' = "off"
        /\ stops' \in Nat /\ UNCHANGED <<kind, table, removed, entered>>
    BY <1>15 DEF Killed, Ends
  <2>2. lost' \subseteq Callers BY <1>15 DEF Killed, Ends
  <2> QED BY <2>1, <2>2, OperaLogAssumption
<1>16. CASE Startup BY <1>16, OperaLogAssumption DEF Startup
<1>17. CASE UNCHANGED logVars BY <1>17, OperaLogAssumption DEF logVars
<1> QED BY <1>1, <1>2, <1>3, <1>4, <1>5, <1>6, <1>7, <1>8, <1>9, <1>10, <1>11, <1>12,
      <1>13, <1>14, <1>15, <1>16, <1>17 DEF LogNext, Calls, Consumes

\* OperaLog keeps its types: among them, that the queue and a batch never hold
\* more than their sizes.
THEOREM LogTypesHold == LogSpec => []LogTypeOK
<1>1. LogTypes => LogTypeOK BY DEF LogTypes
<1> QED BY LogTypesInit, LogTypesKept, <1>1, PTL DEF LogSpec

Line == batch \o queue
Settled == table \cup removed \cup lost

\* Each entry is in one place; a request has its entry exactly from its put on,
\* and no request deletes its own.
Accounted ==
  /\ OneEach(Line) /\ entered = Items(Line) \cup Settled
  /\ Items(Line) \cap Settled = {}
  /\ table \cap (removed \cup lost) = {} /\ removed \cap lost = {}
  /\ \A r \in Callers :
       /\ stage[r] \in {"reply", "done"} /\ kind[r] # "skip" => r \in entered
       /\ stage[r] \in {"new", "connect", "work", "put"} => r \notin entered
       /\ r \notin seen[r]

LogInv == LogTypes /\ Accounted

\* What a step makes of the line when the batch leaves it.
LEMMA BatchLeaves ==
  ASSUME LogInv, batch' = <<>>, queue' = queue
  PROVE  /\ OneEach(Line)' /\ Items(Line)' = Items(queue)
         /\ Items(Line) = Items(batch) \cup Items(queue)
         /\ Items(batch) \cap Items(queue) = {}
<1>1. batch \in Seq(Callers) /\ queue \in Seq(Callers)
  BY DEF LogInv, LogTypes, LogTypeOK
<1>2. Line' = queue BY <1>1, ConcatEmptySeq DEF Line
<1>3. OneEach(batch \o queue) BY DEF LogInv, Accounted, Line
<1>4. OneEach(Line)' /\ Items(Line)' = Items(queue)
  BY <1>1, <1>2, <1>3, LineSplit DEF OneEach, Items
<1> QED BY <1>1, <1>3, <1>4, LineSplit, LineItems DEF Line

\* A request or the consumer moves nothing in the line.
LEMMA LineRests ==
  ASSUME UNCHANGED <<batch, queue>>
  PROVE  Items(Line)' = Items(Line) /\ OneEach(Line)' = OneEach(Line)
BY DEF Line, Items, OneEach

\* Wherever a step moves an entry, it moves it out of one place and into another.
LEMMA AccountedKept == LogInv /\ [LogNext]_logVars => Accounted'
<1> SUFFICES ASSUME LogInv, [LogNext]_logVars PROVE Accounted' OBVIOUS
<1> USE DEF LogInv
<1>1. ASSUME NEW r \in Callers, Arrive(r) PROVE Accounted'
  BY <1>1, LineRests DEF Arrive, Goes, Accounted, Settled, LogTypes, LogTypeOK
<1>2. ASSUME NEW r \in Callers, Connect(r) PROVE Accounted'
  BY <1>2, LineRests DEF Connect, Goes, Accounted, Settled, LogTypes, LogTypeOK
<1>3. ASSUME NEW r \in Callers, ConnectTimeout(r) PROVE Accounted'
  BY <1>3, LineRests DEF ConnectTimeout, Goes, Accounted, Settled, LogTypes, LogTypeOK
<1>4. ASSUME NEW r \in Callers, Handle(r) PROVE Accounted'
  BY <1>4, LineRests DEF Handle, Goes, Accounted, Settled, LogTypes, LogTypeOK
<1>5. ASSUME NEW r \in Callers, HandleFails(r) PROVE Accounted'
  BY <1>5, LineRests DEF HandleFails, Goes, Accounted, Settled, LogTypes, LogTypeOK
<1>6. ASSUME NEW r \in Callers, Put(r) PROVE Accounted'
  <2>1. batch \in Seq(Callers) /\ queue \in Seq(Callers)
    BY DEF LogTypes, LogTypeOK
  <2>2. Line' = Append(Line, r) /\ Line \in Seq(Callers)
    BY <1>6, <2>1, LineGrows DEF Put, Line
  <2>3. r \notin entered BY <1>6 DEF Put, Accounted
  <2>4. OneEach(Line)' /\ Items(Line)' = Items(Line) \cup {r}
    BY <2>2, <2>3, LineAppend DEF OneEach, Items, Accounted
  <2> QED BY <1>6, <2>3, <2>4 DEF Put, Goes, Accounted, Settled, LogTypes, LogTypeOK
<1>7. ASSUME NEW r \in Callers, Reply(r) PROVE Accounted'
  BY <1>7, LineRests DEF Reply, Goes, Accounted, Settled, LogTypes, LogTypeOK
<1>8. ASSUME NEW r \in Callers, ReplyFails(r) PROVE Accounted'
  BY <1>8, LineRests DEF ReplyFails, Goes, Accounted, Settled, LogTypes, LogTypeOK
<1>9. CASE Take
  <2>1. batch \in Seq(Callers) /\ queue \in Seq(Callers)
    BY DEF LogTypes, LogTypeOK
  <2>2. Line' = Line BY <1>9, <2>1, LineMoves DEF Take, Line
  <2>3. Items(Line)' = Items(Line) /\ OneEach(Line)' = OneEach(Line)
    BY <2>2 DEF Items, OneEach
  <2> QED BY <1>9, <2>3 DEF Take, Accounted, Settled
<1>10. CASE BatchTimeout
  BY <1>10, LineRests DEF BatchTimeout, Accounted, Settled, LogTypes, LogTypeOK
<1>11. CASE BatchConnect
  BY <1>11, LineRests DEF BatchConnect, Accounted, Settled, LogTypes, LogTypeOK
<1>12. CASE Insert
  <2>1. /\ OneEach(Line)' /\ Items(Line)' = Items(queue)
        /\ Items(Line) = Items(batch) \cup Items(queue)
        /\ Items(batch) \cap Items(queue) = {}
    BY <1>12, BatchLeaves DEF Insert
  <2> QED BY <1>12, <2>1 DEF Insert, Accounted, Settled
<1>13. CASE BatchLost
  <2>1. /\ OneEach(Line)' /\ Items(Line)' = Items(queue)
        /\ Items(Line) = Items(batch) \cup Items(queue)
        /\ Items(batch) \cap Items(queue) = {}
    BY <1>13, BatchLeaves DEF BatchLost
  <2> QED BY <1>13, <2>1 DEF BatchLost, Accounted, Settled
<1>14. CASE Shutdown
  <2>1. batch \in Seq(Callers) /\ queue \in Seq(Callers)
    BY DEF LogTypes, LogTypeOK
  <2>2. Items(Line) = Items(batch) \cup Items(queue) BY <2>1, LineItems DEF Line
  <2>3. OneEach(Line)' /\ Items(Line)' = {}
    BY <1>14 DEF Shutdown, Ends, Line, OneEach, Items
  <2> QED BY <1>14, <2>2, <2>3 DEF Shutdown, Ends, Accounted, Settled, LogTypes, LogTypeOK
<1>15. CASE Killed
  <2>1. batch \in Seq(Callers) /\ queue \in Seq(Callers)
    BY DEF LogTypes, LogTypeOK
  <2>2. Items(Line) = Items(batch) \cup Items(queue) BY <2>1, LineItems DEF Line
  <2>3. OneEach(Line)' /\ Items(Line)' = {}
    BY <1>15 DEF Killed, Ends, Line, OneEach, Items
  <2> QED BY <1>15, <2>2, <2>3 DEF Killed, Ends, Accounted, Settled, LogTypes, LogTypeOK
<1>16. CASE Startup
  BY <1>16, LineRests DEF Startup, Accounted, Settled, LogTypes, LogTypeOK
<1>17. CASE UNCHANGED logVars
  BY <1>17, LineRests DEF logVars, Accounted, Settled, LogTypes, LogTypeOK
<1> QED BY <1>1, <1>2, <1>3, <1>4, <1>5, <1>6, <1>7, <1>8, <1>9, <1>10, <1>11, <1>12,
      <1>13, <1>14, <1>15, <1>16, <1>17 DEF LogNext, Calls, Consumes

LEMMA LogInvHolds == LogSpec => []LogInv
<1>1. LogInit => LogInv
  <2> SUFFICES ASSUME LogInit PROVE LogInv OBVIOUS
  <2>1. Line = <<>> BY DEF LogInit, Line
  <2>2. OneEach(Line) /\ Items(Line) = {} BY <2>1 DEF OneEach, Items
  <2> QED BY LogTypesInit, <2>2 DEF LogInit, LogInv, Accounted, Settled
<1>2. LogInv /\ [LogNext]_logVars => LogInv'
  BY LogTypesKept, AccountedKept DEF LogInv
<1> QED BY <1>1, <1>2, PTL DEF LogSpec

\* batch_dequeue, consumer and dispatch: no timeout, failed insert, shutdown or
\* crash drops or doubles an entry without a trace, and no answer goes out
\* before its entry is in.
THEOREM EntriesAccountedHolds == LogSpec => []EntriesAccounted
<1>1. LogInv => EntriesAccounted
  <2> SUFFICES ASSUME LogInv PROVE EntriesAccounted OBVIOUS
  <2>1. batch \in Seq(Callers) /\ queue \in Seq(Callers)
    BY DEF LogInv, LogTypes, LogTypeOK
  <2>2. Line \in Seq(Callers) /\ Len(Line) = Len(batch) + Len(queue)
    BY <2>1, ConcatProperties DEF Line
  <2>3. Cardinality(Items(Line)) = Len(batch) + Len(queue)
    BY <2>2, LineLength DEF LogInv, Accounted
  <2>4. Waiting = Items(Line) BY DEF Waiting, Line
  <2> QED BY <2>3, <2>4 DEF LogInv, Accounted, Settled, EntriesAccounted
<1> QED BY LogInvHolds, <1>1, PTL

ClearedOnRecord ==
  \A r \in Callers : r \in table /\ stage[r] # stage'[r] => r \in table'

\* Only the commit of a deletion takes a row out of the table, and never
\* that of its own request.
LEMMA ClearingStep == LogInv /\ [LogNext]_logVars => ClearedOnRecord
<1> SUFFICES ASSUME LogInv, [LogNext]_logVars PROVE ClearedOnRecord OBVIOUS
<1> USE DEF LogInv, LogTypes, LogTypeOK, Accounted, ClearedOnRecord
<1>1. ASSUME NEW r \in Callers, Arrive(r) PROVE ClearedOnRecord BY <1>1 DEF Arrive, Goes
<1>2. ASSUME NEW r \in Callers, Connect(r) PROVE ClearedOnRecord BY <1>2 DEF Connect, Goes
<1>3. ASSUME NEW r \in Callers, ConnectTimeout(r) PROVE ClearedOnRecord
  BY <1>3 DEF ConnectTimeout, Goes
<1>4. ASSUME NEW r \in Callers, Handle(r) PROVE ClearedOnRecord BY <1>4 DEF Handle, Goes
<1>5. ASSUME NEW r \in Callers, HandleFails(r) PROVE ClearedOnRecord
  BY <1>5 DEF HandleFails, Goes
<1>6. ASSUME NEW r \in Callers, Put(r) PROVE ClearedOnRecord BY <1>6 DEF Put, Goes
<1>7. ASSUME NEW r \in Callers, Reply(r) PROVE ClearedOnRecord BY <1>7 DEF Reply, Goes
<1>8. ASSUME NEW r \in Callers, ReplyFails(r) PROVE ClearedOnRecord
  BY <1>8 DEF ReplyFails, Goes
<1>9. CASE Take BY <1>9 DEF Take
<1>10. CASE BatchTimeout BY <1>10 DEF BatchTimeout
<1>11. CASE BatchConnect BY <1>11 DEF BatchConnect
<1>12. CASE Insert BY <1>12 DEF Insert
<1>13. CASE BatchLost BY <1>13 DEF BatchLost
<1>14. CASE Shutdown BY <1>14 DEF Shutdown, Ends
<1>15. CASE Killed BY <1>15 DEF Killed, Ends, Running
<1>16. CASE Startup BY <1>16 DEF Startup
<1>17. CASE UNCHANGED logVars BY <1>17 DEF logVars
<1> QED BY <1>1, <1>2, <1>3, <1>4, <1>5, <1>6, <1>7, <1>8, <1>9, <1>10, <1>11, <1>12,
      <1>13, <1>14, <1>15, <1>16, <1>17 DEF LogNext, Calls, Consumes

\* opera_log delete_all and the middleware: the record of a clearing, which is put
\* before the clearing commits, is not cleared with the rest.
THEOREM ClearingIsOnRecordHolds == LogSpec => ClearingIsOnRecord
<1>1. LogInv /\ [LogNext]_logVars => [ClearedOnRecord]_logVars BY ClearingStep
<1> QED BY LogInvHolds, <1>1, PTL DEF LogSpec, ClearingIsOnRecord, ClearedOnRecord
=============================================================================
