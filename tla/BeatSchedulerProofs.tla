------------------------ MODULE BeatSchedulerProofs ------------------------
(* Proofs about BeatScheduler. *)
EXTENDS BeatScheduler, TLAPS

(* What the argument needs of the types. *)
Typed == pc \in [Beats -> Places] /\ why \in [Beats -> Reasons]

(* A beat at p, in a sync called for w, needs the lock. *)
Claims(p, w) ==
  \/ p \in {"tick", "look", "work", "close"}
  \/ p \in {"pop", "save", "reload"} /\ w \in {"tick", "plain"}

LockIInv == Typed /\ \A b \in Beats : Claims(pc[b], why[b]) => lock = b

(* A step that leaves the lock and every beat where they are. *)
LEMMA StaysPut ==
  ASSUME LockIInv, UNCHANGED <<lock, pc, why>>
  PROVE  LockIInv'
  BY DEF LockIInv, Typed, Claims

(* A step of b that ends at p, inside a sync called for w if any: it is    *)
(* enough that b owns the lock afterwards if it must, and that it takes    *)
(* the lock from nobody else.                                              *)
LEMMA Moves ==
  ASSUME LockIInv, NEW b \in Beats, NEW p \in Places, NEW w \in Reasons,
         pc' = [pc EXCEPT ![b] = p], why' = [why EXCEPT ![b] = w],
         Claims(p, w) => lock' = b,
         lock' = lock \/ lock = b \/ (lock \notin Beats)
  PROVE  LockIInv'
<1>1. Typed'
  BY DEF LockIInv, Typed
<1>2. ASSUME NEW c \in Beats, Claims(pc'[c], why'[c]) PROVE lock' = c
  <2>1. CASE c = b
    BY <1>2, <2>1 DEF LockIInv, Typed
  <2>2. CASE c # b
    <3>1. pc'[c] = pc[c] /\ why'[c] = why[c]
      BY <2>2 DEF LockIInv, Typed
    <3>2. lock = c
      BY <1>2, <3>1 DEF LockIInv
    <3> QED BY <3>2, <2>2
  <2> QED BY <2>1, <2>2
<1> QED BY <1>1, <1>2 DEF LockIInv, Claims

(* The same, when why and the lock stay as they are. *)
LEMMA MovesOn ==
  ASSUME LockIInv, NEW b \in Beats, NEW p \in Places,
         pc' = [pc EXCEPT ![b] = p], why' = why, lock' = lock,
         Claims(p, why[b]) => lock = b
  PROVE  LockIInv'
<1>1. why[b] \in Reasons /\ why' = [why EXCEPT ![b] = why[b]]
  BY DEF LockIInv, Typed
<1> QED BY <1>1, Moves

(* A call of sync, for a reason that needs no lock or by its owner. *)
LEMMA SyncsKeeps ==
  ASSUME LockIInv, NEW b \in Beats, NEW w \in Reasons, Syncs(b, w),
         w \in {"tick", "plain"} => lock' = b,
         lock' = lock \/ lock = b
  PROVE  LockIInv'
  BY Moves DEF Syncs, Goes, Claims, Places, Reasons

(* The end of a beat. *)
LEMMA GoneKeeps ==
  ASSUME LockIInv, NEW b \in Beats, Gone(b), lock' = lock \/ lock = b
  PROVE  LockIInv'
  BY Moves DEF Gone, Goes, Claims, Places, Reasons

(* The end of a tick. *)
LEMMA RestsKeeps ==
  ASSUME LockIInv, NEW b \in Beats, Rests(b), pc[b] = "work", lock' = lock
  PROVE  LockIInv'
<1>1. lock = b
  BY DEF LockIInv, Claims
<1>2. CASE Goes(b, "tick") /\ UNCHANGED <<why, frames>>
  BY <1>1, <1>2, MovesOn DEF Goes, Places, Reasons
<1>3. CASE Syncs(b, "plain")
  BY <1>1, <1>3, SyncsKeeps DEF Places, Reasons
<1> QED BY <1>2, <1>3 DEF Rests

(* A return from sync keeps a beat on its side of the lock. *)
LEMMA ReturnKeeps ==
  ASSUME LockIInv, NEW b \in Beats, NEW fs, Returns(b, fs), pc[b] \in {"pop", "save", "reload"},
         lock' = lock
  PROVE  LockIInv'
<1>1. CASE Len(fs) > 1 \/ why[b] \in {"setup", "tick"}
  <2>1. pc' = [pc EXCEPT ![b] = "reload"] /\ why' = why
    BY <1>1 DEF Returns, Goes
  <2>2. Claims("reload", why[b]) => lock = b
    BY DEF LockIInv, Claims
  <2> QED BY <2>1, <2>2, MovesOn DEF Places, Reasons
<1>2. CASE ~(Len(fs) > 1 \/ why[b] \in {"setup", "tick"}) /\ why[b] = "plain"
  <2>1. pc' = [pc EXCEPT ![b] = "tick"] /\ why' = why
    BY <1>2 DEF Returns, Goes
  <2>2. lock = b
    BY <1>2 DEF LockIInv, Claims
  <2> QED BY <2>1, <2>2, MovesOn DEF Places, Reasons
<1>3. CASE ~(Len(fs) > 1 \/ why[b] \in {"setup", "tick"}) /\ why[b] = "final"
  <2>1. Syncs(b, "exit")
    BY <1>3 DEF Returns
  <2> QED BY <2>1, SyncsKeeps DEF Places, Reasons
<1>4. CASE ~(Len(fs) > 1 \/ why[b] \in {"setup", "tick"}) /\ why[b] \notin {"plain", "final"}
  BY <1>4, GoneKeeps DEF Returns
<1> QED BY <1>1, <1>2, <1>3, <1>4

(* Setting up, whatever it finds, claims nothing. *)
LEMMA SetupKeeps ==
  ASSUME LockIInv, NEW b \in Beats, SetupStep(b)
  PROVE  LockIInv'
<1>1. CASE \E t \in Tasks : SetupRead(b, t)
  BY <1>1, StaysPut DEF SetupRead
<1>2. CASE SetupWrite(b)
  <2>1. UNCHANGED <<lock, pc, why>>
    BY <1>2 DEF SetupWrite
  <2> QED BY <2>1, StaysPut
<1>3. CASE SetupFails(b)
  BY <1>3, GoneKeeps DEF SetupFails
<1>4. CASE SetupLook(b)
  <2>1. CASE Changed(b)
    BY <1>4, <2>1, SyncsKeeps DEF SetupLook, Places, Reasons
  <2>2. CASE ~Changed(b)
    <3>1. pc' = [pc EXCEPT ![b] = "merge"] /\ why' = why /\ lock' = lock
      BY <1>4, <2>2 DEF SetupLook, Goes
    <3> QED BY <3>1, MovesOn DEF Claims, Places, Reasons
  <2> QED BY <2>1, <2>2
<1>5. CASE Merge(b)
  <2>1. /\ pc' = [pc EXCEPT ![b] = "wait"] \/ pc' = [pc EXCEPT ![b] = "setup"]
        /\ why' = why /\ lock' = lock
    BY <1>5 DEF Merge, Goes
  <2> QED BY <2>1, MovesOn DEF Claims, Places, Reasons
<1> QED BY <1>1, <1>2, <1>3, <1>4, <1>5 DEF SetupStep

(* Inside sync a beat stays on the side of the lock it was called on. *)
LEMMA SyncKeeps ==
  ASSUME LockIInv, NEW b \in Beats, SyncStep(b)
  PROVE  LockIInv'
<1>1. CASE Pop(b)
  <2>1. /\ pc[b] = "pop" /\ lock' = lock /\ why' = why
        /\ pc' = pc \/ pc' = [pc EXCEPT ![b] = "save"]
    BY <1>1 DEF Pop, Goes
  <2>2. Claims("save", why[b]) => lock = b
    BY <2>1 DEF LockIInv, Claims
  <2> QED BY <2>1, <2>2, MovesOn, StaysPut DEF Places, Reasons
<1>2. CASE SyncEnds(b)
  BY <1>2, ReturnKeeps DEF SyncEnds
<1>3. CASE Save(b) \/ SaveMissing(b)
  <2>1. pc[b] = "save" /\ why' = why /\ lock' = lock /\ pc' = [pc EXCEPT ![b] = "pop"]
    BY <1>3 DEF Save, SaveMissing, Goes
  <2>2. Claims("pop", why[b]) => lock = b
    BY <2>1 DEF LockIInv, Claims
  <2> QED BY <2>1, <2>2, MovesOn DEF Places, Reasons
<1>4. CASE Reload(b)
  <2> DEFINE to == IF Outer(b) # <<>> THEN "save" ELSE IF why[b] = "tick" THEN "look" ELSE "merge"
  <2>1. pc[b] = "reload" /\ why' = why /\ lock' = lock /\ pc' = [pc EXCEPT ![b] = to]
    BY <1>4 DEF Reload, Goes
  <2>2. Claims(to, why[b]) => lock = b
    BY <2>1 DEF LockIInv, Claims
  <2> QED BY <2>1, <2>2, MovesOn DEF Places, Reasons
<1> QED BY <1>1, <1>2, <1>3, <1>4 DEF SyncStep

(* In the loop, only Acquire starts a claim, when nobody owns the lock. *)
LEMMA LoopKeeps ==
  ASSUME LockIInv, NEW b \in Beats, LoopStep(b)
  PROVE  LockIInv'
<1>1. CASE Acquire(b)
  <2>1. pc' = [pc EXCEPT ![b] = "tick"] /\ why' = why /\ lock = None /\ lock' = b
    BY <1>1 DEF Acquire, Goes
  <2>2. why[b] \in Reasons /\ why' = [why EXCEPT ![b] = why[b]]
    BY <2>1 DEF LockIInv, Typed
  <2>3. lock \notin Beats
    BY <2>1, BeatAssumption
  <2> QED BY <2>1, <2>2, <2>3, Moves DEF Places, Reasons
<1>2. CASE Extend(b)
  <2>1. lock = b
    BY <1>2 DEF Extend, LockIInv, Claims
  <2>2. pc' = [pc EXCEPT ![b] = "look"] /\ why' = why /\ lock' = lock
    BY <1>2, <2>1 DEF Extend, Goes
  <2> QED BY <2>1, <2>2, MovesOn DEF Places, Reasons
<1>3. CASE TickLook(b)
  <2>1. lock = b /\ lock' = lock
    BY <1>3 DEF TickLook, LockIInv, Claims
  <2>2. CASE Changed(b)
    <3>1. Syncs(b, "tick")
      BY <1>3, <2>2 DEF TickLook
    <3> QED BY <2>1, <3>1, SyncsKeeps DEF Places, Reasons
  <2>3. CASE ~Changed(b)
    <3>1. pc' = [pc EXCEPT ![b] = "work"] /\ why' = why
      BY <1>3, <2>3 DEF TickLook, Goes
    <3> QED BY <2>1, <3>1, MovesOn DEF Places, Reasons
  <2> QED BY <2>2, <2>3
<1>4. CASE Idle(b)
  BY <1>4, RestsKeeps DEF Idle
<1>5. CASE Close(b)
  <2>1. Syncs(b, "final") /\ (lock' = lock \/ lock = b)
    BY <1>5 DEF Close
  <2> QED BY <2>1, SyncsKeeps DEF Places, Reasons
<1>6. ASSUME NEW t \in Tasks, Run(b, t) PROVE LockIInv'
  <2>1. pc[b] = "work" /\ Rests(b) /\ lock' = lock
    BY <1>6 DEF Run, Due
  <2> QED BY <2>1, RestsKeeps
<1>7. ASSUME NEW t \in Tasks, OneOffReset(b, t) PROVE LockIInv'
  <2>1. pc[b] = "work" /\ Rests(b) /\ lock' = lock
    BY <1>7 DEF OneOffReset, Due
  <2> QED BY <2>1, RestsKeeps
<1> QED BY <1>1, <1>2, <1>3, <1>4, <1>5, <1>6, <1>7 DEF LoopStep

(* A beat that fails lets go of the lock or keeps it to close. *)
LEMMA FaultKeeps ==
  ASSUME LockIInv, NEW b \in Beats, FaultStep(b), Late = FALSE
  PROVE  LockIInv'
<1>1. CASE SaveFails(b)
  BY <1>1, ReturnKeeps DEF SaveFails
<1>2. CASE ReloadFails(b)
  <2>1. pc[b] = "reload" /\ lock' = lock
    BY <1>2 DEF ReloadFails
  <2>2. CASE Outer(b) # <<>>
    BY <1>2, <2>1, <2>2, ReturnKeeps DEF ReloadFails
  <2>3. CASE Outer(b) = <<>> /\ why[b] = "tick"
    <3>1. lock = b
      BY <2>1, <2>3 DEF LockIInv, Claims
    <3>2. pc' = [pc EXCEPT ![b] = "close"] /\ why' = why
      BY <1>2, <2>3 DEF ReloadFails, Goes
    <3> QED BY <2>1, <3>1, <3>2, MovesOn DEF Places, Reasons
  <2>4. CASE Outer(b) = <<>> /\ why[b] # "tick"
    BY <1>2, <2>1, <2>4, GoneKeeps DEF ReloadFails
  <2> QED BY <2>2, <2>3, <2>4
<1>3. CASE CloseFails(b)
  BY <1>3 DEF CloseFails
<1>4. CASE Crash(b)
  <2>1. Gone(b) /\ (lock' = lock \/ lock = b)
    BY <1>4 DEF Crash
  <2> QED BY <2>1, GoneKeeps
<1>5. ASSUME NEW t \in Tasks, ResetFails(b, t) PROVE LockIInv'
  <2>1. pc[b] = "work" /\ why' = why /\ lock' = lock /\ pc' = [pc EXCEPT ![b] = "close"]
    BY <1>5 DEF ResetFails, Due, Goes
  <2>2. lock = b
    BY <2>1 DEF LockIInv, Claims
  <2> QED BY <2>1, <2>2, MovesOn DEF Places, Reasons
<1> QED BY <1>1, <1>2, <1>3, <1>4, <1>5 DEF FaultStep

(* Steps of administrators and of the clock. *)
LEMMA OthersKeep ==
  ASSUME LockIInv,
         \/ \E a \in Admins : AdminStep(a)
         \/ \E s \in notices : Publish(s)
         \/ Tick
  PROVE  LockIInv'
<1>1. ASSUME NEW a \in Admins, AdminStep(a) PROVE UNCHANGED <<lock, pc, why>>
  BY <1>1 DEF AdminStep, Read, Flush, Commit, Abort, beatVars
<1>2. CASE (\E s \in notices : Publish(s)) \/ Tick
  BY <1>2, StaysPut DEF Publish, Tick, beatVars
<1> QED BY <1>1, <1>2, StaysPut

(* The invariant is inductive. *)
LEMMA LockInductive ==
  ASSUME LockIInv, [Next]_vars, Late = FALSE
  PROVE  LockIInv'
<1>1. CASE (\E a \in Admins : AdminStep(a)) \/ (\E s \in notices : Publish(s)) \/ Tick
  BY <1>1, OthersKeep
<1>2. ASSUME NEW b \in Beats, BeatStep(b) PROVE LockIInv'
  BY <1>2, SetupKeeps, SyncKeeps, LoopKeeps DEF BeatStep
<1>3. ASSUME NEW b \in Beats, Start(b) PROVE LockIInv'
  <2>1. pc' = [pc EXCEPT ![b] = "setup"] /\ why' = why /\ lock' = lock
    BY <1>3 DEF Start, Goes
  <2> QED BY <2>1, MovesOn DEF Claims, Places, Reasons
<1>4. ASSUME NEW b \in Beats, Stop(b) PROVE LockIInv'
  <2>1. lock = b /\ why' = why /\ lock' = lock /\ pc' = [pc EXCEPT ![b] = "close"]
    BY <1>4 DEF Stop, Goes, LockIInv, Claims
  <2> QED BY <2>1, MovesOn DEF Places, Reasons
<1>5. ASSUME NEW b \in Beats, FaultStep(b) PROVE LockIInv'
  BY <1>5, FaultKeeps
<1>6. CASE Expire
  <2>1. lock \notin Beats /\ UNCHANGED <<pc, why>>
    BY <1>6, BeatAssumption DEF Expire, beatVars
  <2> QED BY <2>1 DEF LockIInv, Typed, Claims
<1>7. CASE UNCHANGED vars
  BY <1>7, StaysPut DEF vars, beatVars
<1> QED BY <1>1, <1>2, <1>3, <1>4, <1>5, <1>6, <1>7 DEF Next

(* Who runs tasks, or is about to release the lock, owns it, for any        *)
(* number of beats and tasks, if no beat outstays its lock.                *)
THEOREM OwnerRuns ==
  ASSUME Late = FALSE
  PROVE  Spec => []LockInv
<1>1. Init => LockIInv
  BY DEF Init, LockIInv, Typed, Claims, Places, Reasons
<1>2. LockIInv /\ [Next]_vars => LockIInv'
  BY LockInductive
<1>3. LockIInv => LockInv
  BY DEF LockIInv, LockInv, Running, Claims
<1> QED BY <1>1, <1>2, <1>3, PTL DEF Spec

(* At most one beat runs tasks (acquire_distributed_beat_lock, tick and     *)
(* close, schedulers.py:349-365 and 439-460).                              *)
THEOREM OneBeatRuns ==
  ASSUME Late = FALSE
  PROVE  Spec => []SoleBeat
<1>1. LockInv => SoleBeat
  BY DEF LockInv, SoleBeat
<1> QED BY <1>1, OwnerRuns, PTL

-----------------------------------------------------------------------------
(***************************************************************************)
(* Types.  BeatInv says what TypeOK needs: a row being flushed is as it    *)
(* was read, and every call of sync but the innermost has a name to save.  *)
(***************************************************************************)
Good == TypeOK /\ BeatInv

LEMMA Remainders ==
  ASSUME NEW t \in Nat, NEW s \in Nat \ {0}
  PROVE  t % s \in 0 .. t
  OBVIOUS

LEMMA ToStrIsStamp ==
  ASSUME TypeOK
  PROVE  now \in Stamps /\ ToStr(now) \in Stamps
<1>1. now \in Nat /\ now <= MaxTime /\ Sub \in Nat \ {0}
  BY BeatAssumption DEF TypeOK, Stamps
<1>2. now % Sub \in 0 .. now
  BY <1>1, Remainders
<1> QED BY <1>1, <1>2, BeatAssumption DEF Stamps, ToStr

\* administrators
LEMMA ReadTypes ==
  ASSUME Good, NEW a \in Admins, NEW op \in Ops, NEW t \in Tasks, NEW edit \in Edits,
         Read(a, op, t, edit)
  PROVE  TypeOK'
  BY DEF Good, TypeOK, Requests, Read, beatVars

LEMMA FlushTypes ==
  ASSUME Good, NEW a \in Admins, Flush(a)
  PROVE  TypeOK'
<1>1. notices' \subseteq Stamps
  BY ToStrIsStamp DEF Good, TypeOK, Flush
<1>2. CASE tx[a].op = "create"
  <2>1. tx[a] \in Requests /\ tx[a].edit \in Edits /\ nextId \in 1 .. MaxId
    BY <1>2 DEF Good, TypeOK, Flush, Applies, Requests
  <2>2. NewRow(tx[a].edit) \in Rows
    BY <2>1, BeatAssumption DEF NewRow, Rows
  <2>3. /\ tx' = [tx EXCEPT ![a] = [tx[a] EXCEPT !.pc = "flushed", !.row = NewRow(tx[a].edit)]]
        /\ nextId' = nextId + 1
    BY <1>2 DEF Flush
  <2>4. [tx[a] EXCEPT !.pc = "flushed", !.row = NewRow(tx[a].edit)] \in Requests
    BY <2>1, <2>2 DEF Requests
  <2>5. tx' \in [Admins -> Requests]
    BY <2>3, <2>4 DEF Good, TypeOK
  <2>6. nextId' \in 1 .. MaxId + 1
    BY <2>1, <2>3, BeatAssumption
  <2> QED BY <1>1, <2>5, <2>6 DEF Good, TypeOK, Flush, beatVars
<1>3. CASE tx[a].op # "create"
  <2>1. tx' = [tx EXCEPT ![a] = [tx[a] EXCEPT !.pc = "flushed"]] /\ nextId' = nextId
    BY <1>3 DEF Flush
  <2>2. [tx[a] EXCEPT !.pc = "flushed"] \in Requests
    <3>1. tx[a] \in Requests
      BY DEF Good, TypeOK
    <3> QED BY <3>1 DEF Requests
  <2>3. tx' \in [Admins -> Requests]
    BY <2>1, <2>2 DEF Good, TypeOK
  <2> QED BY <1>1, <2>1, <2>3 DEF Good, TypeOK, Flush, beatVars
<1> QED BY <1>2, <1>3

LEMMA NoTxTyped == NoTx \in Requests
  BY BeatAssumption DEF NoTx, Requests, Edits

LEMMA ResultTyped ==
  ASSUME Good, NEW a \in Admins, tx[a].pc = "flushed"
  PROVE  Result(tx[a]) \in Rows \cup {None}
<1>1. tx[a] \in Requests /\ tx[a].task \in Tasks /\ tx[a].row \in Rows /\ tx[a].op \in Ops
  BY DEF Good, TypeOK, BeatInv, RequestsInv
<1>2. tx[a].op # "create" => rows[tx[a].task] \in Rows
  BY <1>1 DEF Good, TypeOK, BeatInv, RequestsInv, Same
<1> QED BY <1>1, <1>2, BeatAssumption DEF Result, Rows, Requests

LEMMA CommitTypes ==
  ASSUME Good, NEW a \in Admins, Commit(a)
  PROVE  TypeOK'
<1>1. rows' \in [Tasks -> Rows \cup {None}]
  BY ResultTyped DEF Good, TypeOK, Commit
<1>2. tx' \in [Admins -> Requests]
  BY NoTxTyped DEF Good, TypeOK, Commit
<1>3. fired' \in [OneOff -> 0 .. 2]
  BY DEF Good, TypeOK, Commit
<1> QED BY <1>1, <1>2, <1>3 DEF Good, TypeOK, Commit, beatVars

LEMMA AbortTypes ==
  ASSUME Good, NEW a \in Admins, Abort(a)
  PROVE  TypeOK'
  BY NoTxTyped DEF Good, TypeOK, Abort, beatVars

LEMMA ClockTypes ==
  ASSUME Good, (\E s \in notices : Publish(s)) \/ Tick \/ Expire
  PROVE  TypeOK'
<1>1. CASE \E s \in notices : Publish(s)
  BY <1>1 DEF Good, TypeOK, Publish, beatVars
<1>2. CASE Tick
  <2>1. now' \in Stamps
    BY <1>2, BeatAssumption DEF Good, TypeOK, Tick, Stamps
  <2> QED BY <1>2, <2>1 DEF Good, TypeOK, Tick, beatVars
<1>3. CASE Expire
  BY <1>3 DEF Good, TypeOK, Expire, beatVars
<1> QED BY <1>1, <1>2, <1>3

-----------------------------------------------------------------------------
\* values
LEMMA EmptyTyped ==
  /\ NoEntries \in [Tasks -> Entries \cup {None}]
  /\ Frame \in Frames
  /\ <<Frame>> \in Seq(Frames) /\ <<>> \in Seq(Frames)
  /\ NoSetup \in Setups
<1>1. NoEntries \in [Tasks -> Entries \cup {None}]
  BY DEF NoEntries
<1>2. Frame \in Frames
  BY DEF Frame, Frames
<1>3. <<Frame>> \in Seq(Frames) /\ <<>> \in Seq(Frames)
  BY <1>2
<1>4. <<>> \in Seq(SUBSET Tasks)
  OBVIOUS
<1>5. NoSetup \in Setups
  BY <1>1, <1>4 DEF NoSetup, Setups
<1> QED BY <1>1, <1>2, <1>3, <1>5

LEMMA EntryTyped ==
  ASSUME NEW row \in Rows
  PROVE  Entry(row) \in Entries
  BY DEF Rows, Entries, Entry

LEMMA EnabledTyped ==
  ASSUME TypeOK
  PROVE  EnabledEntries \in [Tasks -> Entries \cup {None}]
  BY EntryTyped DEF TypeOK, EnabledEntries

LEMMA GoneTypes ==
  ASSUME TypeOK, NEW b \in Beats, Gone(b)
  PROVE  /\ pc' \in [Beats -> Places] /\ why' \in [Beats -> Reasons]
         /\ frames' \in [Beats -> Seq(Frames)]
         /\ copy' \in [Beats -> [Tasks -> Entries \cup {None}]]
         /\ dirty' \in [Beats -> SUBSET Tasks]
         /\ seen' \in [Beats -> Stamps \cup {Missing}]
         /\ setup' \in [Beats -> Setups]
  BY EmptyTyped DEF TypeOK, Gone, Goes, Places, Reasons

LEMMA SyncsTypes ==
  ASSUME TypeOK, NEW b \in Beats, NEW w \in Reasons, Syncs(b, w)
  PROVE  /\ pc' \in [Beats -> Places] /\ why' \in [Beats -> Reasons]
         /\ frames' \in [Beats -> Seq(Frames)]
  BY EmptyTyped DEF TypeOK, Syncs, Goes, Places

LEMMA RestsTypes ==
  ASSUME TypeOK, NEW b \in Beats, Rests(b)
  PROVE  /\ pc' \in [Beats -> Places] /\ why' \in [Beats -> Reasons]
         /\ frames' \in [Beats -> Seq(Frames)]
<1>1. CASE Goes(b, "tick") /\ UNCHANGED <<why, frames>>
  BY <1>1 DEF TypeOK, Goes, Places
<1>2. CASE Syncs(b, "plain")
  BY <1>2, SyncsTypes DEF Reasons
<1> QED BY <1>1, <1>2 DEF Rests

LEMMA LookTypes ==
  ASSUME TypeOK, NEW b \in Beats, Look(b)
  PROVE  notice' \in Stamps \cup {Missing} /\ seen' \in [Beats -> Stamps \cup {Missing}]
  BY ToStrIsStamp DEF TypeOK, Look

\* the stack with the innermost name / failure changed, or another call, is a stack
LEMMA StackTyped ==
  ASSUME NEW fs \in Seq(Frames), fs # <<>>, NEW f \in Frames
  PROVE  /\ fs[Len(fs)] \in Frames
         /\ [fs EXCEPT ![Len(fs)] = f] \in Seq(Frames)
         /\ Append(fs, f) \in Seq(Frames)
         /\ SubSeq(fs, 1, Len(fs) - 1) \in Seq(Frames)
<1>1. Len(fs) \in 1 .. Len(fs) /\ Len(fs) \in Nat
  OBVIOUS
<1>2. [fs EXCEPT ![Len(fs)] = f] \in Seq(Frames)
  BY <1>1
<1>3. SubSeq(fs, 1, Len(fs) - 1) \in Seq(Frames)
  BY <1>1
<1> QED BY <1>1, <1>2, <1>3

LEMMA ReturnsTypes ==
  ASSUME TypeOK, NEW b \in Beats, NEW fs \in Seq(Frames), fs # <<>>, Returns(b, fs)
  PROVE  /\ pc' \in [Beats -> Places] /\ why' \in [Beats -> Reasons]
         /\ frames' \in [Beats -> Seq(Frames)]
         /\ copy' \in [Beats -> [Tasks -> Entries \cup {None}]]
         /\ dirty' \in [Beats -> SUBSET Tasks]
         /\ seen' \in [Beats -> Stamps \cup {Missing}]
         /\ setup' \in [Beats -> Setups]
<1>1. fs[Len(fs)] \in Frames /\ fs[Len(fs)].failed \in SUBSET Tasks
  <2>1. fs[Len(fs)] \in Frames
    BY EmptyTyped, StackTyped
  <2> QED BY <2>1 DEF Frames
<1>2. dirty[b] \cup fs[Len(fs)].failed \in SUBSET Tasks
  BY <1>1 DEF TypeOK
<1>3. CASE Len(fs) > 1 \/ why[b] \in {"setup", "tick"}
  BY <1>2, <1>3 DEF TypeOK, Returns, Goes, Places
<1>4. CASE ~(Len(fs) > 1 \/ why[b] \in {"setup", "tick"}) /\ why[b] = "plain"
  BY <1>2, <1>4, EmptyTyped DEF TypeOK, Returns, Goes, Places
<1>5. CASE ~(Len(fs) > 1 \/ why[b] \in {"setup", "tick"}) /\ why[b] = "final"
  <2>1. Syncs(b, "exit") /\ UNCHANGED <<copy, seen, setup>>
        /\ dirty' = [dirty EXCEPT ![b] = dirty[b] \cup fs[Len(fs)].failed]
    BY <1>5 DEF Returns
  <2> QED BY <1>2, <2>1, SyncsTypes DEF TypeOK, Reasons
<1>6. CASE ~(Len(fs) > 1 \/ why[b] \in {"setup", "tick"}) /\ why[b] \notin {"plain", "final"}
  BY <1>6, GoneTypes DEF Returns
<1> QED BY <1>3, <1>4, <1>5, <1>6

-----------------------------------------------------------------------------
\* beats
LEMMA SetupTyped ==
  ASSUME TypeOK, NEW b \in Beats
  PROVE  /\ setup[b] \in Setups /\ setup[b].groups \in Seq(SUBSET Tasks)
         /\ setup[b].name \in Tasks \cup {None} /\ setup[b].read \in Rows \cup {None}
         /\ setup[b].made \in [Tasks -> Entries \cup {None}]
         /\ copy[b] \in [Tasks -> Entries \cup {None}]
         /\ frames[b] \in Seq(Frames) /\ dirty[b] \subseteq Tasks
<1>1. setup[b] \in Setups
  BY DEF TypeOK
<1> QED BY <1>1 DEF TypeOK, Setups

LEMMA StartTypes ==
  ASSUME Good, NEW b \in Beats, Start(b)
  PROVE  TypeOK'
<1>1. [NoSetup EXCEPT !.groups = <<Defaults, Locals>>] \in Setups
  <2>1. <<Defaults, Locals>> \in Seq(SUBSET Tasks)
    BY BeatAssumption
  <2> QED BY <2>1, EmptyTyped DEF Setups
<1>2. copy' \in [Beats -> [Tasks -> Entries \cup {None}]]
  BY EnabledTyped DEF Good, TypeOK, Start
<1>3. setup' \in [Beats -> Setups] /\ pc' \in [Beats -> Places]
  BY <1>1 DEF Good, TypeOK, Start, Goes, Places
<1> QED BY <1>2, <1>3 DEF Good, TypeOK, Start

LEMMA SetupReadTypes ==
  ASSUME Good, NEW b \in Beats, NEW t \in Tasks, SetupRead(b, t)
  PROVE  TypeOK'
<1>1. rows[t] \in Rows \cup {None}
  BY DEF Good, TypeOK
<1>2. [setup[b] EXCEPT !.name = t, !.read = rows[t]] \in Setups
  BY <1>1, SetupTyped DEF Good, Setups
<1>3. setup' = [setup EXCEPT ![b] = [setup[b] EXCEPT !.name = t, !.read = rows[t]]]
  BY DEF SetupRead
<1>4. setup' \in [Beats -> Setups]
  BY <1>2, <1>3 DEF Good, TypeOK
<1> QED BY <1>4 DEF Good, TypeOK, SetupRead

LEMMA MergedTyped ==
  ASSUME NEW row \in Rows \cup {None}, row = None => NewRow(0) \in Rows
  PROVE  Merged(row) \in Rows
<1>1. CASE row = None
  BY <1>1 DEF Merged
<1>2. CASE row # None
  <2>1. row \in Rows /\ 0 \in Edits /\ 0 \in 0 .. MaxRuns
    BY <1>2, BeatAssumption DEF Edits
  <2>2. [row EXCEPT !.enabled = TRUE, !.edit = 0, !.count = 0] \in Rows
    BY <2>1 DEF Rows
  <2> QED BY <1>2, <2>1, <2>2 DEF Merged
<1> QED BY <1>1, <1>2

LEMMA OverTyped ==
  ASSUME NEW row \in Rows, NEW old, NEW new \in Rows
  PROVE  Over(row, old, new) \in Rows
  BY DEF Over, Rows

LEMMA SetupWriteTypes ==
  ASSUME Good, NEW b \in Beats, SetupWrite(b)
  PROVE  TypeOK'
<1> DEFINE t == setup[b].name
           read == setup[b].read
           new == Merged(read)
           groups == <<Head(setup[b].groups) \ {t}>> \o Tail(setup[b].groups)
           made == [setup[b].made EXCEPT ![t] = IF new.enabled THEN Entry(new) ELSE None]
<1>1. t \in Tasks /\ read \in Rows \cup {None} /\ setup[b].groups # <<>>
  BY SetupTyped DEF Good, SetupWrite, BeatInv, SetupInv
<1>2. read = None => nextId \in 1 .. MaxId
  BY DEF Good, TypeOK, SetupWrite
<1>3. read = None => NewRow(0) \in Rows
  BY <1>2, BeatAssumption DEF NewRow, Rows, Edits
<1>4. new \in Rows
  BY <1>1, <1>3, MergedTyped
<1>5. groups \in Seq(SUBSET Tasks)
  <2>1. /\ Head(setup[b].groups) \in SUBSET Tasks
        /\ Tail(setup[b].groups) \in Seq(SUBSET Tasks)
    BY <1>1, SetupTyped DEF Good
  <2>2. <<Head(setup[b].groups) \ {t}>> \in Seq(SUBSET Tasks)
    BY <2>1
  <2> QED BY <2>1, <2>2
<1>6. made \in [Tasks -> Entries \cup {None}]
  BY <1>1, <1>4, EntryTyped, SetupTyped DEF Good
<1>7. [setup[b] EXCEPT !.groups = groups, !.name = None, !.read = None, !.made = made]
        \in Setups
  BY <1>5, <1>6, SetupTyped DEF Good, Setups
<1>8. setup' = [setup EXCEPT ![b] =
        [setup[b] EXCEPT !.groups = groups, !.name = None, !.read = None, !.made = made]]
  BY DEF SetupWrite
<1>9. setup' \in [Beats -> Setups]
  BY <1>7, <1>8 DEF Good, TypeOK
<1>10. rows' \in [Tasks -> Rows \cup {None}] /\ nextId' \in 1 .. MaxId + 1
       /\ notices' \subseteq Stamps
  <2>1. CASE read = None
    <3>1. /\ rows' = [rows EXCEPT ![t] = new] /\ nextId' = nextId + 1
          /\ notices' = notices \cup {ToStr(now)}
      BY <2>1 DEF SetupWrite
    <3> QED BY <1>1, <1>2, <1>4, <2>1, <3>1, ToStrIsStamp, BeatAssumption DEF Good, TypeOK
  <2>2. CASE read # None /\ new # read
    <3>1. /\ rows' = [rows EXCEPT ![t] = Over(rows[t], read, new)] /\ nextId' = nextId
          /\ notices' = notices \cup {ToStr(now)} /\ rows[t] # None
      BY <2>2 DEF SetupWrite, Same
    <3>2. Over(rows[t], read, new) \in Rows
      BY <1>1, <1>4, <3>1, OverTyped DEF Good, TypeOK
    <3> QED BY <1>1, <3>1, <3>2, ToStrIsStamp DEF Good, TypeOK
  <2>3. CASE read # None /\ new = read
    <3>1. UNCHANGED <<rows, nextId, notices>>
      BY <2>3 DEF SetupWrite
    <3> QED BY <3>1 DEF Good, TypeOK
  <2> QED BY <2>1, <2>2, <2>3
<1> QED BY <1>9, <1>10 DEF Good, TypeOK, SetupWrite

LEMMA SetupLookTypes ==
  ASSUME Good, NEW b \in Beats, SetupLook(b)
  PROVE  TypeOK'
<1>1. notice' \in Stamps \cup {Missing} /\ seen' \in [Beats -> Stamps \cup {Missing}]
  BY LookTypes DEF Good, SetupLook
<1>2. /\ pc' \in [Beats -> Places] /\ why' \in [Beats -> Reasons]
      /\ frames' \in [Beats -> Seq(Frames)]
  <2>1. CASE Changed(b)
    BY <2>1, SyncsTypes DEF Good, SetupLook, Reasons
  <2>2. CASE ~Changed(b)
    BY <2>2 DEF Good, TypeOK, SetupLook, Goes, Places
  <2> QED BY <2>1, <2>2
<1> QED BY <1>1, <1>2 DEF Good, TypeOK, SetupLook

LEMMA MergeTypes ==
  ASSUME Good, NEW b \in Beats, Merge(b)
  PROVE  TypeOK'
<1>1. copy' \in [Beats -> [Tasks -> Entries \cup {None}]]
  <2>1. [t \in Tasks |-> IF setup[b].made[t] # None THEN setup[b].made[t] ELSE copy[b][t]]
          \in [Tasks -> Entries \cup {None}]
    BY SetupTyped DEF Good
  <2> QED BY <2>1 DEF Good, TypeOK, Merge
<1>2. pc' \in [Beats -> Places]
  BY DEF Good, TypeOK, Merge, Goes, Places
<1>3. setup' \in [Beats -> Setups]
  <2>1. setup[b].groups # <<>>
    BY DEF Good, BeatInv, SetupInv, Merge
  <2>2. Tail(setup[b].groups) \in Seq(SUBSET Tasks)
    BY <2>1, SetupTyped DEF Good
  <2>3. [NoSetup EXCEPT !.groups = Tail(setup[b].groups)] \in Setups
    BY <2>2, EmptyTyped DEF Setups
  <2> QED BY <2>3, EmptyTyped DEF Good, TypeOK, Merge
<1> QED BY <1>1, <1>2, <1>3 DEF Good, TypeOK, Merge

LEMMA PopTypes ==
  ASSUME Good, NEW b \in Beats, Pop(b)
  PROVE  TypeOK'
<1>1. frames[b] \in Seq(Frames) /\ frames[b] # <<>>
  BY SetupTyped DEF Good, BeatInv, StackInv, Syncing, Pop
<1>2. PICK t \in dirty[b] :
        LET named == [frames[b] EXCEPT ![Len(frames[b])].name = t] IN
        /\ dirty' = [dirty EXCEPT ![b] = @ \ {t}]
        /\ IF Changed(b)
           THEN frames' = [frames EXCEPT ![b] = Append(named, Frame)] /\ UNCHANGED pc
           ELSE frames' = [frames EXCEPT ![b] = named] /\ Goes(b, "save")
  BY DEF Pop
<1> DEFINE f == [frames[b][Len(frames[b])] EXCEPT !.name = t]
           named == [frames[b] EXCEPT ![Len(frames[b])] = f]
<1>3. t \in Tasks
  BY SetupTyped DEF Good
<1>4. f \in Frames
  <2>1. frames[b][Len(frames[b])] \in Frames
    BY <1>1, EmptyTyped, StackTyped
  <2> QED BY <1>3, <2>1 DEF Frames
<1>5. named \in Seq(Frames) /\ named # <<>>
  BY <1>1, <1>4, StackTyped
<1>6. Append(named, Frame) \in Seq(Frames)
  BY <1>5, EmptyTyped
<1>7. frames' \in [Beats -> Seq(Frames)] /\ pc' \in [Beats -> Places]
      /\ dirty' \in [Beats -> SUBSET Tasks]
  BY <1>2, <1>5, <1>6 DEF Good, TypeOK, Goes, Places
<1>8. notice' \in Stamps \cup {Missing} /\ seen' \in [Beats -> Stamps \cup {Missing}]
  BY LookTypes DEF Good, Pop
<1> QED BY <1>7, <1>8 DEF Good, TypeOK, Pop

LEMMA SyncEndsTypes ==
  ASSUME Good, NEW b \in Beats, SyncEnds(b) \/ SaveFails(b)
  PROVE  TypeOK'
<1>1. frames[b] \in Seq(Frames) /\ frames[b] # <<>> /\ Returns(b, frames[b])
  BY SetupTyped DEF Good, BeatInv, StackInv, Syncing, SyncEnds, SaveFails
<1> QED BY <1>1, ReturnsTypes DEF Good, TypeOK, SyncEnds, SaveFails

LEMMA SaveTypes ==
  ASSUME Good, NEW b \in Beats, Save(b)
  PROVE  TypeOK'
<1> DEFINE t == Top(b).name
           entry == copy[b][t]
<1>1. t \in Tasks /\ entry \in Entries
  BY SetupTyped DEF Good, BeatInv, StackInv, Save
<1>2. rows' \in [Tasks -> Rows \cup {None}] /\ notices' \subseteq Stamps
  <2>1. CASE Same(t, entry)
    <3>1. rows[t] \in Rows
      BY <1>1, <2>1 DEF Good, TypeOK, Same
    <3>2. Saved(rows[t], entry) \in Rows
      BY <1>1, <3>1 DEF Saved, Rows, Entries
    <3>3. rows' = [rows EXCEPT ![t] = Saved(rows[t], entry)]
          /\ notices' \in {notices, notices \cup {ToStr(now)}}
      BY <2>1 DEF Save
    <3> QED BY <1>1, <3>2, <3>3, ToStrIsStamp DEF Good, TypeOK
  <2>2. CASE ~Same(t, entry)
    BY <2>2 DEF Good, TypeOK, Save
  <2> QED BY <2>1, <2>2
<1>3. pc' \in [Beats -> Places]
  BY DEF Good, TypeOK, Save, Goes, Places
<1> QED BY <1>2, <1>3 DEF Good, TypeOK, Save

LEMMA SaveMissingTypes ==
  ASSUME Good, NEW b \in Beats, SaveMissing(b)
  PROVE  TypeOK'
<1>1. frames[b] \in Seq(Frames) /\ frames[b] # <<>> /\ Top(b).name \in Tasks
  BY SetupTyped DEF Good, BeatInv, StackInv, Syncing, SaveMissing
<1> DEFINE f == [Top(b) EXCEPT !.failed = @ \cup {Top(b).name}]
<1>2. f \in Frames
  <2>1. Top(b) \in Frames
    BY <1>1, EmptyTyped, StackTyped DEF Top
  <2> QED BY <1>1, <2>1 DEF Frames
<1>3. frames' = [frames EXCEPT ![b] = [frames[b] EXCEPT ![Len(frames[b])] = f]]
  BY DEF SaveMissing, Top
<1>4. frames' \in [Beats -> Seq(Frames)]
  BY <1>1, <1>2, <1>3, StackTyped DEF Good, TypeOK
<1>5. pc' \in [Beats -> Places]
  BY DEF Good, TypeOK, SaveMissing, Goes, Places
<1> QED BY <1>4, <1>5 DEF Good, TypeOK, SaveMissing

LEMMA OuterTyped ==
  ASSUME Good, NEW b \in Beats, pc[b] \in Syncing
  PROVE  Outer(b) \in Seq(Frames)
<1>1. frames[b] \in Seq(Frames) /\ frames[b] # <<>>
  BY SetupTyped DEF Good, BeatInv, StackInv
<1> QED BY <1>1, EmptyTyped, StackTyped DEF Outer

LEMMA ReloadTypes ==
  ASSUME Good, NEW b \in Beats, Reload(b)
  PROVE  TypeOK'
<1>1. frames' \in [Beats -> Seq(Frames)]
  BY OuterTyped DEF Good, TypeOK, Reload, Syncing
<1>2. copy' \in [Beats -> [Tasks -> Entries \cup {None}]]
  BY EnabledTyped DEF Good, TypeOK, Reload
<1>3. pc' \in [Beats -> Places]
  BY DEF Good, TypeOK, Reload, Goes, Places
<1> QED BY <1>1, <1>2, <1>3 DEF Good, TypeOK, Reload

LEMMA ReloadFailsTypes ==
  ASSUME Good, NEW b \in Beats, ReloadFails(b)
  PROVE  TypeOK'
<1>1. CASE Outer(b) # <<>>
  <2>1. Returns(b, Outer(b)) /\ Outer(b) \in Seq(Frames)
    BY <1>1, OuterTyped DEF ReloadFails, Syncing
  <2> QED BY <1>1, <2>1, ReturnsTypes DEF Good, TypeOK, ReloadFails
<1>2. CASE Outer(b) = <<>> /\ why[b] = "tick"
  <2>1. pc' \in [Beats -> Places] /\ frames' \in [Beats -> Seq(Frames)]
    BY <1>2, EmptyTyped DEF Good, TypeOK, ReloadFails, Goes, Places
  <2> QED BY <1>2, <2>1 DEF Good, TypeOK, ReloadFails
<1>3. CASE Outer(b) = <<>> /\ why[b] # "tick"
  BY <1>3, GoneTypes DEF Good, TypeOK, ReloadFails
<1> QED BY <1>1, <1>2, <1>3

LEMMA LoopTypes ==
  ASSUME Good, NEW b \in Beats,
         Acquire(b) \/ Extend(b) \/ Idle(b) \/ Stop(b) \/ Close(b) \/ CloseFails(b)
  PROVE  TypeOK'
<1>1. CASE Acquire(b) \/ Extend(b) \/ Stop(b)
  BY <1>1 DEF Good, TypeOK, Acquire, Extend, Stop, Goes, Places
<1>2. CASE Idle(b)
  BY <1>2, RestsTypes DEF Good, TypeOK, Idle
<1>3. CASE Close(b)
  BY <1>3, SyncsTypes DEF Good, TypeOK, Close, Reasons
<1>4. CASE CloseFails(b)
  BY <1>4, SyncsTypes DEF Good, TypeOK, CloseFails, Reasons
<1> QED BY <1>1, <1>2, <1>3, <1>4

LEMMA TickLookTypes ==
  ASSUME Good, NEW b \in Beats, TickLook(b)
  PROVE  TypeOK'
<1>1. notice' \in Stamps \cup {Missing} /\ seen' \in [Beats -> Stamps \cup {Missing}]
  BY LookTypes DEF Good, TickLook
<1>2. /\ pc' \in [Beats -> Places] /\ why' \in [Beats -> Reasons]
      /\ frames' \in [Beats -> Seq(Frames)]
  <2>1. CASE Changed(b)
    BY <2>1, SyncsTypes DEF Good, TickLook, Reasons
  <2>2. CASE ~Changed(b)
    BY <2>2 DEF Good, TypeOK, TickLook, Goes, Places
  <2> QED BY <2>1, <2>2
<1> QED BY <1>1, <1>2 DEF Good, TypeOK, TickLook

LEMMA RunTypes ==
  ASSUME Good, NEW b \in Beats, NEW t \in Tasks, Run(b, t)
  PROVE  TypeOK'
<1>1. copy[b] \in [Tasks -> Entries \cup {None}] /\ copy[b][t] \in Entries
  BY SetupTyped DEF Good, Run, Due
<1>2. Counted(copy[b][t]) \in Entries
  <2>1. copy[b][t].count \in 0 .. MaxRuns /\ copy[b][t].count < MaxRuns
    BY <1>1 DEF Entries, Run
  <2>2. copy[b][t].count + 1 \in 0 .. MaxRuns
    BY <2>1, BeatAssumption
  <2> QED BY <1>1, <2>2 DEF Counted, Entries
<1>3. copy' = [copy EXCEPT ![b] = [copy[b] EXCEPT ![t] = Counted(copy[b][t])]]
  BY DEF Run
<1>4. copy' \in [Beats -> [Tasks -> Entries \cup {None}]]
  BY <1>1, <1>2, <1>3 DEF Good, TypeOK
<1>5. dirty' \in [Beats -> SUBSET Tasks]
  BY DEF Good, TypeOK, Run
<1>6. fired' \in [OneOff -> 0 .. 2]
  <2>1. CASE t \in OneOff
    <3>1. fired[t] \in 0 .. 2
      BY <2>1 DEF Good, TypeOK
    <3>2. (IF fired[t] < 2 THEN fired[t] + 1 ELSE 2) \in 0 .. 2
      BY <3>1
    <3> QED BY <2>1, <3>2 DEF Good, TypeOK, Run
  <2>2. CASE t \notin OneOff
    BY <2>2 DEF Good, TypeOK, Run
  <2> QED BY <2>1, <2>2
<1> QED BY <1>4, <1>5, <1>6, RestsTypes DEF Good, TypeOK, Run

LEMMA NoRuns == 0 \in 0 .. MaxRuns
  BY BeatAssumption

LEMMA ResetTypes ==
  ASSUME Good, NEW b \in Beats, NEW t \in Tasks, OneOffReset(b, t) \/ ResetFails(b, t)
  PROVE  TypeOK'
<1> DEFINE entry == copy[b][t]
           new == [Disabled(entry) EXCEPT !.quiet = FALSE]
<1>1. copy[b] \in [Tasks -> Entries \cup {None}] /\ entry \in Entries
  BY SetupTyped DEF Good, OneOffReset, ResetFails, Due
<1>2. new \in Entries
  BY <1>1, NoRuns DEF Disabled, Entries
<1>3. copy' = [copy EXCEPT ![b] = [copy[b] EXCEPT ![t] = new]]
  BY DEF OneOffReset, ResetFails
<1>4. copy' \in [Beats -> [Tasks -> Entries \cup {None}]]
  BY <1>1, <1>2, <1>3 DEF Good, TypeOK
<1>5. CASE ResetFails(b, t)
  BY <1>4, <1>5 DEF Good, TypeOK, ResetFails, Goes, Places
<1>6. CASE OneOffReset(b, t)
  <2>1. rows' \in [Tasks -> Rows \cup {None}] /\ notices' \subseteq Stamps
    <3>1. CASE Same(t, entry)
      <4>1. rows[t] \in Rows
        BY <3>1 DEF Good, TypeOK, Same
      <4>2. Disabled(rows[t]) \in Rows
        BY <4>1, NoRuns DEF Disabled, Rows
      <4>3. rows' = [rows EXCEPT ![t] = Disabled(rows[t])]
            /\ notices' \in {notices, notices \cup {ToStr(now)}}
        BY <1>6, <3>1 DEF OneOffReset
      <4> QED BY <4>2, <4>3, ToStrIsStamp DEF Good, TypeOK
    <3>2. CASE ~Same(t, entry)
      BY <1>6, <3>2 DEF Good, TypeOK, OneOffReset
    <3> QED BY <3>1, <3>2
  <2> QED BY <1>4, <1>6, <2>1, RestsTypes DEF Good, TypeOK, OneOffReset
<1> QED BY <1>5, <1>6

LEMMA CrashTypes ==
  ASSUME Good, NEW b \in Beats, SetupFails(b) \/ Crash(b)
  PROVE  TypeOK'
<1>1. CASE SetupFails(b)
  BY <1>1, GoneTypes DEF Good, TypeOK, SetupFails
<1>2. CASE Crash(b)
  <2>1. lock' \in Beats \cup {None, Orphan}
    BY <1>2 DEF Good, TypeOK, Crash
  <2> QED BY <1>2, <2>1, GoneTypes DEF Good, TypeOK, Crash
<1> QED BY <1>1, <1>2

LEMMA NextTypes ==
  ASSUME Good, [Next]_vars
  PROVE  TypeOK'
<1>1. ASSUME NEW a \in Admins, AdminStep(a) PROVE TypeOK'
  BY <1>1, ReadTypes, FlushTypes, CommitTypes, AbortTypes DEF AdminStep
<1>2. CASE (\E s \in notices : Publish(s)) \/ Expire \/ Tick
  BY <1>2, ClockTypes
<1>3. ASSUME NEW b \in Beats, SetupStep(b) PROVE TypeOK'
  BY <1>3, SetupReadTypes, SetupWriteTypes, CrashTypes, SetupLookTypes, MergeTypes DEF SetupStep
<1>4. ASSUME NEW b \in Beats, SyncStep(b) PROVE TypeOK'
  BY <1>4, PopTypes, SyncEndsTypes, SaveTypes, SaveMissingTypes, ReloadTypes DEF SyncStep
<1>5. ASSUME NEW b \in Beats, LoopStep(b) PROVE TypeOK'
  BY <1>5, LoopTypes, TickLookTypes, RunTypes, ResetTypes DEF LoopStep
<1>6. ASSUME NEW b \in Beats, FaultStep(b) PROVE TypeOK'
  BY <1>6, SyncEndsTypes, ReloadFailsTypes, LoopTypes, CrashTypes, ResetTypes DEF FaultStep
<1>7. ASSUME NEW b \in Beats, Start(b) \/ Stop(b) PROVE TypeOK'
  BY <1>7, StartTypes, LoopTypes
<1>8. CASE UNCHANGED vars
  BY <1>8 DEF Good, TypeOK, vars, beatVars
<1> QED BY <1>1, <1>2, <1>3, <1>4, <1>5, <1>6, <1>7, <1>8 DEF Next, BeatStep

-----------------------------------------------------------------------------
\* requests

LEMMA RequestsFrame ==
  ASSUME RequestsInv, UNCHANGED <<tx, rows>>
  PROVE  RequestsInv'
  BY DEF RequestsInv, Same

\* A row nobody has locked is written.
LEMMA RowWritten ==
  ASSUME Good, NEW t \in Tasks, NEW row, ~RowLocked(t), tx' = tx,
         rows' = [rows EXCEPT ![t] = row]
  PROVE  RequestsInv'
<1>1. ASSUME NEW a \in Admins, tx[a].pc = "flushed" PROVE rows'[tx[a].task] = rows[tx[a].task]
  BY <1>1 DEF Good, TypeOK, RowLocked, BeatInv, RequestsInv
<1> QED BY <1>1 DEF Good, BeatInv, RequestsInv, Same

LEMMA ReadRequests ==
  ASSUME Good, NEW a \in Admins, NEW op \in Ops, NEW t \in Tasks, NEW edit \in Edits,
         Read(a, op, t, edit)
  PROVE  RequestsInv'
<1>1. /\ \A c \in Admins \ {a} : tx'[c] = tx[c]
      /\ tx'[a] = [pc |-> "read", op |-> op, task |-> t, edit |-> edit, row |-> rows[t]]
  BY DEF Good, TypeOK, Read
<1>2. op # "create" => rows[t] \in Rows
  BY DEF Good, TypeOK, Read
<1>3. rows' = rows
  BY DEF Read
<1> QED BY <1>1, <1>2, <1>3 DEF Good, BeatInv, RequestsInv, Same

LEMMA FlushRequests ==
  ASSUME Good, NEW a \in Admins, Flush(a)
  PROVE  RequestsInv'
<1>1. \A c \in Admins \ {a} : tx'[c] = tx[c]
  BY DEF Good, TypeOK, Flush
<1>2. rows' = rows /\ tx[a].pc = "read" /\ Applies(tx[a])
      /\ \A c \in Admins : tx[c].pc = "flushed" => tx[c].task # tx[a].task
  BY DEF Flush, RowLocked
<1>3. tx[a] \in Requests /\ tx[a].op \in Ops /\ tx[a].task \in Tasks
      /\ (tx[a].op # "create" => tx[a].row \in Rows)
  BY <1>2 DEF Good, TypeOK, BeatInv, RequestsInv
<1>4. tx'[a].pc = "flushed" /\ tx'[a].op = tx[a].op /\ tx'[a].task = tx[a].task
      /\ tx'[a].row \in Rows
      /\ (tx[a].op # "create" => tx'[a].row = tx[a].row)
  <2>1. CASE tx[a].op = "create"
    <3>1. tx'[a] = [tx[a] EXCEPT !.pc = "flushed", !.row = NewRow(tx[a].edit)]
      BY <2>1 DEF Good, TypeOK, Flush
    <3>2. nextId \in 1 .. MaxId /\ tx[a].edit \in Edits
      BY <1>2, <1>3, <2>1 DEF Good, TypeOK, Applies, Requests
    <3>3. NewRow(tx[a].edit) \in Rows
      BY <3>2, NoRuns DEF NewRow, Rows
    <3> QED BY <1>3, <2>1, <3>1, <3>3 DEF Requests
  <2>2. CASE tx[a].op # "create"
    <3>1. tx'[a] = [tx[a] EXCEPT !.pc = "flushed"]
      BY <2>2 DEF Good, TypeOK, Flush
    <3> QED BY <1>3, <2>2, <3>1 DEF Requests
  <2> QED BY <2>1, <2>2
<1>5. IF tx'[a].op = "create" THEN rows'[tx'[a].task] = None ELSE Same(tx[a].task, tx[a].row)'
  BY <1>2, <1>4 DEF Applies, Same
<1>6. \A c \in Admins : tx'[c].pc # "idle" => tx'[c].op \in Ops /\ tx'[c].task \in Tasks
  BY <1>1, <1>3, <1>4 DEF Good, BeatInv, RequestsInv
<1>7. \A c \in Admins : tx'[c].pc # "idle" /\ tx'[c].op # "create" => tx'[c].row \in Rows
  BY <1>1, <1>3, <1>4 DEF Good, BeatInv, RequestsInv
<1>8. \A c \in Admins : tx'[c].pc = "flushed" =>
        /\ tx'[c].row \in Rows
        /\ IF tx'[c].op = "create" THEN rows'[tx'[c].task] = None
                                   ELSE Same(tx[c].task, tx[c].row)'
  BY <1>1, <1>2, <1>4, <1>5 DEF Good, BeatInv, RequestsInv, Same
<1>9. \A c, d \in Admins :
        /\ tx'[c].pc = "flushed" /\ tx'[d].pc = "flushed" /\ tx'[c].task = tx'[d].task
        => c = d
  BY <1>1, <1>2, <1>4 DEF Good, BeatInv, RequestsInv
<1> QED BY <1>6, <1>7, <1>8, <1>9 DEF RequestsInv, Same

LEMMA CommitRequests ==
  ASSUME Good, NEW a \in Admins, Commit(a)
  PROVE  RequestsInv'
<1>1. /\ \A c \in Admins \ {a} : tx'[c] = tx[c]
      /\ tx'[a].pc = "idle"
  BY DEF Good, TypeOK, Commit, NoTx
<1>2. ASSUME NEW c \in Admins \ {a}, tx[c].pc = "flushed"
      PROVE  rows'[tx[c].task] = rows[tx[c].task]
  BY <1>2 DEF Good, TypeOK, Commit, BeatInv, RequestsInv
<1> QED BY <1>1, <1>2 DEF Good, BeatInv, RequestsInv, Same

LEMMA AbortRequests ==
  ASSUME Good, NEW a \in Admins, Abort(a)
  PROVE  RequestsInv'
<1>1. /\ \A c \in Admins \ {a} : tx'[c] = tx[c]
      /\ tx'[a].pc = "idle" /\ rows' = rows
  BY DEF Good, TypeOK, Abort, NoTx
<1> QED BY <1>1 DEF Good, BeatInv, RequestsInv, Same

LEMMA BeatRequests ==
  ASSUME Good, NEW b \in Beats, BeatStep(b) \/ Start(b) \/ Stop(b) \/ FaultStep(b)
  PROVE  RequestsInv'
<1>0. RequestsInv
  BY DEF Good, BeatInv
<1>1. CASE SetupWrite(b)
  <2>1. setup[b].name \in Tasks /\ tx' = tx
    BY <1>1, SetupTyped DEF Good, SetupWrite
  <2>2. rows' = rows \/ (~RowLocked(setup[b].name)
                         /\ \E row : rows' = [rows EXCEPT ![setup[b].name] = row])
    BY <1>1 DEF SetupWrite
  <2> QED BY <1>0, <2>1, <2>2, RequestsFrame, RowWritten
<1>2. CASE Save(b)
  <2>1. Top(b).name \in Tasks /\ tx' = tx
    BY <1>2 DEF Good, BeatInv, StackInv, Save
  <2>2. rows' = rows \/ (~RowLocked(Top(b).name)
                         /\ \E row : rows' = [rows EXCEPT ![Top(b).name] = row])
    BY <1>2 DEF Save
  <2> QED BY <1>0, <2>1, <2>2, RequestsFrame, RowWritten
<1>3. ASSUME NEW t \in Tasks, OneOffReset(b, t) PROVE RequestsInv'
  <2>1. tx' = tx /\ (rows' = rows \/ (~RowLocked(t) /\ \E row : rows' = [rows EXCEPT ![t] = row]))
    BY <1>3 DEF OneOffReset
  <2> QED BY <1>0, <2>1, RequestsFrame, RowWritten
<1>4. CASE (\E t \in Tasks : SetupRead(b, t)) \/ SetupFails(b) \/ SetupLook(b) \/ Merge(b)
           \/ Pop(b) \/ SyncEnds(b) \/ SaveMissing(b) \/ Reload(b)
  BY <1>0, <1>4, RequestsFrame
     DEF SetupRead, SetupFails, SetupLook, Merge, Pop, SyncEnds, SaveMissing, Reload
<1>5. CASE Acquire(b) \/ Extend(b) \/ TickLook(b) \/ Idle(b) \/ Close(b)
           \/ (\E t \in Tasks : Run(b, t)) \/ Start(b) \/ Stop(b)
  BY <1>0, <1>5, RequestsFrame
     DEF Acquire, Extend, TickLook, Idle, Close, Run, Start, Stop
<1>6. CASE FaultStep(b)
  BY <1>0, <1>6, RequestsFrame
     DEF FaultStep, SaveFails, ReloadFails, CloseFails, Crash, ResetFails
<1> QED BY <1>1, <1>2, <1>3, <1>4, <1>5, <1>6 DEF BeatStep, SetupStep, SyncStep, LoopStep

LEMMA NextRequests ==
  ASSUME Good, [Next]_vars
  PROVE  RequestsInv'
<1>1. ASSUME NEW a \in Admins, AdminStep(a) PROVE RequestsInv'
  BY <1>1, ReadRequests, FlushRequests, CommitRequests, AbortRequests DEF AdminStep
<1>2. CASE (\E s \in notices : Publish(s)) \/ Expire \/ Tick \/ UNCHANGED vars
  BY <1>2, RequestsFrame DEF Good, BeatInv, Publish, Expire, Tick, vars
<1> QED BY <1>1, <1>2, BeatRequests DEF Next

-----------------------------------------------------------------------------
\* stacks and set-up

\* b's own part is all a step of b can disturb.
Elsewhere(b) == \A c \in Beats \ {b} :
  /\ pc'[c] = pc[c] /\ why'[c] = why[c]
  /\ frames'[c] = frames[c] /\ setup'[c] = setup[c]

Calls == \A b \in Beats : StackInv(b) /\ SetupInv(b)

LEMMA OneBeatMoves ==
  ASSUME Good, NEW b \in Beats, Elsewhere(b), StackInv(b)', SetupInv(b)'
  PROVE  Calls'
  BY DEF Good, BeatInv, Calls, Elsewhere, StackInv, SetupInv, Top

\* Only pc, to a place outside sync.
LEMMA GoesCalls ==
  ASSUME Good, NEW b \in Beats, NEW to, Goes(b, to), UNCHANGED <<why, frames, setup>>,
         to \in {"off", "wait", "tick", "look", "work", "close"}
         \/ (to = "merge" /\ setup[b].groups # <<>>)
  PROVE  Calls'
<1>1. Elsewhere(b) /\ pc'[b] = to
  BY DEF Good, TypeOK, Goes, Elsewhere
<1>2. StackInv(b) /\ SetupInv(b)
  BY DEF Good, BeatInv
<1>3. StackInv(b)'
  BY <1>1, <1>2 DEF StackInv, Syncing
<1>4. SetupInv(b)'
  BY <1>1, <1>2 DEF SetupInv, Syncing
<1> QED BY <1>1, <1>3, <1>4, OneBeatMoves

LEMMA GoneCalls ==
  ASSUME Good, NEW b \in Beats, Gone(b)
  PROVE  Calls'
<1>1. /\ Elsewhere(b) /\ pc'[b] = "off" /\ frames'[b] = <<>>
      /\ setup'[b].name = None /\ setup'[b].groups = <<>>
  BY DEF Good, TypeOK, Gone, Goes, Elsewhere, NoSetup
<1>2. StackInv(b)'
  BY <1>1 DEF StackInv, Syncing
<1>3. SetupInv(b)'
  BY <1>1 DEF SetupInv, Syncing
<1> QED BY <1>1, <1>2, <1>3, OneBeatMoves

LEMMA SyncsCalls ==
  ASSUME Good, NEW b \in Beats, NEW w, Syncs(b, w), setup' = setup,
         w = "setup" => setup[b].groups # <<>>
  PROVE  Calls'
<1>1. Elsewhere(b) /\ pc'[b] = "pop" /\ why'[b] = w /\ frames'[b] = <<Frame>>
  BY DEF Good, TypeOK, Syncs, Goes, Elsewhere
<1>2. SetupInv(b)
  BY DEF Good, BeatInv
<1>3. StackInv(b)'
  BY <1>1 DEF StackInv, Syncing
<1>4. SetupInv(b)'
  BY <1>1, <1>2 DEF SetupInv, Syncing
<1> QED BY <1>1, <1>3, <1>4, OneBeatMoves

LEMMA RestsCalls ==
  ASSUME Good, NEW b \in Beats, Rests(b), setup' = setup
  PROVE  Calls'
  BY GoesCalls, SyncsCalls DEF Rests

LEMMA ReturnsCalls ==
  ASSUME Good, NEW b \in Beats, pc[b] \in Syncing, NEW fs \in Seq(Frames), fs # <<>>,
         \A i \in 1 .. Len(fs) - 1 : fs[i].name \in Tasks, Returns(b, fs)
  PROVE  Calls'
<1>1. CASE Len(fs) > 1 \/ why[b] \in {"setup", "tick"}
  <2>1. /\ Elsewhere(b) /\ pc'[b] = "reload" /\ why'[b] = why[b] /\ frames'[b] = fs
        /\ setup'[b] = setup[b]
    BY <1>1 DEF Good, TypeOK, Returns, Goes, Elsewhere
  <2>2. StackInv(b)'
    BY <1>1, <2>1 DEF StackInv
  <2>3. SetupInv(b)'
    BY <2>1 DEF Good, BeatInv, SetupInv, Syncing
  <2> QED BY <2>1, <2>2, <2>3, OneBeatMoves
<1>2. CASE ~(Len(fs) > 1 \/ why[b] \in {"setup", "tick"}) /\ why[b] = "plain"
  <2>1. /\ Elsewhere(b) /\ pc'[b] = "tick" /\ frames'[b] = <<>> /\ setup'[b] = setup[b]
    BY <1>2 DEF Good, TypeOK, Returns, Goes, Elsewhere
  <2>2. StackInv(b)'
    BY <2>1 DEF StackInv, Syncing
  <2>3. SetupInv(b)'
    BY <2>1 DEF Good, BeatInv, SetupInv, Syncing
  <2> QED BY <2>1, <2>2, <2>3, OneBeatMoves
<1>3. CASE ~(Len(fs) > 1 \/ why[b] \in {"setup", "tick"}) /\ why[b] = "final"
  BY <1>3, SyncsCalls DEF Returns
<1>4. CASE ~(Len(fs) > 1 \/ why[b] \in {"setup", "tick"}) /\ why[b] \notin {"plain", "final"}
  BY <1>4, GoneCalls DEF Returns
<1> QED BY <1>1, <1>2, <1>3, <1>4

LEMMA StartCalls ==
  ASSUME Good, NEW b \in Beats, Start(b)
  PROVE  Calls'
<1>1. /\ Elsewhere(b) /\ pc'[b] = "setup" /\ frames'[b] = frames[b]
      /\ setup'[b] = [NoSetup EXCEPT !.groups = <<Defaults, Locals>>]
  BY DEF Good, TypeOK, Start, Goes, Elsewhere
<1>2. /\ setup'[b].name = None /\ setup'[b].groups # <<>>
      /\ \A t \in Tasks : setup'[b].made[t] = None
      /\ Head(setup'[b].groups) \subseteq Tasks
  BY <1>1, BeatAssumption DEF NoSetup, NoEntries
<1>3. StackInv(b)'
  BY <1>1 DEF Good, BeatInv, StackInv, Syncing
<1>4. SetupInv(b)'
  BY <1>1, <1>2 DEF SetupInv, Syncing
<1> QED BY <1>1, <1>3, <1>4, OneBeatMoves

LEMMA SetupReadCalls ==
  ASSUME Good, NEW b \in Beats, NEW t \in Tasks, SetupRead(b, t)
  PROVE  Calls'
<1>1. /\ Elsewhere(b) /\ pc' = pc /\ why' = why /\ frames' = frames
      /\ setup'[b] = [setup[b] EXCEPT !.name = t, !.read = rows[t]]
  BY DEF Good, TypeOK, SetupRead, Elsewhere
<1>2. /\ setup'[b].name = t /\ setup'[b].groups = setup[b].groups
      /\ setup'[b].made = setup[b].made
  BY <1>1, SetupTyped DEF Good, Setups
<1>3. pc[b] = "setup" /\ t \in Head(setup[b].groups) /\ StackInv(b) /\ SetupInv(b)
  BY DEF SetupRead, Good, BeatInv
<1>4. StackInv(b)'
  BY <1>1, <1>3 DEF StackInv, Top
<1>5. SetupInv(b)'
  BY <1>1, <1>2, <1>3 DEF SetupInv
<1> QED BY <1>1, <1>4, <1>5, OneBeatMoves

LEMMA SetupWriteCalls ==
  ASSUME Good, NEW b \in Beats, SetupWrite(b)
  PROVE  Calls'
<1> DEFINE t == setup[b].name
           groups == <<Head(setup[b].groups) \ {t}>> \o Tail(setup[b].groups)
           new == Merged(setup[b].read)
           made == [setup[b].made EXCEPT ![t] = IF new.enabled THEN Entry(new) ELSE None]
<1>1. /\ Elsewhere(b) /\ pc' = pc /\ why' = why /\ frames' = frames
      /\ setup'[b] = [setup[b] EXCEPT !.groups = groups, !.name = None, !.read = None,
                                      !.made = made]
  BY DEF Good, TypeOK, SetupWrite, Elsewhere
<1>2. /\ setup'[b].name = None /\ setup'[b].groups = groups /\ setup'[b].made = made
  BY <1>1, SetupTyped DEF Good, Setups
<1>3. t \in Tasks /\ pc[b] = "setup" /\ StackInv(b) /\ SetupInv(b) /\ setup[b].groups # <<>>
  BY SetupTyped DEF SetupWrite, Good, BeatInv, SetupInv
<1>4. groups # <<>> /\ Head(groups) = Head(setup[b].groups) \ {t}
  <2>1. Head(setup[b].groups) \ {t} \in SUBSET Tasks /\ Tail(setup[b].groups) \in Seq(SUBSET Tasks)
    BY <1>3, SetupTyped DEF Good
  <2> QED BY <2>1
<1>5. \A u \in Head(groups) : made[u] = None
  BY <1>3, <1>4, SetupTyped DEF Good, SetupInv
<1>6. StackInv(b)'
  BY <1>1, <1>3 DEF StackInv, Top
<1>7. SetupInv(b)'
  BY <1>1, <1>2, <1>4, <1>5 DEF SetupInv
<1> QED BY <1>1, <1>6, <1>7, OneBeatMoves

LEMMA SetupLookCalls ==
  ASSUME Good, NEW b \in Beats, SetupLook(b)
  PROVE  Calls'
<1>1. setup[b].groups # <<>>
  BY DEF Good, BeatInv, SetupInv, SetupLook
<1> QED BY <1>1, GoesCalls, SyncsCalls DEF SetupLook

LEMMA MoreFollow ==
  ASSUME NEW S, NEW gs \in Seq(S), gs # <<>>, Len(gs) # 1
  PROVE  Tail(gs) \in Seq(S) /\ Tail(gs) # <<>>
<1>1. Len(gs) \in Nat /\ Len(gs) # 0
  OBVIOUS
<1>2. Tail(gs) \in Seq(S) /\ Len(Tail(gs)) = Len(gs) - 1
  BY <1>1
<1>3. Len(Tail(gs)) # Len(<<>>)
  BY <1>1, <1>2
<1> QED BY <1>2, <1>3

LEMMA MergeCalls ==
  ASSUME Good, NEW b \in Beats, Merge(b)
  PROVE  Calls'
<1>1. setup[b].groups \in Seq(SUBSET Tasks) /\ setup[b].groups # <<>> /\ StackInv(b)
  BY SetupTyped DEF Good, BeatInv, SetupInv, Merge
<1>2. CASE Len(setup[b].groups) = 1
  <2>1. /\ Elsewhere(b) /\ pc'[b] = "wait" /\ frames' = frames
        /\ setup'[b].name = None /\ setup'[b].groups = <<>>
    BY <1>2 DEF Good, TypeOK, Merge, Goes, Elsewhere, NoSetup
  <2>2. StackInv(b)'
    BY <1>1, <2>1 DEF StackInv, Syncing
  <2>3. SetupInv(b)'
    BY <2>1 DEF SetupInv, Syncing
  <2> QED BY <2>1, <2>2, <2>3, OneBeatMoves
<1>3. CASE Len(setup[b].groups) # 1
  <2>1. /\ Elsewhere(b) /\ pc'[b] = "setup" /\ frames' = frames
        /\ setup'[b].name = None /\ setup'[b].groups = Tail(setup[b].groups)
        /\ setup'[b].made = NoEntries
    BY <1>3 DEF Good, TypeOK, Merge, Goes, Elsewhere, NoSetup
  <2>2. Tail(setup[b].groups) \in Seq(SUBSET Tasks) /\ Tail(setup[b].groups) # <<>>
    BY <1>1, <1>3, MoreFollow
  <2>3. Head(Tail(setup[b].groups)) \subseteq Tasks
    BY <2>2
  <2>4. StackInv(b)'
    BY <1>1, <2>1 DEF StackInv, Syncing
  <2>5. SetupInv(b)'
    BY <2>1, <2>2, <2>3 DEF SetupInv, Syncing, NoEntries
  <2> QED BY <2>1, <2>4, <2>5, OneBeatMoves
<1> QED BY <1>2, <1>3

LEMMA StackFacts ==
  ASSUME Good, NEW b \in Beats, pc[b] \in Syncing
  PROVE  /\ frames[b] \in Seq(Frames) /\ Len(frames[b]) \in Nat \ {0}
         /\ frames[b] # <<>> /\ Top(b) \in Frames
         /\ Outer(b) \in Seq(Frames) /\ Len(Outer(b)) = Len(frames[b]) - 1
         /\ \A i \in 1 .. Len(frames[b]) - 1 :
              Outer(b)[i] = frames[b][i] /\ frames[b][i].name \in Tasks
<1>1. frames[b] \in Seq(Frames) /\ frames[b] # <<>>
  BY SetupTyped DEF Good, BeatInv, StackInv
<1>2. Len(frames[b]) \in Nat \ {0}
  BY <1>1
<1>3. Len(Outer(b)) = Len(frames[b]) - 1
      /\ \A i \in 1 .. Len(frames[b]) - 1 : Outer(b)[i] = frames[b][i]
  BY <1>1, <1>2 DEF Outer
<1>4. Top(b) \in Frames
  BY <1>1, <1>2 DEF Top
<1> QED BY <1>1, <1>2, <1>3, <1>4, OuterTyped DEF Good, BeatInv, StackInv

LEMMA PopCalls ==
  ASSUME Good, NEW b \in Beats, Pop(b)
  PROVE  Calls'
<1>1. PICK t \in dirty[b] :
        LET named == [frames[b] EXCEPT ![Len(frames[b])].name = t] IN
        IF Changed(b)
        THEN frames' = [frames EXCEPT ![b] = Append(named, Frame)] /\ UNCHANGED pc
        ELSE frames' = [frames EXCEPT ![b] = named] /\ Goes(b, "save")
  BY DEF Pop
<1> DEFINE n == Len(frames[b])
           named == [frames[b] EXCEPT ![n] = [Top(b) EXCEPT !.name = t]]
<1>2. t \in Tasks /\ pc[b] \in Syncing /\ pc[b] = "pop"
  BY SetupTyped DEF Good, Pop, Syncing
<1>3. [Top(b) EXCEPT !.name = t] \in Frames /\ [Top(b) EXCEPT !.name = t].name = t
  BY <1>2, StackFacts DEF Frames
<1>4. /\ named \in Seq(Frames) /\ Len(named) = n /\ n \in Nat \ {0}
      /\ \A i \in 1 .. n : named[i].name \in Tasks
  <2>1. named \in Seq(Frames) /\ Len(named) = n /\ named[n].name = t
    BY <1>2, <1>3, StackFacts
  <2>2. \A i \in 1 .. n - 1 : named[i] = frames[b][i]
    BY <1>2, StackFacts
  <2>3. \A i \in 1 .. n - 1 : named[i].name \in Tasks
    BY <1>2, <2>2, StackFacts
  <2>4. n \in Nat \ {0} /\ \A i \in 1 .. n : i \in 1 .. n - 1 \/ i = n
    BY <1>2, StackFacts
  <2> QED BY <1>2, <2>1, <2>3, <2>4
<1>5. SetupInv(b)
  BY DEF Good, BeatInv
<1>6. CASE Changed(b)
  <2>1. /\ Elsewhere(b) /\ pc'[b] = "pop" /\ why' = why /\ setup' = setup
        /\ frames'[b] = Append(named, Frame)
    BY <1>1, <1>2, <1>6 DEF Good, TypeOK, Pop, Elsewhere, Top
  <2>2. /\ Len(frames'[b]) = n + 1 /\ frames'[b] # <<>>
        /\ \A i \in 1 .. n : frames'[b][i] = named[i]
    BY <1>4, <2>1, EmptyTyped
  <2>3. \A i \in 1 .. Len(frames'[b]) - 1 : frames'[b][i].name \in Tasks
    <3>1. Len(frames'[b]) - 1 = n
      BY <1>4, <2>2
    <3> QED BY <1>4, <2>2, <3>1
  <2>4. StackInv(b)'
    BY <2>1, <2>2, <2>3 DEF StackInv
  <2>5. SetupInv(b)'
    BY <1>2, <1>5, <2>1 DEF SetupInv
  <2> QED BY <2>1, <2>4, <2>5, OneBeatMoves
<1>7. CASE ~Changed(b)
  <2>1. /\ Elsewhere(b) /\ pc'[b] = "save" /\ why' = why /\ setup' = setup
        /\ frames'[b] = named
    BY <1>1, <1>7 DEF Good, TypeOK, Pop, Goes, Elsewhere, Top
  <2>2. frames'[b] # <<>> /\ Top(b)'.name \in Tasks
        /\ \A i \in 1 .. Len(frames'[b]) - 1 : frames'[b][i].name \in Tasks
    BY <1>4, <2>1 DEF Top
  <2>3. StackInv(b)'
    BY <2>1, <2>2 DEF StackInv
  <2>4. SetupInv(b)'
    BY <1>2, <1>5, <2>1 DEF SetupInv, Syncing
  <2> QED BY <2>1, <2>3, <2>4, OneBeatMoves
<1> QED BY <1>6, <1>7

LEMMA SyncEndsCalls ==
  ASSUME Good, NEW b \in Beats, SyncEnds(b) \/ SaveFails(b)
  PROVE  Calls'
<1>1. pc[b] \in Syncing /\ Returns(b, frames[b])
  BY DEF SyncEnds, SaveFails, Syncing
<1> QED BY <1>1, StackFacts, ReturnsCalls

LEMMA SavedCalls ==
  ASSUME Good, NEW b \in Beats, Save(b) \/ SaveMissing(b)
  PROVE  Calls'
<1>1. /\ Elsewhere(b) /\ pc[b] \in Syncing /\ pc'[b] = "pop" /\ why' = why /\ setup' = setup
      /\ pc[b] = "save"
  BY DEF Good, TypeOK, Save, SaveMissing, Goes, Elsewhere, Syncing
<1>2. /\ Len(frames'[b]) = Len(frames[b])
      /\ \A i \in 1 .. Len(frames[b]) - 1 : frames'[b][i] = frames[b][i]
  <2>1. CASE Save(b)
    BY <2>1 DEF Save
  <2>2. CASE SaveMissing(b)
    <3>1. frames'[b] = [frames[b] EXCEPT ![Len(frames[b])].failed = @ \cup {Top(b).name}]
      BY <2>2 DEF Good, TypeOK, SaveMissing
    <3> QED BY <1>1, <3>1, StackFacts
  <2> QED BY <2>1, <2>2
<1>3. frames'[b] # <<>>
  BY <1>1, <1>2, StackFacts
<1>4. StackInv(b)'
  BY <1>1, <1>2, <1>3, StackFacts DEF StackInv
<1>5. SetupInv(b)'
  BY <1>1 DEF Good, BeatInv, SetupInv, Syncing
<1> QED BY <1>1, <1>4, <1>5, OneBeatMoves

LEMMA ReloadCalls ==
  ASSUME Good, NEW b \in Beats, Reload(b)
  PROVE  Calls'
<1>1. /\ Elsewhere(b) /\ pc[b] \in Syncing /\ why' = why /\ setup' = setup
      /\ frames'[b] = Outer(b) /\ StackInv(b) /\ SetupInv(b) /\ pc[b] = "reload"
  BY DEF Good, TypeOK, BeatInv, Reload, Goes, Elsewhere, Syncing
<1>2. Len(frames[b]) \in Nat \ {0} /\ Len(Outer(b)) = Len(frames[b]) - 1
      /\ Outer(b) \in Seq(Frames)
      /\ \A i \in 1 .. Len(Outer(b)) : Outer(b)[i].name \in Tasks
  BY <1>1, StackFacts
<1>3. CASE Outer(b) # <<>>
  <2>1. pc'[b] = "save"
    BY <1>3 DEF Good, TypeOK, Reload, Goes
  <2>2. Len(Outer(b)) \in 1 .. Len(Outer(b))
    BY <1>2, <1>3
  <2>3. Top(b)'.name \in Tasks /\ \A i \in 1 .. Len(frames'[b]) - 1 : frames'[b][i].name \in Tasks
    BY <1>1, <1>2, <2>2 DEF Top
  <2>4. StackInv(b)'
    BY <1>1, <1>3, <2>1, <2>3 DEF StackInv
  <2>5. SetupInv(b)'
    BY <1>1, <2>1 DEF SetupInv, Syncing
  <2> QED BY <1>1, <2>4, <2>5, OneBeatMoves
<1>4. CASE Outer(b) = <<>>
  <2>1. why[b] \in {"setup", "tick"}
    BY <1>1, <1>2, <1>4 DEF StackInv
  <2>2. pc'[b] = IF why[b] = "tick" THEN "look" ELSE "merge"
    BY <1>4 DEF Good, TypeOK, Reload, Goes
  <2>3. StackInv(b)'
    BY <1>1, <1>4, <2>2 DEF StackInv, Syncing
  <2>4. SetupInv(b)'
    BY <1>1, <2>1, <2>2 DEF SetupInv, Syncing
  <2> QED BY <1>1, <2>3, <2>4, OneBeatMoves
<1> QED BY <1>3, <1>4

LEMMA ReloadFailsCalls ==
  ASSUME Good, NEW b \in Beats, ReloadFails(b)
  PROVE  Calls'
<1>1. CASE Outer(b) # <<>>
  <2>1. pc[b] \in Syncing /\ Returns(b, Outer(b))
    BY <1>1 DEF ReloadFails, Syncing
  <2>2. \A i \in 1 .. Len(Outer(b)) - 1 : Outer(b)[i].name \in Tasks
    BY <2>1, StackFacts
  <2> QED BY <1>1, <2>1, <2>2, StackFacts, ReturnsCalls
<1>2. CASE Outer(b) = <<>> /\ why[b] = "tick"
  <2>1. /\ Elsewhere(b) /\ pc'[b] = "close" /\ why' = why /\ setup' = setup
        /\ frames'[b] = <<>> /\ SetupInv(b)
    BY <1>2 DEF Good, TypeOK, BeatInv, ReloadFails, Goes, Elsewhere
  <2>2. StackInv(b)'
    BY <2>1 DEF StackInv, Syncing
  <2>3. SetupInv(b)'
    BY <2>1 DEF SetupInv, Syncing
  <2> QED BY <2>1, <2>2, <2>3, OneBeatMoves
<1>3. CASE Outer(b) = <<>> /\ why[b] # "tick"
  BY <1>3, GoneCalls DEF ReloadFails
<1> QED BY <1>1, <1>2, <1>3

LEMMA LoopCalls ==
  ASSUME Good, NEW b \in Beats, LoopStep(b) \/ Stop(b)
  PROVE  Calls'
<1>1. CASE Acquire(b) \/ Extend(b) \/ Stop(b)
  BY <1>1, GoesCalls DEF Acquire, Extend, Stop
<1>2. CASE TickLook(b)
  BY <1>2, GoesCalls, SyncsCalls DEF TickLook
<1>3. CASE Idle(b)
  BY <1>3, RestsCalls DEF Idle
<1>4. CASE Close(b)
  BY <1>4, SyncsCalls DEF Close
<1>5. CASE \E t \in Tasks : Run(b, t) \/ OneOffReset(b, t)
  BY <1>5, RestsCalls DEF Run, OneOffReset
<1> QED BY <1>1, <1>2, <1>3, <1>4, <1>5 DEF LoopStep

LEMMA FaultCalls ==
  ASSUME Good, NEW b \in Beats, FaultStep(b)
  PROVE  Calls'
<1>1. CASE CloseFails(b)
  BY <1>1, SyncsCalls DEF CloseFails
<1>2. CASE Crash(b)
  BY <1>2, GoneCalls DEF Crash
<1>3. CASE \E t \in Tasks : ResetFails(b, t)
  BY <1>3, GoesCalls DEF ResetFails
<1> QED BY <1>1, <1>2, <1>3, SyncEndsCalls, ReloadFailsCalls DEF FaultStep

LEMMA NextCalls ==
  ASSUME Good, [Next]_vars
  PROVE  Calls'
<1>1. CASE (\E a \in Admins : AdminStep(a)) \/ (\E s \in notices : Publish(s)) \/ Expire
           \/ Tick \/ UNCHANGED vars
  <2>1. UNCHANGED <<pc, why, frames, setup>>
    BY <1>1 DEF AdminStep, Read, Flush, Commit, Abort, Publish, Expire, Tick, vars, beatVars
  <2> QED BY <2>1 DEF Good, BeatInv, Calls, StackInv, SetupInv, Top
<1>2. ASSUME NEW b \in Beats, SetupStep(b) PROVE Calls'
  BY <1>2, SetupReadCalls, SetupWriteCalls, GoneCalls, SetupLookCalls, MergeCalls
     DEF SetupStep, SetupFails
<1>3. ASSUME NEW b \in Beats, SyncStep(b) PROVE Calls'
  BY <1>3, PopCalls, SyncEndsCalls, SavedCalls, ReloadCalls DEF SyncStep
<1> QED BY <1>1, <1>2, <1>3, LoopCalls, StartCalls, FaultCalls DEF Next, BeatStep

LEMMA NextGood ==
  ASSUME Good, [Next]_vars
  PROVE  Good'
  BY NextTypes, NextRequests, NextCalls DEF Good, BeatInv, Calls

LEMMA InitGood == Init => Good
<1> SUFFICES ASSUME Init PROVE Good
  OBVIOUS
<1>1. 0 \in Stamps /\ 1 \in 1 .. MaxId + 1
  BY BeatAssumption DEF Stamps
<1>2. TypeOK
  BY <1>1, NoTxTyped, EmptyTyped DEF Init, TypeOK, Places, Reasons
<1>3. RequestsInv
  BY DEF Init, RequestsInv, NoTx
<1>4. ASSUME NEW b \in Beats PROVE StackInv(b)
  <2>1. pc[b] = "off" /\ frames[b] = <<>>
    BY DEF Init
  <2> QED BY <2>1 DEF StackInv, Syncing
<1>5. \A b \in Beats : SetupInv(b)
  BY DEF Init, SetupInv, Syncing, NoSetup
<1> QED BY <1>2, <1>3, <1>4, <1>5 DEF Good, BeatInv

(* Every variable keeps its type, whatever the beats, the administrators   *)
(* and the faults do: no row, copy or call of sync is ever malformed.      *)
THEOREM BeatTypeCorrect == Spec => []TypeOK
<1>1. Good => TypeOK
  BY DEF Good
<1> QED BY <1>1, InitGood, NextGood, PTL DEF Spec

-----------------------------------------------------------------------------
\* What administrators commit.

\* A row that from_entry writes is enabled, so it leaves an entry.
LEMMA SetupWritesEntry ==
  ASSUME Good, NEW b \in Beats, SetupWrite(b), rows' # rows
  PROVE  SetupWrites
<1> DEFINE t == setup[b].name
           read == setup[b].read
           new == Merged(read)
<1>1. /\ t \in Tasks /\ pc[b] = "setup" /\ setup[b].made[t] = None
      /\ setup[b].made \in [Tasks -> Entries \cup {None}] /\ read \in Rows \cup {None}
  BY SetupTyped DEF Good, BeatInv, SetupInv, SetupWrite
<1>2. new \in Rows /\ new.enabled = TRUE
  <2>1. CASE read = None
    <3>1. nextId \in 1 .. MaxId /\ new = NewRow(0)
      BY <2>1 DEF Good, TypeOK, SetupWrite, Merged
    <3> QED BY <3>1, NoRuns, BeatAssumption DEF NewRow, Rows, Edits
  <2>2. CASE read # None
    <3>1. new # read
      BY <2>2 DEF SetupWrite
    <3>2. new = [read EXCEPT !.enabled = TRUE, !.edit = 0, !.count = 0] /\ read \in Rows
      BY <1>1, <2>2, <3>1 DEF Merged
    <3>3. 0 \in Edits
      BY BeatAssumption DEF Edits
    <3> QED BY <3>2, <3>3, NoRuns DEF Rows
  <2> QED BY <2>1, <2>2
<1>3. setup'[b].made[t] = Entry(new)
  <2>1. setup'[b].made = [setup[b].made EXCEPT ![t] = IF new.enabled THEN Entry(new) ELSE None]
    BY SetupTyped DEF Good, TypeOK, Setups, SetupWrite
  <2> QED BY <1>1, <1>2, <2>1
<1>4. Entry(new) # None
  BY <1>2, EntryTyped, NoneIsNoRow
<1> QED BY <1>1, <1>3, <1>4 DEF SetupWrites

LEMMA AdminStepsKeep ==
  ASSUME Good, [Next]_vars, NEW t \in Tasks, rows'[t] # rows[t]
  PROVE  \/ SetupWrites \/ AdminWrites
         \/ rows[t] # None /\ rows'[t] = [rows[t] EXCEPT !.count = rows'[t].count]
         \/ rows[t] # None /\ t \in OneOff /\ rows'[t] = Disabled(rows[t])
<1>1. ASSUME NEW a \in Admins, AdminStep(a) PROVE AdminWrites
  <2>1. Commit(a)
    BY <1>1 DEF AdminStep, Read, Flush, Abort
  <2> QED BY <2>1 DEF Good, TypeOK, Commit, NoTx, AdminWrites
<1>2. ASSUME NEW b \in Beats, SetupWrite(b) PROVE SetupWrites
  BY <1>2, SetupWritesEntry
<1>3. ASSUME NEW b \in Beats, Save(b)
      PROVE  rows[t] # None /\ rows'[t] = [rows[t] EXCEPT !.count = rows'[t].count]
  <2> DEFINE u == Top(b).name
  <2>1. u \in Tasks /\ Same(u, copy[b][u]) /\ rows' = [rows EXCEPT ![u] = Saved(rows[u], copy[b][u])]
    BY <1>3 DEF Good, BeatInv, StackInv, Save
  <2>2. t = u /\ rows[t] \in Rows
    BY <2>1 DEF Good, TypeOK, Same
  <2>3. rows'[t] = [rows[t] EXCEPT !.count = copy[b][t].count]
    BY <2>1, <2>2 DEF Good, TypeOK, Saved
  <2>4. rows'[t].count = copy[b][t].count
    BY <2>2, <2>3 DEF Rows
  <2> QED BY <2>1, <2>2, <2>3, <2>4 DEF Same
<1>4. ASSUME NEW b \in Beats, NEW u \in Tasks, OneOffReset(b, u)
      PROVE  rows[t] # None /\ t \in OneOff /\ rows'[t] = Disabled(rows[t])
  <2>1. u \in OneOff /\ Same(u, copy[b][u]) /\ rows' = [rows EXCEPT ![u] = Disabled(rows[u])]
    BY <1>4 DEF OneOffReset
  <2>2. t = u
    BY <2>1 DEF Good, TypeOK
  <2> QED BY <2>1, <2>2 DEF Good, TypeOK, Same
<1>5. ASSUME NEW b \in Beats, BeatStep(b) \/ Start(b) \/ Stop(b) \/ FaultStep(b),
             ~SetupWrite(b), ~Save(b), \A u \in Tasks : ~OneOffReset(b, u)
      PROVE  FALSE
  BY <1>5 DEF BeatStep, SetupStep, SyncStep, LoopStep, FaultStep, SetupRead, SetupFails,
     SetupLook, Merge, Pop, SyncEnds, SaveMissing, Reload, Acquire, Extend, TickLook, Idle,
     Close, Run, Start, Stop, SaveFails, ReloadFails, CloseFails, Crash, ResetFails
<1>6. ~((\E s \in notices : Publish(s)) \/ Expire \/ Tick \/ UNCHANGED vars)
  BY DEF Publish, Expire, Tick, vars
<1> QED BY <1>1, <1>2, <1>3, <1>4, <1>5, <1>6 DEF Next

(* Once set up, a beat writes of a row only its count, or disables a       *)
(* one-off task (ModelEntry.save, schedulers.py:144-161): for any number   *)
(* of beats and administrators, with faults and crashes.                   *)
THEOREM AdminsHeard == Spec => AdminChangesKept
<1>1. Good /\ [Next]_vars =>
        [\A t \in Tasks : rows'[t] # rows[t] =>
           \/ SetupWrites \/ AdminWrites
           \/ rows[t] # None /\ rows'[t] = [rows[t] EXCEPT !.count = rows'[t].count]
           \/ rows[t] # None /\ t \in OneOff /\ rows'[t] = Disabled(rows[t])]_vars
  BY AdminStepsKeep
<1> QED BY <1>1, InitGood, NextGood, PTL DEF Spec, AdminChangesKept

-----------------------------------------------------------------------------
\* ids

\* An id given out stays so.
LEMMA OldKept ==
  ASSUME Good, IdsInv, [Next]_vars, NEW id, id \in 1 .. MaxId, NEW t \in Tasks, Old(id, t)
  PROVE  Old(id, t)'
<1>1. CASE UNCHANGED <<tx, nextId>>
  BY <1>1 DEF Old
<1>2. ASSUME NEW a \in Admins, AdminStep(a) PROVE Old(id, t)'
  <2>1. CASE Flush(a)
    <3>1. CASE tx[a].op = "create"
      <4>1. /\ nextId' = nextId + 1 /\ nextId \in Nat /\ tx'[a].row.id = nextId
            /\ \A c \in Admins \ {a} : tx'[c] = tx[c]
        <5>1. tx'[a] = [tx[a] EXCEPT !.pc = "flushed", !.row = NewRow(tx[a].edit)]
              /\ \A c \in Admins \ {a} : tx'[c] = tx[c]
          BY <2>1, <3>1 DEF Good, TypeOK, Flush
        <5>2. tx[a] \in Requests /\ nextId' = nextId + 1
          BY <2>1, <3>1 DEF Good, TypeOK, Flush
        <5>3. nextId \in Nat
          BY BeatAssumption DEF Good, TypeOK
        <5> QED BY <5>1, <5>2, <5>3 DEF Requests, NewRow
      <4>2. id < nextId' /\ id # nextId
        BY <4>1, BeatAssumption DEF Old
      <4> QED BY <4>1, <4>2 DEF Old
    <3>2. CASE tx[a].op # "create"
      <4>1. nextId' = nextId /\ tx'[a].op = tx[a].op /\ \A c \in Admins \ {a} : tx'[c] = tx[c]
        BY <2>1, <3>2 DEF Good, TypeOK, Requests, Flush
      <4> QED BY <3>2, <4>1 DEF Old
    <3> QED BY <3>1, <3>2
  <2>2. CASE ~Flush(a)
    <3>1. nextId' = nextId /\ tx'[a].pc # "flushed" /\ \A c \in Admins \ {a} : tx'[c] = tx[c]
      BY <1>2, <2>2 DEF Good, TypeOK, AdminStep, Read, Commit, Abort, NoTx
    <3> QED BY <3>1 DEF Old
  <2> QED BY <2>1, <2>2
<1>3. ASSUME NEW b \in Beats, SetupWrite(b) PROVE Old(id, t)'
  <2> DEFINE read == setup[b].read
  <2>0. nextId' = nextId \/ nextId' = nextId + 1
    <3>1. CASE read = None
      BY <1>3, <3>1 DEF SetupWrite
    <3>2. CASE read # None /\ Merged(read) # read
      BY <1>3, <3>2 DEF SetupWrite
    <3>3. CASE read # None /\ Merged(read) = read
      BY <1>3, <3>3 DEF SetupWrite
    <3> QED BY <3>1, <3>2, <3>3
  <2>1. tx' = tx /\ nextId \in Nat /\ id \in Nat
    BY <1>3, BeatAssumption DEF Good, TypeOK, SetupWrite
  <2>2. id < nextId
    BY DEF Old
  <2>3. id < nextId'
    BY <2>0, <2>1, <2>2
  <2> QED BY <2>1, <2>3 DEF Old
<1>4. ASSUME NEW b \in Beats, BeatStep(b) \/ Start(b) \/ Stop(b) \/ FaultStep(b), ~SetupWrite(b)
      PROVE  UNCHANGED <<tx, nextId>>
  BY <1>4 DEF BeatStep, SetupStep, SyncStep, LoopStep, FaultStep, SetupRead, SetupFails,
     SetupLook, Merge, Pop, SyncEnds, Save, SaveMissing, Reload, Acquire, Extend, TickLook, Idle,
     Close, Run, OneOffReset, Start, Stop, SaveFails, ReloadFails, CloseFails, Crash, ResetFails
<1>5. CASE (\E s \in notices : Publish(s)) \/ Expire \/ Tick \/ UNCHANGED vars
  BY <1>1, <1>5 DEF Publish, Expire, Tick, vars
<1> QED BY <1>1, <1>2, <1>3, <1>4, <1>5 DEF Next

\* An id just given out.
LEMMA NewIdOld ==
  ASSUME Good, NEW t \in Tasks, NEW id, id = nextId, ~RowLocked(t), tx' = tx,
         nextId' = nextId + 1
  PROVE  Old(id, t)'
<1>1. nextId \in Nat
  BY BeatAssumption DEF Good, TypeOK
<1>2. id < nextId'
  BY <1>1
<1> QED BY <1>2 DEF Old, RowLocked

LEMMA MergedId ==
  ASSUME NEW row \in Rows \cup {None}
  PROVE  /\ row # None => Merged(row).id = row.id
         /\ row = None => Merged(row).id = nextId
  BY DEF Merged, NewRow, Rows

\* A row nobody has locked may be written with an id it, or a copy of it, had.
LEMMA KnownFrame ==
  ASSUME NEW id, NEW t \in Tasks, UNCHANGED <<rows, copy, setup>>, Known(id, t)'
  PROVE  Known(id, t)
  BY DEF Known

LEMMA EnabledKnown ==
  ASSUME Good, NEW id, NEW t \in Tasks, NEW b \in Beats,
         EnabledEntries[t] # None, EnabledEntries[t].id = id
  PROVE  Known(id, t)
<1>1. rows[t] # None /\ EnabledEntries[t] = Entry(rows[t])
  BY DEF EnabledEntries
<1>2. Entry(rows[t]).id = rows[t].id
  BY DEF Entry
<1> QED BY <1>1, <1>2 DEF Known

\* Only what beat b knows changes.
KnownElsewhere(b) ==
  /\ \A c \in Beats \ {b} : copy'[c] = copy[c] /\ setup'[c] = setup[c]

LEMMA KnownHere ==
  ASSUME NEW b \in Beats, NEW t \in Tasks, NEW id, KnownElsewhere(b), Known(id, t)',
         rows'[t] # None /\ rows'[t].id = id => Known(id, t),
         copy'[b][t] # None /\ copy'[b][t].id = id => Known(id, t),
         setup'[b].made[t] # None /\ setup'[b].made[t].id = id => Known(id, t),
         setup'[b].name = t /\ setup'[b].read # None /\ setup'[b].read.id = id => Known(id, t)
  PROVE  Known(id, t)
  BY DEF Known, KnownElsewhere

LEMMA GoneKnown ==
  ASSUME Good, NEW b \in Beats, Gone(b), UNCHANGED rows,
         NEW id, NEW t \in Tasks, Known(id, t)'
  PROVE  Known(id, t)
<1>1. /\ KnownElsewhere(b) /\ copy'[b][t] = None
      /\ setup'[b].made[t] = None /\ setup'[b].read = None
  BY DEF Good, TypeOK, Gone, KnownElsewhere, NoSetup, NoEntries
<1>2. rows'[t] # None /\ rows'[t].id = id => Known(id, t)
  BY DEF Known
<1> QED BY <1>1, <1>2, KnownHere

LEMMA ReturnsKnown ==
  ASSUME Good, NEW b \in Beats, NEW fs, Returns(b, fs), UNCHANGED rows,
         NEW id, NEW t \in Tasks, Known(id, t)'
  PROVE  Known(id, t)
<1>1. Gone(b) \/ UNCHANGED <<rows, copy, setup>>
  BY DEF Returns
<1> QED BY <1>1, KnownFrame, GoneKnown

LEMMA ReloadKnown ==
  ASSUME Good, NEW b \in Beats, copy' = [copy EXCEPT ![b] = EnabledEntries],
         UNCHANGED <<rows, setup>>,
         NEW id, NEW t \in Tasks, Known(id, t)'
  PROVE  Known(id, t)
<1>1. KnownElsewhere(b) /\ copy'[b] = EnabledEntries
  BY DEF Good, TypeOK, KnownElsewhere
<1>2. copy'[b][t] # None /\ copy'[b][t].id = id => Known(id, t)
  BY <1>1, EnabledKnown
<1> QED BY <1>1, <1>2, KnownHere DEF Known

LEMMA StartKnown ==
  ASSUME Good, NEW b \in Beats, Start(b), NEW id, NEW t \in Tasks, Known(id, t)'
  PROVE  Known(id, t)
<1>1. /\ KnownElsewhere(b) /\ copy'[b] = EnabledEntries
      /\ setup'[b].made[t] = None /\ setup'[b].read = None
  BY DEF Good, TypeOK, Start, KnownElsewhere, NoSetup, NoEntries
<1>2. copy'[b][t] # None /\ copy'[b][t].id = id => Known(id, t)
  BY <1>1, EnabledKnown
<1>3. rows'[t] # None /\ rows'[t].id = id => Known(id, t)
  BY DEF Start, Known
<1> QED BY <1>1, <1>2, <1>3, KnownHere

LEMMA SetupReadKnown ==
  ASSUME Good, NEW b \in Beats, NEW u \in Tasks, SetupRead(b, u),
         NEW id, NEW t \in Tasks, Known(id, t)'
  PROVE  Known(id, t)
<1>1. /\ KnownElsewhere(b) /\ UNCHANGED <<rows, copy>>
      /\ setup'[b].made = setup[b].made /\ setup'[b].name = u /\ setup'[b].read = rows[u]
  BY SetupTyped DEF Good, TypeOK, SetupRead, KnownElsewhere, Setups
<1>2. rows[t] # None /\ rows[t].id = id => Known(id, t)
  BY DEF Known
<1>3. copy'[b][t] # None /\ copy'[b][t].id = id => Known(id, t)
  BY <1>1 DEF Known
<1>4. setup'[b].made[t] # None /\ setup'[b].made[t].id = id => Known(id, t)
  BY <1>1 DEF Known
<1>5. setup'[b].name = t /\ setup'[b].read # None /\ setup'[b].read.id = id => Known(id, t)
  BY <1>1, <1>2
<1> QED BY <1>1, <1>2, <1>3, <1>4, <1>5, KnownHere

LEMMA MergeKnown ==
  ASSUME Good, NEW b \in Beats, Merge(b), NEW id, NEW t \in Tasks, Known(id, t)'
  PROVE  Known(id, t)
<1>1. /\ KnownElsewhere(b) /\ UNCHANGED rows
      /\ setup'[b].made[t] = None /\ setup'[b].read = None
  <2>1. setup'[b] \in {NoSetup, [NoSetup EXCEPT !.groups = Tail(setup[b].groups)]}
        /\ \A c \in Beats \ {b} : copy'[c] = copy[c] /\ setup'[c] = setup[c]
    BY DEF Good, TypeOK, Merge
  <2>2. UNCHANGED rows
    BY DEF Merge
  <2> QED BY <2>1, <2>2 DEF KnownElsewhere, NoSetup, NoEntries
<1>2. copy'[b][t] = IF setup[b].made[t] # None THEN setup[b].made[t] ELSE copy[b][t]
  BY DEF Good, TypeOK, Merge
<1>3. copy'[b][t] # None /\ copy'[b][t].id = id => Known(id, t)
  BY <1>2 DEF Known
<1>4. rows'[t] # None /\ rows'[t].id = id => Known(id, t)
  BY <1>1 DEF Known
<1> QED BY <1>1, <1>3, <1>4, KnownHere

\* Only the copy of u changes, and keeps its id.
LEMMA CopyKnown ==
  ASSUME Good, NEW b \in Beats, NEW u \in Tasks, NEW new, copy[b][u] # None,
         copy' = [copy EXCEPT ![b][u] = new], new.id = copy[b][u].id, UNCHANGED setup,
         NEW id, NEW t \in Tasks, Known(id, t)',
         rows'[t] # None /\ rows'[t].id = id => Known(id, t)
  PROVE  Known(id, t)
<1>1. /\ KnownElsewhere(b) /\ copy'[b][u] = new
      /\ \A v \in Tasks \ {u} : copy'[b][v] = copy[b][v]
  BY DEF Good, TypeOK, KnownElsewhere
<1>2. copy'[b][t] # None /\ copy'[b][t].id = id => Known(id, t)
  BY <1>1 DEF Known
<1> QED BY <1>1, <1>2, KnownHere DEF Known

LEMMA RunKnown ==
  ASSUME Good, NEW b \in Beats, NEW u \in Tasks, Run(b, u),
         NEW id, NEW t \in Tasks, Known(id, t)'
  PROVE  Known(id, t)
<1>1. copy[b][u] # None /\ copy[b][u] \in Entries
      /\ copy' = [copy EXCEPT ![b][u] = Counted(copy[b][u])] /\ UNCHANGED <<rows, setup>>
  BY DEF Good, TypeOK, Run, Due
<1>2. Counted(copy[b][u]).id = copy[b][u].id
  BY <1>1 DEF Counted, Entries
<1>3. rows'[t] # None /\ rows'[t].id = id => Known(id, t)
  BY <1>1 DEF Known
<1> QED BY <1>1, <1>2, <1>3, CopyKnown

LEMMA ResetKnown ==
  ASSUME Good, NEW b \in Beats, NEW u \in Tasks, OneOffReset(b, u) \/ ResetFails(b, u),
         NEW id, NEW t \in Tasks, Known(id, t)'
  PROVE  Known(id, t)
<1> DEFINE new == [Disabled(copy[b][u]) EXCEPT !.quiet = FALSE]
<1>1. copy[b][u] # None /\ copy[b][u] \in Entries
      /\ copy' = [copy EXCEPT ![b][u] = new] /\ UNCHANGED setup
  BY DEF Good, TypeOK, OneOffReset, ResetFails, Due
<1>2. new.id = copy[b][u].id
  BY <1>1 DEF Disabled, Entries
<1>3. rows'[t] # None => rows[t] # None /\ rows'[t].id = rows[t].id
  <2>1. CASE rows' = [rows EXCEPT ![u] = Disabled(rows[u])] /\ rows[u] # None
    <3>1. rows[u] \in Rows
      BY <2>1 DEF Good, TypeOK
    <3>2. Disabled(rows[u]).id = rows[u].id
      BY <3>1 DEF Disabled, Rows
    <3> QED BY <2>1, <3>2 DEF Good, TypeOK
  <2> QED BY <2>1 DEF OneOffReset, ResetFails, Same
<1>4. rows'[t] # None /\ rows'[t].id = id => Known(id, t)
  BY <1>3 DEF Known
<1> QED BY <1>1, <1>2, <1>4, CopyKnown

LEMMA SaveKnown ==
  ASSUME Good, NEW b \in Beats, Save(b), NEW id, NEW t \in Tasks, Known(id, t)'
  PROVE  Known(id, t)
<1> DEFINE u == Top(b).name
<1>1. UNCHANGED <<copy, setup>>
  BY DEF Save
<1>2. rows'[t] # None => rows[t] # None /\ rows'[t].id = rows[t].id
  <2>1. CASE rows' = [rows EXCEPT ![u] = Saved(rows[u], copy[b][u])] /\ rows[u] # None /\ u \in Tasks
    <3>1. rows[u] \in Rows
      BY <2>1 DEF Good, TypeOK
    <3>2. Saved(rows[u], copy[b][u]).id = rows[u].id
      BY <3>1 DEF Saved, Rows
    <3> QED BY <2>1, <3>2 DEF Good, TypeOK
  <2>2. u \in Tasks
    BY DEF Save, Good, BeatInv, StackInv
  <2> QED BY <2>1, <2>2 DEF Save, Same
<1> QED BY <1>1, <1>2 DEF Known

\* from_entry: the name it made is the one it was reading.
LEMMA SetupWriteKnown ==
  ASSUME Good, NEW b \in Beats, SetupWrite(b),
         NEW id \in 1 .. MaxId, NEW t \in Tasks, Known(id, t)'
  PROVE  Known(id, t) \/ Old(id, t)'
<1> DEFINE u == setup[b].name
           read == setup[b].read
           new == Merged(read)
<1>1. /\ u \in Tasks /\ read \in Rows \cup {None}
      /\ setup[b].made \in [Tasks -> Entries \cup {None}]
  BY SetupTyped DEF Good, SetupWrite
<1>2. /\ setup'[b].read = None /\ UNCHANGED copy /\ UNCHANGED tx
      /\ setup'[b].made = [setup[b].made EXCEPT ![u] = IF new.enabled THEN Entry(new) ELSE None]
      /\ \A c \in Beats \ {b} : setup'[c] = setup[c]
  BY SetupTyped DEF Good, TypeOK, Setups, SetupWrite
<1>3. Entry(new).id = new.id
  BY DEF Entry
<1>4. CASE read = None
  <2>1. /\ ~RowLocked(u) /\ rows' = [rows EXCEPT ![u] = new] /\ nextId' = nextId + 1
    BY <1>4 DEF SetupWrite
  <2>2. new.id = nextId
    BY <1>4, MergedId
  <2>3. CASE t = u /\ id = nextId
    BY <2>1, <2>3, <1>1, <1>2, NewIdOld
  <2>4. CASE ~(t = u /\ id = nextId)
    <3>1. rows'[t] # None /\ rows'[t].id = id => Known(id, t)
      BY <2>1, <2>2, <2>4, <1>1 DEF Good, TypeOK, Known
    <3>2. copy'[b][t] # None /\ copy'[b][t].id = id => Known(id, t)
      BY <1>2 DEF Known
    <3>3. setup'[b].made[t] # None /\ setup'[b].made[t].id = id => Known(id, t)
      BY <1>1, <1>2, <1>3, <2>2, <2>4 DEF Known
    <3> QED BY <1>2, <3>1, <3>2, <3>3, KnownHere DEF KnownElsewhere
  <2> QED BY <2>3, <2>4
<1>5. CASE read # None
  <2>1. new.id = read.id /\ read.id = setup[b].read.id
    BY <1>1, <1>5, MergedId
  <2>2. setup'[b].made[t] # None /\ setup'[b].made[t].id = id => Known(id, t)
    BY <1>1, <1>2, <1>3, <1>5, <2>1 DEF Known
  <2>3. rows'[t] # None => rows[t] # None /\ rows'[t].id = rows[t].id
    <3>1. CASE new # read
      <4>1. rows' = [rows EXCEPT ![u] = Over(rows[u], read, new)] /\ rows[u] \in Rows
        BY <1>1, <1>5, <3>1 DEF SetupWrite, Same, Good, TypeOK
      <4>2. Over(rows[u], read, new).id = rows[u].id /\ rows[u] # None
        BY <4>1, NoneIsNoRow DEF Over, Rows
      <4> QED BY <4>1, <4>2, <1>1 DEF Good, TypeOK
    <3>2. CASE new = read
      BY <1>5, <3>2 DEF SetupWrite
    <3> QED BY <3>1, <3>2
  <2>4. rows'[t] # None /\ rows'[t].id = id => Known(id, t)
    BY <2>3 DEF Known
  <2>5. copy'[b][t] # None /\ copy'[b][t].id = id => Known(id, t)
    BY <1>2 DEF Known
  <2> QED BY <1>2, <2>2, <2>4, <2>5, KnownHere DEF KnownElsewhere
<1> QED BY <1>4, <1>5

\* A request ends: the row it made has an id of its own.
LEMMA CommitKnown ==
  ASSUME Good, IdsInv, NEW a \in Admins, Commit(a),
         NEW id \in 1 .. MaxId, NEW t \in Tasks, Known(id, t)'
  PROVE  Known(id, t) \/ Old(id, t)'
<1> DEFINE r == tx[a]
<1>1. /\ r \in Requests /\ r.pc = "flushed" /\ r.op \in Ops /\ r.task \in Tasks
      /\ UNCHANGED <<copy, setup, nextId>> /\ rows' = [rows EXCEPT ![r.task] = Result(r)]
      /\ tx' = [tx EXCEPT ![a] = NoTx]
  BY DEF Good, TypeOK, BeatInv, RequestsInv, Commit, beatVars
<1>2. CASE t = r.task /\ r.op = "create" /\ id = r.row.id
  <2>1. id < nextId
    BY <1>1, <1>2 DEF IdsInv
  <2>2. \A c \in Admins : ~(tx'[c].pc = "flushed" /\ tx'[c].task = t)
    BY <1>1, <1>2 DEF Good, TypeOK, BeatInv, RequestsInv, NoTx
  <2> QED BY <1>1, <2>1, <2>2 DEF Old
<1>3. CASE ~(t = r.task /\ r.op = "create" /\ id = r.row.id)
  <2>1. ASSUME rows'[t] # None, rows'[t].id = id PROVE Known(id, t)
    <3>1. CASE t # r.task
      BY <1>1, <2>1, <3>1 DEF Good, TypeOK, Known
    <3>2. CASE t = r.task
      <4>1. rows'[t] = Result(r)
        BY <1>1, <3>2 DEF Good, TypeOK
      <4>2. r.op \in {"update", "toggle"}
        BY <1>1, <1>3, <2>1, <3>2, <4>1, BeatAssumption DEF Result
      <4>3. rows[t] \in Rows /\ rows[t] # None
        BY <1>1, <3>2, <4>2 DEF Good, TypeOK, BeatInv, RequestsInv, Same
      <4>4. Result(r).id = rows[t].id
        BY <3>2, <4>2, <4>3 DEF Result, Rows
      <4> QED BY <2>1, <4>1, <4>3, <4>4 DEF Known
    <3> QED BY <3>1, <3>2
  <2> QED BY <1>1, <2>1 DEF Known
<1> QED BY <1>2, <1>3

LEMMA BeatKnown ==
  ASSUME Good, NEW b \in Beats, BeatStep(b) \/ Start(b) \/ Stop(b) \/ FaultStep(b),
         NEW id \in 1 .. MaxId, NEW t \in Tasks, Known(id, t)'
  PROVE  Known(id, t) \/ Old(id, t)'
<1>1. CASE SetupLook(b) \/ Pop(b) \/ SaveMissing(b) \/ Acquire(b) \/ Extend(b) \/ TickLook(b)
           \/ Idle(b) \/ Stop(b) \/ Close(b) \/ CloseFails(b)
  <2>1. UNCHANGED <<rows, copy, setup>>
    BY <1>1 DEF SetupLook, Pop, SaveMissing, Acquire, Extend, TickLook, Idle, Stop, Close, CloseFails
  <2> QED BY <2>1, KnownFrame
<1>2. CASE SetupFails(b) \/ Crash(b)
  BY <1>2, GoneKnown DEF SetupFails, Crash
<1>3. CASE SyncEnds(b) \/ SaveFails(b)
  BY <1>3, ReturnsKnown DEF SyncEnds, SaveFails
<1>4. CASE ReloadFails(b)
  <2>1. UNCHANGED rows
    BY <1>4 DEF ReloadFails
  <2>2. Returns(b, Outer(b)) \/ Gone(b) \/ UNCHANGED <<copy, setup>>
    BY <1>4 DEF ReloadFails
  <2> QED BY <2>1, <2>2, ReturnsKnown, GoneKnown, KnownFrame
<1>5. CASE Reload(b)
  BY <1>5, ReloadKnown DEF Reload
<1>6. CASE \E u \in Tasks : SetupRead(b, u) \/ Run(b, u) \/ OneOffReset(b, u) \/ ResetFails(b, u)
  BY <1>6, SetupReadKnown, RunKnown, ResetKnown
<1> QED BY <1>1, <1>2, <1>3, <1>4, <1>5, <1>6, StartKnown, SetupWriteKnown, MergeKnown, SaveKnown
        DEF BeatStep, SetupStep, SyncStep, LoopStep, FaultStep

LEMMA NextKnown ==
  ASSUME Good, IdsInv, [Next]_vars,
         NEW id \in 1 .. MaxId, NEW t \in Tasks, Known(id, t)'
  PROVE  Known(id, t) \/ Old(id, t)'
<1>1. ASSUME NEW a \in Admins, AdminStep(a) PROVE Known(id, t) \/ Old(id, t)'
  <2>1. Commit(a) \/ UNCHANGED <<rows, copy, setup>>
    BY <1>1 DEF AdminStep, Read, Flush, Abort, beatVars
  <2> QED BY <2>1, CommitKnown, KnownFrame
<1>2. CASE (\E s \in notices : Publish(s)) \/ Expire \/ Tick \/ UNCHANGED vars
  <2>1. UNCHANGED <<rows, copy, setup>>
    BY <1>2 DEF Publish, Expire, Tick, vars, beatVars
  <2> QED BY <2>1, KnownFrame
<1> QED BY <1>1, <1>2, BeatKnown DEF Next

LEMMA NextIds ==
  ASSUME Good, IdsInv, [Next]_vars
  PROVE  IdsInv'
<1>1. ASSUME NEW t \in Tasks, NEW id \in 1 .. MaxId, Known(id, t)' PROVE Old(id, t)'
  <2>1. Known(id, t) => Old(id, t)
    BY DEF IdsInv
  <2> QED BY <1>1, <2>1, NextKnown, OldKept
<1>2. ASSUME NEW a \in Admins, tx'[a].pc = "flushed", tx'[a].op = "create"
      PROVE  tx'[a].row.id < nextId'
  <2>1. CASE UNCHANGED <<tx, nextId>>
    BY <1>2, <2>1 DEF IdsInv
  <2>2. nextId \in Nat /\ (tx[a].pc = "flushed" => tx[a].row.id \in Nat)
    BY BeatAssumption DEF Good, TypeOK, BeatInv, RequestsInv, Rows
  <2>3. ASSUME tx'[a] = tx[a], nextId' = nextId \/ nextId' = nextId + 1
        PROVE  tx'[a].row.id < nextId'
    <3>1. tx[a].row.id < nextId /\ tx[a].row.id \in Nat
      BY <1>2, <2>2, <2>3 DEF IdsInv
    <3> QED BY <2>2, <2>3, <3>1
  <2>4. ASSUME NEW c \in Admins, AdminStep(c) PROVE tx'[a].row.id < nextId'
    <3>1. CASE Flush(c) /\ a = c /\ tx[c].op = "create"
      <4>1. tx'[a] = [tx[a] EXCEPT !.pc = "flushed", !.row = NewRow(tx[a].edit)]
            /\ nextId' = nextId + 1 /\ tx[a] \in Requests
        BY <3>1 DEF Good, TypeOK, Flush
      <4>2. tx'[a].row.id = nextId
        BY <4>1 DEF Requests, NewRow
      <4> QED BY <4>1, <4>2, <2>2
    <3>2. CASE ~(Flush(c) /\ a = c /\ tx[c].op = "create")
      <4>1. CASE a # c
        <5>1. tx'[a] = tx[a] /\ (nextId' = nextId \/ nextId' = nextId + 1)
          BY <2>4, <4>1 DEF Good, TypeOK, AdminStep, Read, Flush, Commit, Abort
        <5> QED BY <5>1, <2>3
      <4>2. CASE a = c
        <5>1. tx'[a].pc # "flushed" \/ tx'[a].op # "create"
          <6>1. CASE Flush(c)
            <7>1. tx[c].op # "create" /\ tx'[c] = [tx[c] EXCEPT !.pc = "flushed"] /\ tx[c] \in Requests
              BY <6>1, <4>2, <3>2 DEF Good, TypeOK, Flush
            <7> QED BY <7>1, <4>2 DEF Requests
          <6>2. CASE ~Flush(c)
            BY <2>4, <4>2, <6>2 DEF Good, TypeOK, AdminStep, Read, Commit, Abort, NoTx
          <6> QED BY <6>1, <6>2
        <5> QED BY <5>1, <1>2
      <4> QED BY <4>1, <4>2
    <3> QED BY <3>1, <3>2
  <2>5. ASSUME NEW b \in Beats, BeatStep(b) \/ Start(b) \/ Stop(b) \/ FaultStep(b)
        PROVE  tx' = tx /\ (nextId' = nextId \/ nextId' = nextId + 1)
    <3>1. CASE SetupWrite(b)
      <4>1. CASE setup[b].read = None
        BY <3>1, <4>1 DEF SetupWrite
      <4>2. CASE setup[b].read # None /\ Merged(setup[b].read) # setup[b].read
        BY <3>1, <4>2 DEF SetupWrite
      <4>3. CASE setup[b].read # None /\ Merged(setup[b].read) = setup[b].read
        BY <3>1, <4>3 DEF SetupWrite
      <4> QED BY <4>1, <4>2, <4>3
    <3>2. CASE ~SetupWrite(b)
      BY <2>5, <3>2 DEF BeatStep, SetupStep, SyncStep, LoopStep, FaultStep, SetupRead, SetupFails,
         SetupLook, Merge, Pop, SyncEnds, Save, SaveMissing, Reload, Acquire, Extend, TickLook,
         Idle, Close, Run, OneOffReset, Start, Stop, SaveFails, ReloadFails, CloseFails, Crash,
         ResetFails
    <3> QED BY <3>1, <3>2
  <2>6. ASSUME (\E s \in notices : Publish(s)) \/ Expire \/ Tick \/ UNCHANGED vars
        PROVE  UNCHANGED <<tx, nextId>>
    BY <2>6 DEF Publish, Expire, Tick, vars
  <2> QED BY <2>1, <2>3, <2>4, <2>5, <2>6 DEF Next
<1> QED BY <1>1, <1>2 DEF IdsInv

LEMMA InitIds == Init => IdsInv
  BY DEF Init, IdsInv, Known, NoSetup, NoEntries, NoTx

-----------------------------------------------------------------------------
\* One beat, and a database that does not fail.

Sure(b) == Good /\ IdsInv /\ CountsInv(b)

LEMMA CountTypes ==
  ASSUME Good, NEW b \in Beats, NEW t \in Tasks
  PROVE  /\ rows[t] # None => rows[t] \in Rows /\ rows[t].count \in Nat
         /\ Merging(b, t) # None => Merging(b, t) \in Entries /\ Merging(b, t).count \in Nat
<1>1. rows[t] \in Rows \cup {None} /\ Merging(b, t) \in Entries \cup {None}
  BY SetupTyped DEF Good, TypeOK, Merging
<1>2. \A r \in Rows \cup Entries : r.count \in Nat
  BY BeatAssumption DEF Rows, Entries
<1> QED BY <1>1, <1>2

\* Neither the row nor the copy of t changes, and what was to be saved still is.
LEMMA CountsFrame ==
  ASSUME NEW b \in Beats, NEW t \in Tasks, Counts(b, t),
         rows'[t] = rows[t], copy'[b][t] = copy[b][t], setup'[b].made[t] = setup[b].made[t],
         t \in dirty[b] \/ Named(b, t) => t \in dirty'[b] \/ Named(b, t)'
  PROVE  Counts(b, t)'
<1>1. Merging(b, t)' = Merging(b, t)
  BY DEF Merging
<1> QED BY <1>1 DEF Counts, Same

\* Copy and row count the same.
LEMMA CountsEqual ==
  ASSUME Good', NEW b \in Beats, NEW t \in Tasks,
         (Merging(b, t) # None /\ Same(t, Merging(b, t)) => Merging(b, t).count = rows[t].count)'
  PROVE  Counts(b, t)'
<1>1. (rows[t] # None => rows[t] \in Rows /\ rows[t].count \in Nat)'
  BY CountTypes, PTL
<1> QED BY <1>1 DEF Counts, Same

\* No beat moves and the table stays.
LEMMA StillCounts ==
  ASSUME NEW b \in Beats, CountsInv(b), UNCHANGED <<rows, beatVars>>
  PROVE  CountsInv(b)'
  BY DEF CountsInv, PhaseInv, ReadInv, Counts, Merging, Named, SettingUp, Same, beatVars

\* Nothing in memory: nothing to save.
LEMMA GoneCounts ==
  ASSUME Good, NEW b \in Beats, Gone(b)
  PROVE  CountsInv(b)'
<1>1. /\ pc'[b] = "off" /\ frames'[b] = <<>> /\ dirty'[b] = {} /\ setup'[b] = NoSetup
      /\ copy'[b] = NoEntries
  BY DEF Good, TypeOK, Gone, Goes
<1>2. PhaseInv(b)'
  BY <1>1 DEF PhaseInv, SettingUp, Syncing
<1>3. ReadInv(b)'
  BY <1>1 DEF ReadInv, NoSetup
<1>4. ASSUME NEW t \in Tasks PROVE Counts(b, t)'
  BY <1>1 DEF Counts, Merging, NoSetup, NoEntries
<1> QED BY <1>2, <1>3, <1>4 DEF CountsInv

\* An id no row, copy or setup has is not that of the row created with it.
LEMMA CommitCounts ==
  ASSUME NEW b \in Beats, Sure(b), NEW a \in Admins, Commit(a)
  PROVE  CountsInv(b)'
<1> DEFINE r == tx[a]
<1>1. /\ r \in Requests /\ r.pc = "flushed" /\ r.op \in Ops /\ r.task \in Tasks /\ r.row \in Rows
      /\ UNCHANGED beatVars /\ rows' = [rows EXCEPT ![r.task] = Result(r)]
  BY DEF Sure, Good, TypeOK, BeatInv, RequestsInv, Commit
<1>2. ASSUME NEW t \in Tasks, NEW id \in 1 .. MaxId, Known(id, t), rows'[t] # None, rows'[t].id = id
      PROVE  rows[t] # None /\ rows'[t].id = rows[t].id /\ rows'[t].count = rows[t].count
  <2>1. CASE t # r.task
    BY <1>1, <1>2, <2>1 DEF Sure, Good, TypeOK
  <2>2. CASE t = r.task
    <3>1. rows'[t] = Result(r)
      BY <1>1, <2>2 DEF Sure, Good, TypeOK
    <3>2. CASE r.op = "create"
      <4>1. Old(id, t)
        BY <1>2 DEF Sure, IdsInv
      <4> QED BY <1>1, <1>2, <2>2, <3>1, <3>2, <4>1 DEF Old, Result
    <3>3. CASE r.op \in {"update", "toggle"}
      <4>1. rows[t] \in Rows /\ rows[t] # None
        BY <1>1, <2>2, <3>3, BeatAssumption DEF Sure, Good, TypeOK, BeatInv, RequestsInv, Same
      <4>2. Result(r).id = rows[t].id /\ Result(r).count = rows[t].count
        BY <2>2, <3>3, <4>1 DEF Result, Rows
      <4> QED BY <3>1, <4>1, <4>2
    <3>4. r.op # "delete"
      BY <1>2, <3>1 DEF Result
    <3> QED BY <1>1, <3>2, <3>3, <3>4, BeatAssumption
  <2> QED BY <2>1, <2>2
<1>3. PhaseInv(b)'
  BY <1>1 DEF Sure, CountsInv, PhaseInv, SettingUp, beatVars
<1>4. ReadInv(b)'
  <2> DEFINE u == setup[b].name
             read == setup[b].read
  <2>1. ASSUME read # None, rows'[u] # None, rows'[u].id = read.id
        PROVE  read.count = rows'[u].count
    <3>1. u \in Tasks /\ read.id \in 1 .. MaxId /\ Known(read.id, u)
      <4>1. u # None => u \in Tasks
        BY SetupTyped DEF Sure, Good
      <4>2. read \in Rows
        BY <2>1, SetupTyped DEF Sure, Good
      <4>3. u # None
        BY <2>1 DEF Sure, CountsInv, ReadInv
      <4> QED BY <2>1, <4>1, <4>2, <4>3 DEF Known, Rows
    <3> QED BY <1>2, <2>1, <3>1 DEF Sure, CountsInv, ReadInv, Same
  <2>2. read # None => u # None
    BY DEF Sure, CountsInv, ReadInv
  <2>3. setup' = setup
    BY <1>1 DEF beatVars
  <2> QED BY <2>1, <2>2, <2>3 DEF ReadInv, Same
<1>5. ASSUME NEW t \in Tasks PROVE Counts(b, t)'
  <2>1. Merging(b, t)' = Merging(b, t) /\ Named(b, t)' = Named(b, t) /\ dirty'[b] = dirty[b]
    BY <1>1 DEF Merging, Named, beatVars
  <2>2. ASSUME Merging(b, t) # None, rows'[t] # None, rows'[t].id = Merging(b, t).id
        PROVE  rows[t] # None /\ rows[t].id = Merging(b, t).id /\ rows'[t].count = rows[t].count
    <3>1. Merging(b, t).id \in 1 .. MaxId
      BY <2>2, CountTypes DEF Sure, Entries
    <3>2. Known(Merging(b, t).id, t)
      BY <2>2 DEF Known, Merging
    <3> QED BY <1>2, <2>2, <3>1, <3>2
  <2> QED BY <2>1, <2>2 DEF Sure, CountsInv, Counts, Same
<1> QED BY <1>3, <1>4, <1>5 DEF CountsInv

\* b goes to a place outside sync and setup, or starts one, and nothing else moves.
LEMMA GoesCounts ==
  ASSUME NEW b \in Beats, Sure(b), NEW to, Goes(b, to), UNCHANGED <<rows, why, frames, copy, dirty, setup>>,
         \/ pc[b] = "setup" /\ to = "merge"
         \/ ~SettingUp(b) /\ pc[b] \notin Syncing /\ to \in {"wait", "tick", "look", "work", "close"}
  PROVE  CountsInv(b)'
<1>1. pc'[b] = to
  BY DEF Sure, Good, TypeOK, Goes
<1>2. PhaseInv(b)'
  BY <1>1 DEF Sure, CountsInv, PhaseInv, SettingUp, Syncing
<1>3. ReadInv(b)'
  BY DEF Sure, CountsInv, ReadInv, Same
<1>4. ASSUME NEW t \in Tasks PROVE Counts(b, t)'
  <2>1. Named(b, t) => Named(b, t)'
    BY <1>1 DEF Named, Syncing, SettingUp
  <2> QED BY <2>1, CountsFrame DEF Sure, CountsInv
<1> QED BY <1>2, <1>3, <1>4 DEF CountsInv

LEMMA SyncsCounts ==
  ASSUME NEW b \in Beats, Sure(b), NEW w, Syncs(b, w), UNCHANGED <<rows, copy, dirty, setup>>,
         pc[b] \notin Syncing \/ (pc[b] = "pop" /\ Len(frames[b]) = 1),
         IF w = "setup" THEN pc[b] = "setup" ELSE ~SettingUp(b) /\ pc[b] # "off"
  PROVE  CountsInv(b)'
<1>1. pc'[b] = "pop" /\ why'[b] = w /\ frames'[b] = <<Frame>>
  BY DEF Sure, Good, TypeOK, Syncs, Goes
<1>2. PhaseInv(b)'
  BY <1>1 DEF Sure, CountsInv, PhaseInv, SettingUp, Syncing
<1>3. ReadInv(b)'
  BY DEF Sure, CountsInv, ReadInv, Same
<1>4. ASSUME NEW t \in Tasks PROVE Counts(b, t)'
  <2>1. ~Named(b, t)
    <3>1. CASE pc[b] = "pop" /\ Len(frames[b]) = 1
      BY <3>1 DEF Named
    <3>2. CASE pc[b] \notin Syncing
      <4>1. frames[b] = <<>>
        BY <3>2 DEF Sure, CountsInv, PhaseInv
      <4> QED BY <4>1 DEF Named
    <3> QED BY <3>1, <3>2
  <2> QED BY <2>1, CountsFrame DEF Sure, CountsInv
<1> QED BY <1>2, <1>3, <1>4 DEF CountsInv

LEMMA StartCounts ==
  ASSUME NEW b \in Beats, Sure(b), Good', Start(b)
  PROVE  CountsInv(b)'
<1>1. /\ pc[b] = "off" /\ pc'[b] = "setup" /\ UNCHANGED <<rows, why, frames, dirty>>
      /\ copy'[b] = EnabledEntries /\ setup'[b].made = NoEntries /\ setup'[b].read = None
  BY DEF Sure, Good, TypeOK, Start, Goes, NoSetup
<1>2. PhaseInv(b)'
  BY <1>1 DEF Sure, CountsInv, PhaseInv, SettingUp, Syncing
<1>3. ReadInv(b)'
  BY <1>1 DEF ReadInv
<1>4. ASSUME NEW t \in Tasks PROVE Counts(b, t)'
  <2>1. Merging(b, t)' = EnabledEntries[t]
    BY <1>1 DEF Merging, NoEntries
  <2>2. EnabledEntries[t] # None => EnabledEntries[t].count = rows[t].count
    BY DEF EnabledEntries, Entry
  <2> QED BY <1>1, <2>1, <2>2, CountsEqual
<1> QED BY <1>2, <1>3, <1>4 DEF CountsInv

LEMMA SetupReadCounts ==
  ASSUME NEW b \in Beats, Sure(b), NEW u \in Tasks, SetupRead(b, u)
  PROVE  CountsInv(b)'
<1>1. /\ UNCHANGED <<rows, pc, why, frames, copy, dirty>> /\ SettingUp(b)
      /\ setup'[b].made = setup[b].made /\ setup'[b].name = u /\ setup'[b].read = rows[u]
  BY SetupTyped DEF Sure, Good, TypeOK, SetupRead, Setups, SettingUp
<1>2. PhaseInv(b)'
  BY <1>1 DEF Sure, CountsInv, PhaseInv, SettingUp, Syncing
<1>3. ReadInv(b)'
  BY <1>1, BeatAssumption DEF ReadInv
<1>4. ASSUME NEW t \in Tasks PROVE Counts(b, t)'
  BY <1>1, CountsFrame DEF Sure, CountsInv, Named
<1> QED BY <1>2, <1>3, <1>4 DEF CountsInv

LEMMA MergeCounts ==
  ASSUME NEW b \in Beats, Sure(b), Merge(b)
  PROVE  CountsInv(b)'
<1>1. /\ UNCHANGED <<rows, why, frames, dirty>> /\ pc[b] = "merge"
      /\ setup'[b].made = NoEntries /\ setup'[b].read = None
      /\ pc'[b] = "setup" \/ (pc'[b] = "wait" /\ setup'[b] = NoSetup)
      /\ \A t \in Tasks : copy'[b][t] = Merging(b, t)
  BY DEF Sure, Good, TypeOK, Merge, Goes, NoSetup, Merging
<1>2. PhaseInv(b)'
  BY <1>1 DEF Sure, CountsInv, PhaseInv, SettingUp, Syncing
<1>3. ReadInv(b)'
  BY <1>1 DEF ReadInv
<1>4. ASSUME NEW t \in Tasks PROVE Counts(b, t)'
  <2>1. Merging(b, t)' = Merging(b, t) /\ Counts(b, t)
    BY <1>1 DEF Sure, CountsInv, Merging, NoEntries
  <2>2. Named(b, t) => Named(b, t)'
    BY <1>1 DEF Named
  <2> QED BY <1>1, <2>1, <2>2 DEF Counts, Same
<1> QED BY <1>2, <1>3, <1>4 DEF CountsInv

LEMMA SetupWriteCounts ==
  ASSUME NEW b \in Beats, Sure(b), Good', SetupWrite(b)
  PROVE  CountsInv(b)'
<1> DEFINE u == setup[b].name
           read == setup[b].read
           new == Merged(read)
<1>1. /\ u \in Tasks /\ read \in Rows \cup {None} /\ setup[b].made[u] = None
      /\ setup[b].made \in [Tasks -> Entries \cup {None}]
  BY SetupTyped DEF Sure, Good, BeatInv, SetupInv, SetupWrite
<1>2. /\ setup'[b].read = None /\ UNCHANGED <<copy, pc, why, frames, dirty>> /\ pc[b] = "setup"
      /\ setup'[b].made = [setup[b].made EXCEPT ![u] = IF new.enabled THEN Entry(new) ELSE None]
  BY SetupTyped DEF Sure, Good, TypeOK, Setups, SetupWrite
<1>3. \A t \in Tasks \ {u} : rows'[t] = rows[t]
  <2>1. CASE read = None
    BY <2>1, <1>1 DEF SetupWrite, Sure, Good, TypeOK
  <2>2. CASE read # None /\ new # read
    <3>1. rows' = [rows EXCEPT ![u] = Over(rows[u], read, new)]
      BY <2>2 DEF SetupWrite
    <3> QED BY <3>1, <1>1 DEF Sure, Good, TypeOK
  <2>3. CASE read # None /\ new = read
    BY <2>3, <1>1 DEF SetupWrite
  <2> QED BY <2>1, <2>2, <2>3
<1>4. PhaseInv(b)'
  BY <1>2 DEF Sure, CountsInv, PhaseInv, SettingUp, Syncing
<1>5. ReadInv(b)'
  BY <1>2 DEF ReadInv
<1>6. ASSUME NEW t \in Tasks \ {u} PROVE Counts(b, t)'
  BY <1>1, <1>2, <1>3, CountsFrame DEF Sure, CountsInv, Named
<1>7. ASSUME NEW t \in Tasks, t = u PROVE Counts(b, t)'
  <2>1. CASE read = None
    <3>1. rows'[t] = new /\ new = NewRow(0) /\ nextId \in 1 .. MaxId
      BY <1>7, <2>1, <1>1 DEF SetupWrite, Sure, Good, TypeOK, Merged
    <3>2. setup'[b].made[t] = Entry(new) /\ Entry(new).count = 0 /\ new.count = 0 /\ Entry(new) # None
      <4>1. new \in Rows /\ new.enabled /\ new.count = 0
        BY <3>1, NoRuns, BeatAssumption DEF NewRow, Rows, Edits
      <4>2. Entry(new) \in Entries /\ Entry(new).count = 0
        BY <4>1, EntryTyped DEF Entry
      <4> QED BY <4>1, <4>2, <1>1, <1>2, <1>7, NoneIsNoRow
    <3>3. Merging(b, t)' = Entry(new)
      BY <3>2 DEF Merging
    <3> QED BY <3>1, <3>2, <3>3, <1>7, CountsEqual
  <2>2. CASE read # None /\ new # read
    <3>0. rows' = [rows EXCEPT ![u] = Over(rows[u], read, new)] /\ Same(u, read)
      BY <2>2 DEF SetupWrite
    <3>1. /\ rows[t] \in Rows /\ rows[t].id = read.id /\ rows[t].count = read.count
          /\ rows'[t] = Over(rows[t], read, new)
      BY <3>0, <1>7, <2>2 DEF Same, Sure, Good, TypeOK, CountsInv, ReadInv
    <3>2. new = [read EXCEPT !.enabled = TRUE, !.edit = 0, !.count = 0] /\ read \in Rows
      BY <1>1, <2>2 DEF Merged
    <3>3. new \in Rows /\ new.enabled = TRUE /\ new.count = 0
      <4>1. new.enabled = TRUE /\ new.count = 0
        BY <3>2 DEF Rows
      <4> QED BY <1>1, <2>2, <4>1, MergedTyped
    <3>4. Over(rows[t], read, new).count = 0
      <4>1. Over(rows[t], read, new).count
              = IF new.count # read.count THEN new.count ELSE rows[t].count
        BY <3>1 DEF Over, Rows
      <4> QED BY <3>1, <3>3, <4>1
    <3>5. Entry(new) \in Entries /\ Entry(new).count = 0
      BY <3>3, EntryTyped DEF Entry
    <3>6. Merging(b, t)' = Entry(new)
      BY <1>1, <1>2, <1>7, <3>3, <3>5, NoneIsNoRow DEF Merging
    <3> QED BY <1>7, <3>1, <3>4, <3>5, <3>6, CountsEqual
  <2>3. CASE read # None /\ new = read
    <3>1. rows'[t] = rows[t] /\ read \in Rows
      BY <2>3, <1>1 DEF SetupWrite
    <3>2. CASE read.enabled
      <4>1. Entry(read) \in Entries /\ Entry(read).count = read.count /\ Entry(read).id = read.id
        BY <3>1, EntryTyped DEF Entry
      <4>2. Merging(b, t)' = Entry(read)
        BY <1>1, <1>2, <1>7, <2>3, <3>2, <4>1, NoneIsNoRow DEF Merging
      <4>3. rows[t] # None /\ rows[t].id = read.id => read.count = rows[t].count
        BY <1>7, <2>3 DEF Sure, CountsInv, ReadInv, Same
      <4>4. (Merging(b, t) # None /\ Same(t, Merging(b, t)) => Merging(b, t).count = rows[t].count)'
        BY <3>1, <4>1, <4>2, <4>3 DEF Same
      <4> QED BY <1>7, <4>4, CountsEqual
    <3>3. CASE ~read.enabled
      <4>1. setup'[b].made[t] = setup[b].made[t]
        BY <1>1, <1>2, <1>7, <2>3, <3>3
      <4> QED BY <1>2, <1>7, <3>1, <4>1, CountsFrame DEF Sure, CountsInv, Named
    <3> QED BY <3>2, <3>3
  <2> QED BY <2>1, <2>2, <2>3
<1> QED BY <1>1, <1>4, <1>5, <1>6, <1>7 DEF CountsInv

LEMMA EmptySeq ==
  ASSUME NEW S, NEW s \in Seq(S)
  PROVE  s = <<>> <=> Len(s) = 0
  OBVIOUS

LEMMA Least ==
  ASSUME NEW n \in Nat, n # 0
  PROVE  /\ ~(n > 1) => n = 1
         /\ \A i \in 1 .. n - 1 : i \in 1 .. n /\ i # n
  OBVIOUS

LEMMA TopChanged ==
  ASSUME NEW fs \in Seq(Frames), fs # <<>>, NEW f
  PROVE  LET gs == [fs EXCEPT ![Len(fs)] = f] IN
         /\ Len(gs) = Len(fs) /\ gs[Len(gs)] = f
         /\ \A i \in 1 .. Len(fs) - 1 : gs[i] = fs[i]
<1> DEFINE gs == [fs EXCEPT ![Len(fs)] = f]
<1>1. Len(fs) \in Nat /\ Len(fs) # 0 /\ DOMAIN fs = 1 .. Len(fs)
  BY EmptySeq
<1>2. Len(gs) = Len(fs)
  <2>1. gs \in Seq(Frames \cup {f})
    BY <1>1
  <2> QED BY <1>1, <2>1
<1>3. gs[Len(fs)] = f
  BY <1>1
<1>4. ASSUME NEW i \in 1 .. Len(fs) - 1 PROVE gs[i] = fs[i]
  <2>1. i \in DOMAIN fs /\ i # Len(fs)
    BY <1>1, Least
  <2> QED BY <2>1
<1> HIDE DEF gs
<1>5. gs[Len(gs)] = f
  BY <1>2, <1>3
<1>6. Len(gs) = Len(fs) /\ gs[Len(gs)] = f /\ \A i \in 1 .. Len(fs) - 1 : gs[i] = fs[i]
  BY <1>2, <1>4, <1>5
<1> QED BY <1>6 DEF gs

LEMMA PopCounts ==
  ASSUME NEW b \in Beats, Sure(b), Pop(b)
  PROVE  CountsInv(b)'
<1>1. frames[b] \in Seq(Frames) /\ frames[b] # <<>> /\ dirty[b] \subseteq Tasks
  BY SetupTyped DEF Sure, Good, BeatInv, StackInv, Syncing, Pop
<1>2. Len(frames[b]) \in Nat \ {0} /\ Len(frames[b]) \in DOMAIN frames[b]
  BY <1>1
<1>3. PICK u \in dirty[b] :
        LET named == [frames[b] EXCEPT ![Len(frames[b])].name = u] IN
        /\ dirty' = [dirty EXCEPT ![b] = @ \ {u}]
        /\ IF Changed(b)
           THEN frames' = [frames EXCEPT ![b] = Append(named, Frame)] /\ UNCHANGED pc
           ELSE frames' = [frames EXCEPT ![b] = named] /\ Goes(b, "save")
  BY DEF Pop
<1> DEFINE named == [frames[b] EXCEPT ![Len(frames[b])].name = u]
<1>4. /\ UNCHANGED <<rows, why, copy, setup>> /\ pc[b] = "pop" /\ dirty'[b] = dirty[b] \ {u}
      /\ \/ frames'[b] = Append(named, Frame) /\ pc'[b] = "pop"
         \/ frames'[b] = named /\ pc'[b] = "save"
  BY <1>3 DEF Sure, Good, TypeOK, Goes, Pop
<1>5. ~SettingUp(b) /\ why[b] # "setup"
  BY <1>3, <1>4 DEF Sure, CountsInv, PhaseInv, SettingUp, Syncing
<1>6. PhaseInv(b)'
  BY <1>4, <1>5 DEF Sure, CountsInv, PhaseInv, SettingUp, Syncing
<1>7. ReadInv(b)'
  BY <1>4 DEF Sure, CountsInv, ReadInv, Same
<1>8. frames[b][Len(frames[b])] \in Frames
  BY <1>1, StackTyped, EmptyTyped
<1>9. Len(named) = Len(frames[b]) /\ named[Len(named)].name = u
      /\ \A i \in 1 .. Len(frames[b]) - 1 : named[i] = frames[b][i]
  <2> DEFINE f == [frames[b][Len(frames[b])] EXCEPT !.name = u]
  <2>1. f.name = u
    BY <1>8 DEF Frames
  <2>2. named = [frames[b] EXCEPT ![Len(frames[b])] = f]
    BY <1>1, <1>2
  <2> QED BY <1>1, <2>1, <2>2, TopChanged
<1>10. ASSUME NEW t \in Tasks, t = u \/ Named(b, t) PROVE Named(b, t)'
  <2>1. PICK i \in 1 .. Len(frames[b]) : named[i].name = t /\ (i = Len(frames[b]) \/ i < Len(frames[b]))
    <3>1. CASE t = u
      BY <1>2, <1>9, <3>1
    <3>2. CASE Named(b, t)
      <4>1. PICK i \in 1 .. Len(frames[b]) : frames[b][i].name = t /\ i < Len(frames[b])
        BY <1>4, <3>2 DEF Named
      <4> QED BY <1>2, <1>9, <4>1
    <3> QED BY <1>10, <3>1, <3>2
  <2>2. CASE frames'[b] = named /\ pc'[b] = "save"
    BY <1>9, <2>1, <2>2 DEF Named
  <2>3. CASE frames'[b] = Append(named, Frame) /\ pc'[b] = "pop"
    <3>1. Len(Append(named, Frame)) = Len(frames[b]) + 1 /\ Append(named, Frame)[i] = named[i]
      BY <1>1, <1>2, <1>9, <2>1
    <3> QED BY <1>2, <2>1, <2>3, <3>1 DEF Named
  <2> QED BY <1>4, <2>2, <2>3
<1>11. ASSUME NEW t \in Tasks PROVE Counts(b, t)'
  <2>1. t \in dirty[b] \/ Named(b, t) => t \in dirty'[b] \/ Named(b, t)'
    BY <1>4, <1>10
  <2> QED BY <1>4, <2>1, CountsFrame DEF Sure, CountsInv
<1> QED BY <1>6, <1>7, <1>11 DEF CountsInv

LEMMA SyncEndsCounts ==
  ASSUME NEW b \in Beats, Sure(b), SyncEnds(b)
  PROVE  CountsInv(b)'
<1>1. frames[b] \in Seq(Frames) /\ frames[b] # <<>> /\ pc[b] = "pop" /\ UNCHANGED rows
  BY SetupTyped DEF Sure, Good, BeatInv, StackInv, Syncing, SyncEnds
<1>2. CASE Len(frames[b]) > 1 \/ why[b] \in {"setup", "tick"}
  <2>1. /\ dirty'[b] = dirty[b] \cup frames[b][Len(frames[b])].failed
        /\ UNCHANGED frames /\ pc'[b] = "reload" /\ UNCHANGED <<why, copy, setup>>
    BY <1>2 DEF Sure, Good, TypeOK, SyncEnds, Returns, Goes
  <2>2. SettingUp(b) => dirty'[b] = {}
    <3>1. SettingUp(b) => frames[b] = <<Frame>> /\ dirty[b] = {}
      BY <1>1 DEF Sure, CountsInv, PhaseInv, Syncing
    <3>2. <<Frame>>[Len(<<Frame>>)].failed = {}
      BY DEF Frame
    <3> QED BY <2>1, <3>1, <3>2
  <2>3. PhaseInv(b)'
    BY <1>1, <2>1, <2>2 DEF Sure, CountsInv, PhaseInv, SettingUp, Syncing
  <2>4. ReadInv(b)'
    BY <1>1, <2>1 DEF Sure, CountsInv, ReadInv, Same
  <2>5. ASSUME NEW t \in Tasks PROVE Counts(b, t)'
    <3>1. Named(b, t) => Named(b, t)'
      BY <1>1, <2>1 DEF Named
    <3> QED BY <1>1, <2>1, <3>1, CountsFrame DEF Sure, CountsInv
  <2> QED BY <2>3, <2>4, <2>5 DEF CountsInv
<1>3. CASE ~(Len(frames[b]) > 1 \/ why[b] \in {"setup", "tick"})
  <2>0. Len(frames[b]) = 1 /\ ~SettingUp(b)
    <3>1. Len(frames[b]) = 1
      <4>1. Len(frames[b]) \in Nat /\ Len(frames[b]) # 0
        BY <1>1, EmptySeq
      <4>2. ~(Len(frames[b]) > 1)
        BY <1>3
      <4> QED BY <4>1, <4>2, Least
    <3>2. pc[b] \notin {"setup", "merge"} /\ why[b] # "setup"
      BY <1>1, <1>3
    <3> QED BY <3>1, <3>2 DEF SettingUp
  <2>1. CASE why[b] \in {"plain", "final"}
    <3>1. /\ dirty'[b] = dirty[b] \cup frames[b][Len(frames[b])].failed
          /\ UNCHANGED <<copy, setup>>
          /\ \/ frames'[b] = <<>> /\ pc'[b] = "tick"
             \/ frames'[b] = <<Frame>> /\ pc'[b] = "pop" /\ why'[b] = "exit"
      BY <1>3, <2>1 DEF Sure, Good, TypeOK, SyncEnds, Returns, Goes, Syncs
    <3>2. PhaseInv(b)'
      BY <1>1, <2>0, <3>1 DEF Sure, CountsInv, PhaseInv, SettingUp, Syncing
    <3>3. ReadInv(b)'
      BY <1>1, <3>1 DEF Sure, CountsInv, ReadInv, Same
    <3>4. ASSUME NEW t \in Tasks PROVE Counts(b, t)'
      <4>1. ~Named(b, t)
        BY <1>1, <2>0 DEF Named
      <4> QED BY <1>1, <3>1, <4>1, CountsFrame DEF Sure, CountsInv
    <3> QED BY <3>2, <3>3, <3>4 DEF CountsInv
  <2>2. CASE why[b] \notin {"plain", "final"}
    BY <1>3, <2>2, GoneCounts DEF Sure, SyncEnds, Returns
  <2> QED BY <2>1, <2>2
<1> QED BY <1>2, <1>3

LEMMA SaveCounts ==
  ASSUME NEW b \in Beats, Sure(b), Good', Save(b)
  PROVE  CountsInv(b)'
<1> DEFINE u == Top(b).name
           entry == copy[b][u]
<1>1. u \in Tasks /\ pc[b] = "save" /\ ~SettingUp(b) /\ setup[b] = NoSetup
  BY DEF Sure, CountsInv, PhaseInv, Good, BeatInv, StackInv, Save, Syncing
<1>2. /\ pc'[b] = "pop" /\ UNCHANGED <<why, frames, copy, dirty, setup>> /\ entry # None
      /\ \A t \in Tasks \ {u} : rows'[t] = rows[t]
  BY <1>1 DEF Sure, Good, TypeOK, Save, Goes
<1>3. PhaseInv(b)'
  BY <1>1, <1>2 DEF Sure, CountsInv, PhaseInv, SettingUp, Syncing
<1>4. ReadInv(b)'
  BY <1>1, <1>2 DEF ReadInv, NoSetup
<1>5. ASSUME NEW t \in Tasks, t # u PROVE Counts(b, t)'
  <2>1. Named(b, t) => Named(b, t)'
    <3>1. ASSUME Named(b, t) PROVE Named(b, t)'
      <4>1. PICK i \in 1 .. Len(frames[b]) : frames[b][i].name = t
        BY <3>1 DEF Named
      <4>2. i # Len(frames[b])
        BY <1>5, <4>1 DEF Top
      <4>3. frames[b] \in Seq(Frames)
        BY SetupTyped DEF Sure, Good
      <4>4. i < Len(frames[b])
        BY <4>1, <4>2, <4>3
      <4> QED BY <1>2, <4>1, <4>4 DEF Named
    <3> QED BY <3>1
  <2> QED BY <1>2, <1>5, <2>1, CountsFrame DEF Sure, CountsInv
<1>6. ASSUME NEW t \in Tasks, t = u PROVE Counts(b, t)'
  <2>1. Merging(b, t)' = copy[b][t]
    BY <1>1, <1>2 DEF Merging, NoSetup, NoEntries
  <2>2. CASE Same(u, entry)
    <3>1. rows[u] \in Rows /\ rows'[u] = Saved(rows[u], entry)
      BY <1>1, <2>2 DEF Sure, Good, TypeOK, Save, Same
    <3>2. Saved(rows[u], entry).count = entry.count
      BY <3>1 DEF Saved, Rows
    <3> QED BY <1>6, <2>1, <3>1, <3>2, CountsEqual
  <2>3. CASE ~Same(u, entry)
    <3>1. rows' = rows
      BY <2>3 DEF Save
    <3> QED BY <1>6, <2>1, <2>3, <3>1 DEF Counts, Same
  <2> QED BY <2>2, <2>3
<1> QED BY <1>3, <1>4, <1>5, <1>6 DEF CountsInv

LEMMA SaveMissingCounts ==
  ASSUME NEW b \in Beats, Sure(b), SaveMissing(b)
  PROVE  CountsInv(b)'
<1> DEFINE u == Top(b).name
           kept == [frames[b] EXCEPT ![Len(frames[b])].failed = @ \cup {u}]
<1>1. u \in Tasks /\ pc[b] = "save" /\ ~SettingUp(b) /\ setup[b] = NoSetup
      /\ frames[b] \in Seq(Frames) /\ copy[b][u] = None
  BY SetupTyped DEF Sure, CountsInv, PhaseInv, Good, BeatInv, StackInv, SaveMissing, Syncing
<1>2. /\ pc'[b] = "pop" /\ UNCHANGED <<rows, why, copy, dirty, setup>> /\ frames'[b] = kept
  BY <1>1 DEF Sure, Good, TypeOK, SaveMissing, Goes
<1>3. PhaseInv(b)'
  BY <1>1, <1>2 DEF Sure, CountsInv, PhaseInv, SettingUp, Syncing
<1>4. ReadInv(b)'
  BY <1>1, <1>2 DEF ReadInv, NoSetup
<1>5. ASSUME NEW t \in Tasks, t # u PROVE Counts(b, t)'
  <2>1. ASSUME Named(b, t) PROVE Named(b, t)'
    <3>1. PICK i \in 1 .. Len(frames[b]) : frames[b][i].name = t
      BY <2>1 DEF Named
    <3>2. i # Len(frames[b])
      BY <1>5, <3>1 DEF Top
    <3>3. i < Len(frames[b]) /\ Len(kept) = Len(frames[b]) /\ kept[i] = frames[b][i]
      BY <1>1, <3>1, <3>2
    <3> QED BY <1>2, <3>1, <3>3 DEF Named
  <2> QED BY <1>2, <2>1, CountsFrame DEF Sure, CountsInv
<1>6. ASSUME NEW t \in Tasks, t = u PROVE Counts(b, t)'
  <2>1. Merging(b, t)' = None
    BY <1>1, <1>2, <1>6 DEF Merging, NoSetup, NoEntries
  <2> QED BY <2>1 DEF Counts
<1> QED BY <1>3, <1>4, <1>5, <1>6 DEF CountsInv

LEMMA ReloadCounts ==
  ASSUME NEW b \in Beats, Sure(b), Good', Reload(b)
  PROVE  CountsInv(b)'
<1>1. frames[b] \in Seq(Frames) /\ frames[b] # <<>> /\ pc[b] = "reload" /\ pc[b] \in Syncing
  BY SetupTyped DEF Sure, Good, BeatInv, StackInv, Syncing, Reload
<1>2. /\ UNCHANGED <<rows, why, dirty, setup>> /\ copy'[b] = EnabledEntries
      /\ frames'[b] = Outer(b)
      /\ pc'[b] = IF Outer(b) # <<>> THEN "save" ELSE IF why[b] = "tick" THEN "look" ELSE "merge"
  BY DEF Sure, Good, TypeOK, Reload, Goes
<1>3. Outer(b) = <<>> <=> Len(frames[b]) = 1
  <2>1. Outer(b) \in Seq(Frames) /\ Len(Outer(b)) = Len(frames[b]) - 1 /\ Len(frames[b]) \in Nat
    BY <1>1, OuterTyped DEF Outer, Sure
  <2>2. Outer(b) = <<>> <=> Len(Outer(b)) = 0
    BY <2>1, EmptySeq
  <2> QED BY <2>1, <2>2
<1>4. Outer(b) = <<>> => why[b] \in {"setup", "tick"}
  BY <1>1, <1>3 DEF Sure, Good, BeatInv, StackInv
<1>5. SettingUp(b) => Outer(b) = <<>> /\ dirty[b] = {}
  <2>1. SettingUp(b) => frames[b] = <<Frame>> /\ dirty[b] = {}
    BY <1>1 DEF Sure, CountsInv, PhaseInv
  <2>2. Len(<<Frame>>) = 1
    OBVIOUS
  <2> QED BY <1>3, <2>1, <2>2
<1>6. SettingUp(b)' <=> SettingUp(b)
  BY <1>1, <1>2, <1>4, <1>5 DEF SettingUp, Syncing
<1>7. PhaseInv(b)'
  BY <1>1, <1>2, <1>4, <1>5, <1>6 DEF Sure, CountsInv, PhaseInv, SettingUp, Syncing
<1>8. ReadInv(b)'
  BY <1>2 DEF Sure, CountsInv, ReadInv, Same
<1>9. ASSUME NEW t \in Tasks PROVE Counts(b, t)'
  <2>1. CASE setup[b].made[t] = None
    <3>1. Merging(b, t)' = EnabledEntries[t]
      BY <1>2, <2>1 DEF Merging
    <3>2. EnabledEntries[t] # None => EnabledEntries[t].count = rows[t].count
      BY DEF EnabledEntries, Entry
    <3> QED BY <1>2, <3>1, <3>2, CountsEqual
  <2>2. CASE setup[b].made[t] # None
    <3>1. Merging(b, t)' = Merging(b, t)
      BY <1>2, <2>2 DEF Merging
    <3>2. SettingUp(b)
      BY <2>2 DEF Sure, CountsInv, PhaseInv, NoSetup, NoEntries
    <3>3. ~Named(b, t) /\ dirty[b] = {}
      <4>1. frames[b] = <<Frame>> /\ dirty[b] = {}
        BY <1>1, <3>2 DEF Sure, CountsInv, PhaseInv
      <4> QED BY <1>1, <4>1 DEF Named
    <3> QED BY <1>2, <3>1, <3>3 DEF Sure, CountsInv, Counts, Same
  <2> QED BY <2>1, <2>2
<1> QED BY <1>7, <1>8, <1>9 DEF CountsInv

\* The end of a tick, after what it did to the table and the copy.
LEMMA RestsCounts ==
  ASSUME NEW b \in Beats, Sure(b), pc[b] = "work", Rests(b), UNCHANGED setup,
         \A t \in Tasks : Counts(b, t) /\ ~Named(b, t) /\ ~Named(b, t)' => Counts(b, t)'
  PROVE  CountsInv(b)'
<1>1. /\ frames[b] = <<>> /\ setup[b] = NoSetup
      /\ \/ pc'[b] = "tick" /\ UNCHANGED <<why, frames>>
         \/ pc'[b] = "pop" /\ why'[b] = "plain" /\ frames'[b] = <<Frame>>
  BY DEF Sure, CountsInv, PhaseInv, SettingUp, Syncing, Good, TypeOK, Rests, Goes, Syncs
<1>2. PhaseInv(b)'
  BY <1>1 DEF PhaseInv, SettingUp, Syncing
<1>3. ReadInv(b)'
  BY <1>1 DEF ReadInv, NoSetup
<1>4. ASSUME NEW t \in Tasks PROVE Counts(b, t)'
  <2>1. ~Named(b, t)
    BY <1>1 DEF Named
  <2>2. pc'[b] # "save" /\ (frames'[b] = <<>> \/ frames'[b] = <<Frame>>)
    BY <1>1
  <2>3. \A i \in 1 .. Len(frames'[b]) : ~(i < Len(frames'[b]))
    <3>1. Len(<<>>) = 0 /\ Len(<<Frame>>) = 1
      OBVIOUS
    <3>2. CASE frames'[b] = <<>>
      BY <3>1, <3>2
    <3>3. CASE frames'[b] = <<Frame>>
      BY <3>1, <3>3
    <3> QED BY <2>2, <3>2, <3>3
  <2>4. ~Named(b, t)'
    BY <2>2, <2>3 DEF Named
  <2> QED BY <2>1, <2>4 DEF Sure, CountsInv
<1> QED BY <1>2, <1>3, <1>4 DEF CountsInv

LEMMA IdleCounts ==
  ASSUME NEW b \in Beats, Sure(b), Idle(b)
  PROVE  CountsInv(b)'
<1>1. ASSUME NEW t \in Tasks, Counts(b, t), ~Named(b, t) PROVE Counts(b, t)'
  BY <1>1, CountsFrame DEF Idle
<1> QED BY <1>1, RestsCounts DEF Idle

LEMMA RunCounts ==
  ASSUME NEW b \in Beats, Sure(b), Good', NEW u \in Tasks, Run(b, u)
  PROVE  CountsInv(b)'
<1>1. /\ copy[b][u] # None /\ copy[b][u] \in Entries /\ UNCHANGED <<rows, setup>> /\ pc[b] = "work"
      /\ copy'[b][u] = Counted(copy[b][u]) /\ \A t \in Tasks \ {u} : copy'[b][t] = copy[b][t]
      /\ dirty'[b] = dirty[b] \cup {u}
  BY DEF Sure, Good, TypeOK, Run, Due
<1>2. setup[b] = NoSetup
  BY <1>1 DEF Sure, CountsInv, PhaseInv, SettingUp, Syncing
<1>3. ASSUME NEW t \in Tasks, Counts(b, t), ~Named(b, t) PROVE Counts(b, t)'
  <2>1. CASE t # u
    BY <1>1, <1>3, <2>1, CountsFrame
  <2>2. CASE t = u
    <3>1. Merging(b, t) = copy[b][u] /\ Merging(b, t)' = Counted(copy[b][u])
      BY <1>1, <1>2, <2>2 DEF Merging, NoSetup, NoEntries
    <3>2. Counted(copy[b][u]).count = copy[b][u].count + 1 /\ Counted(copy[b][u]).id = copy[b][u].id
      BY <1>1 DEF Counted, Entries
    <3>3. copy[b][u].count \in Nat /\ (rows[t] # None => rows[t].count \in Nat)
      BY <1>1, <2>2, <3>1, CountTypes DEF Sure
    <3>4. rows[t] # None /\ rows[t].id = copy[b][u].id => copy[b][u].count >= rows[t].count
      BY <1>1, <1>3, <3>1 DEF Counts, Same
    <3>5. rows[t] # None /\ rows[t].id = copy[b][u].id => copy[b][u].count + 1 >= rows[t].count
      BY <3>3, <3>4
    <3> QED BY <1>1, <2>2, <3>1, <3>2, <3>5 DEF Counts, Same
  <2> QED BY <2>1, <2>2
<1> QED BY <1>1, <1>3, RestsCounts DEF Run

LEMMA ResetCounts ==
  ASSUME NEW b \in Beats, Sure(b), Good', NEW u \in Tasks, OneOffReset(b, u)
  PROVE  CountsInv(b)'
<1> DEFINE new == [Disabled(copy[b][u]) EXCEPT !.quiet = FALSE]
<1>1. /\ copy[b][u] # None /\ copy[b][u] \in Entries /\ UNCHANGED <<setup, dirty>> /\ pc[b] = "work"
      /\ copy'[b][u] = new /\ \A t \in Tasks \ {u} : copy'[b][t] = copy[b][t]
      /\ \A t \in Tasks \ {u} : rows'[t] = rows[t]
  BY DEF Sure, Good, TypeOK, OneOffReset, Due
<1>2. setup[b] = NoSetup
  BY <1>1 DEF Sure, CountsInv, PhaseInv, SettingUp, Syncing
<1>3. ASSUME NEW t \in Tasks, Counts(b, t), ~Named(b, t) PROVE Counts(b, t)'
  <2>1. CASE t # u
    BY <1>1, <1>3, <2>1, CountsFrame
  <2>2. CASE t = u
    <3>1. Merging(b, t)' = new
      BY <1>1, <1>2, <2>2 DEF Merging, NoSetup, NoEntries
    <3>2. new.count = 0 /\ new.id = copy[b][u].id
      BY <1>1 DEF Disabled, Entries
    <3>3. CASE Same(u, copy[b][u])
      <4>1. rows[u] \in Rows /\ rows'[u] = Disabled(rows[u])
        BY <3>3 DEF Same, Sure, Good, TypeOK, OneOffReset
      <4>2. rows'[u].count = 0
        BY <4>1 DEF Disabled, Rows
      <4> QED BY <2>2, <3>1, <3>2, <4>2, CountsEqual
    <3>4. CASE ~Same(u, copy[b][u])
      <4>1. rows' = rows
        BY <3>4 DEF OneOffReset
      <4> QED BY <2>2, <3>1, <3>2, <3>4, <4>1 DEF Counts, Same
    <3> QED BY <3>3, <3>4
  <2> QED BY <2>1, <2>2
<1> QED BY <1>1, <1>3, RestsCounts DEF OneOffReset

LEMMA LookCounts ==
  ASSUME NEW b \in Beats, Sure(b), SetupLook(b) \/ TickLook(b)
  PROVE  CountsInv(b)'
<1>1. CASE SetupLook(b)
  <2>1. pc[b] = "setup" /\ UNCHANGED <<rows, copy, dirty, setup>>
    BY <1>1 DEF SetupLook
  <2>2. CASE Changed(b)
    BY <1>1, <2>1, <2>2, SyncsCounts DEF SetupLook, Syncing
  <2>3. CASE ~Changed(b)
    BY <1>1, <2>1, <2>3, GoesCounts DEF SetupLook
  <2> QED BY <2>2, <2>3
<1>2. CASE TickLook(b)
  <2>1. pc[b] = "look" /\ UNCHANGED <<rows, copy, dirty, setup>>
    BY <1>2 DEF TickLook
  <2>2. pc[b] \notin Syncing /\ ~SettingUp(b)
    BY <2>1 DEF Syncing, SettingUp
  <2>3. CASE Changed(b)
    BY <1>2, <2>1, <2>2, <2>3, SyncsCounts DEF TickLook
  <2>4. CASE ~Changed(b)
    BY <1>2, <2>1, <2>2, <2>4, GoesCounts DEF TickLook
  <2> QED BY <2>3, <2>4
<1> QED BY <1>1, <1>2

LEMMA LoopCounts ==
  ASSUME NEW b \in Beats, Sure(b),
         Acquire(b) \/ Extend(b) \/ Stop(b) \/ Close(b) \/ CloseFails(b)
  PROVE  CountsInv(b)'
<1>1. /\ pc[b] \in {"wait", "tick", "close"}
      /\ UNCHANGED <<rows, copy, dirty, setup>>
  BY DEF Acquire, Extend, Stop, Close, CloseFails
<1>2. pc[b] \notin Syncing /\ ~SettingUp(b) /\ pc[b] # "off"
  BY <1>1 DEF Syncing, SettingUp
<1>3. CASE Acquire(b) \/ Extend(b) \/ Stop(b)
  BY <1>1, <1>2, <1>3, GoesCounts DEF Acquire, Extend, Stop
<1>4. CASE Close(b) \/ CloseFails(b)
  BY <1>1, <1>2, <1>4, SyncsCounts DEF Close, CloseFails
<1> QED BY <1>3, <1>4

\* With one beat, whose database does not fail, every step keeps the counts.
LEMMA NextCounts ==
  ASSUME Faults = FALSE, NEW b \in Beats, \A c \in Beats : c = b, Sure(b), [Next]_vars
  PROVE  CountsInv(b)'
<1>1. Good'
  BY NextGood DEF Sure
<1>2. CASE (\E s \in notices : Publish(s)) \/ Expire \/ Tick \/ UNCHANGED vars
  <2>1. UNCHANGED <<rows, beatVars>>
    BY <1>2 DEF Publish, Expire, Tick, vars
  <2> QED BY <2>1, StillCounts DEF Sure
<1>3. ASSUME NEW a \in Admins, AdminStep(a) PROVE CountsInv(b)'
  <2>1. Commit(a) \/ UNCHANGED <<rows, beatVars>>
    BY <1>3 DEF AdminStep, Read, Flush, Abort
  <2> QED BY <2>1, StillCounts, CommitCounts DEF Sure
<1>4. CASE SetupStep(b)
  <2>1. CASE SetupFails(b)
    BY <2>1, GoneCounts DEF SetupFails, Sure
  <2> QED BY <1>1, <1>4, <2>1, SetupReadCounts, SetupWriteCounts, LookCounts, MergeCounts DEF SetupStep
<1>5. CASE SyncStep(b)
  BY <1>1, <1>5, PopCounts, SyncEndsCounts, SaveCounts, SaveMissingCounts, ReloadCounts DEF SyncStep
<1>6. CASE LoopStep(b) \/ Stop(b)
  BY <1>1, <1>6, LoopCounts, LookCounts, IdleCounts, RunCounts, ResetCounts DEF LoopStep
<1>7. CASE FaultStep(b)
  <2>1. CloseFails(b) \/ Crash(b)
    BY <1>7 DEF FaultStep, SaveFails, ReloadFails, ResetFails
  <2> QED BY <2>1, LoopCounts, GoneCounts DEF Crash, Sure
<1>8. CASE Start(b)
  BY <1>1, <1>8, StartCounts
<1> QED BY <1>2, <1>3, <1>4, <1>5, <1>6, <1>7, <1>8 DEF Next, BeatStep

LEMMA InitCounts == \A b \in Beats : Init => CountsInv(b)
<1> SUFFICES ASSUME NEW b \in Beats, Init PROVE CountsInv(b)
  OBVIOUS
<1>1. pc[b] = "off" /\ frames[b] = <<>> /\ dirty[b] = {} /\ setup[b] = NoSetup /\ copy[b] = NoEntries
  BY DEF Init
<1>2. PhaseInv(b)
  BY <1>1 DEF PhaseInv, SettingUp, Syncing
<1>3. ReadInv(b)
  BY <1>1 DEF ReadInv, NoSetup
<1>4. \A t \in Tasks : Counts(b, t)
  BY <1>1 DEF Counts, Merging, NoSetup, NoEntries
<1> QED BY <1>2, <1>3, <1>4 DEF CountsInv

OneBeatInv == Good /\ IdsInv /\ \A b \in Beats : CountsInv(b)

LEMMA OneBeatInductive ==
  ASSUME Faults = FALSE, \A b, c \in Beats : b = c
  PROVE  Spec => []OneBeatInv
<1>1. Init => OneBeatInv
  BY InitGood, InitIds, InitCounts DEF OneBeatInv
<1>2. OneBeatInv /\ [Next]_vars => OneBeatInv'
  <2> SUFFICES ASSUME OneBeatInv, [Next]_vars PROVE OneBeatInv'
    OBVIOUS
  <2>1. Good' /\ IdsInv'
    BY NextGood, NextIds DEF OneBeatInv
  <2>2. ASSUME NEW b \in Beats PROVE CountsInv(b)'
    <3>1. Sure(b) /\ \A c \in Beats : c = b
      BY DEF OneBeatInv, Sure
    <3> QED BY <3>1, NextCounts
  <2> QED BY <2>1, <2>2 DEF OneBeatInv
<1> QED BY <1>1, <1>2, PTL DEF Spec

LEMMA UnsavedKnown ==
  ASSUME OneBeatInv
  PROVE  UnsavedIsDirty
<1> SUFFICES ASSUME NEW b \in Beats, NEW t \in Tasks, Running(b), copy[b][t] # None,
                    Same(t, copy[b][t]), copy[b][t].count > rows[t].count
             PROVE  t \in dirty[b] \/ \E i \in DOMAIN frames[b] : frames[b][i].name = t
  BY DEF UnsavedIsDirty
<1>1. ~SettingUp(b)
  BY DEF Running, SettingUp, Syncing
<1>2. Merging(b, t) = copy[b][t]
  BY <1>1 DEF OneBeatInv, CountsInv, PhaseInv, Merging, NoSetup, NoEntries
<1>3. t \in dirty[b] \/ Named(b, t)
  BY <1>2 DEF OneBeatInv, CountsInv, Counts
<1>4. frames[b] \in Seq(Frames)
  BY SetupTyped DEF OneBeatInv, Good
<1> QED BY <1>3, <1>4 DEF Named

(* Where one beat runs and the database does not fail a save, every run    *)
(* the copy counts and the row does not is still to be saved (sync,        *)
(* schedulers.py:326-347).                                                 *)
THEOREM RunsSaved ==
  ASSUME Faults = FALSE, \A b, c \in Beats : b = c
  PROVE  Spec => []UnsavedIsDirty
<1>1. OneBeatInv => UnsavedIsDirty
  BY UnsavedKnown
<1> QED BY <1>1, OneBeatInductive, PTL

LEMMA CountKept ==
  ASSUME Faults = FALSE, OneBeatInv, [Next]_vars, NEW t \in Tasks \ OneOff,
         rows[t] # None, rows'[t] # None, rows'[t].id = rows[t].id, rows'[t].count < rows[t].count
  PROVE  SetupWrites
<1>0. Good /\ rows[t] \in Rows /\ rows[t].count \in Nat
  BY CountTypes, BeatAssumption DEF OneBeatInv, Good, TypeOK, Rows
<1>1. rows' # rows
  BY <1>0
<1>2. ASSUME NEW a \in Admins, AdminStep(a) PROVE FALSE
  <2> DEFINE r == tx[a]
  <2>1. Commit(a)
    BY <1>1, <1>2 DEF AdminStep, Read, Flush, Abort
  <2>2. /\ r.op \in Ops /\ r.task \in Tasks /\ r.row \in Rows /\ r.pc = "flushed"
        /\ rows' = [rows EXCEPT ![r.task] = Result(r)]
    BY <2>1, <1>0 DEF Good, TypeOK, BeatInv, RequestsInv, Commit
  <2>3. t = r.task /\ rows'[t] = Result(r)
    BY <1>0, <2>2 DEF Good, TypeOK
  <2>4. r.op \in {"update", "toggle"}
    <3>1. r.op # "create"
      BY <1>0, <2>2, <2>3 DEF Good, BeatInv, RequestsInv
    <3> QED BY <2>2, <2>3, <3>1, BeatAssumption DEF Result
  <2>5. Result(r).count = rows[t].count
    BY <1>0, <2>3, <2>4 DEF Result, Rows
  <2> QED BY <1>0, <2>3, <2>5
<1>3. ASSUME NEW b \in Beats, SetupWrite(b) PROVE SetupWrites
  BY <1>0, <1>1, <1>3, SetupWritesEntry
<1>4. ASSUME NEW b \in Beats, Save(b) PROVE FALSE
  <2> DEFINE u == Top(b).name
  <2>1. u \in Tasks /\ Same(u, copy[b][u]) /\ rows' = [rows EXCEPT ![u] = Saved(rows[u], copy[b][u])]
        /\ pc[b] = "save" /\ copy[b][u] # None
    BY <1>1, <1>4, <1>0 DEF Good, BeatInv, StackInv, Save
  <2>2. t = u /\ rows'[t] = Saved(rows[t], copy[b][t])
    BY <1>0, <2>1 DEF Good, TypeOK
  <2>3. rows'[t].count = copy[b][t].count
    BY <1>0, <2>2 DEF Saved, Rows
  <2>4. Merging(b, t) = copy[b][t] /\ Counts(b, t)
    BY <2>1 DEF OneBeatInv, CountsInv, PhaseInv, SettingUp, Syncing, Merging, NoSetup, NoEntries
  <2>5. copy[b][t].count >= rows[t].count /\ copy[b][t].count \in Nat
    BY <1>0, <2>1, <2>2, <2>4, CountTypes DEF Counts
  <2> QED BY <1>0, <2>3, <2>5
<1>5. ASSUME NEW b \in Beats, NEW u \in Tasks, OneOffReset(b, u) PROVE FALSE
  <2>1. u \in OneOff /\ rows' = [rows EXCEPT ![u] = Disabled(rows[u])]
    BY <1>1, <1>5 DEF OneOffReset
  <2>2. rows'[t] = rows[t]
    BY <1>0, <2>1 DEF Good, TypeOK
  <2> QED BY <1>0, <2>2
<1>6. ASSUME NEW b \in Beats, BeatStep(b) \/ Start(b) \/ Stop(b) \/ FaultStep(b),
             ~SetupWrite(b), ~Save(b), \A u \in Tasks : ~OneOffReset(b, u)
      PROVE  FALSE
  BY <1>1, <1>6 DEF BeatStep, SetupStep, SyncStep, LoopStep, FaultStep, SetupRead, SetupFails,
     SetupLook, Merge, Pop, SyncEnds, SaveMissing, Reload, Acquire, Extend, TickLook, Idle,
     Close, Run, Start, Stop, SaveFails, ReloadFails, CloseFails, Crash, ResetFails
<1>7. ~((\E s \in notices : Publish(s)) \/ Expire \/ Tick \/ UNCHANGED vars)
  BY <1>1 DEF Publish, Expire, Tick, vars
<1> QED BY <1>2, <1>3, <1>4, <1>5, <1>6, <1>7 DEF Next

(* Under the same assumptions the count of a recurring task never falls    *)
(* but by from_entry's new schedule (schedulers.py:136-161).               *)
THEOREM CountsKept ==
  ASSUME Faults = FALSE, \A b, c \in Beats : b = c
  PROVE  Spec => RunCountKept
<1>1. OneBeatInv /\ [Next]_vars =>
        [\A t \in Tasks \ OneOff :
           (/\ rows[t] # None /\ rows'[t] # None /\ rows'[t].id = rows[t].id
            /\ rows'[t].count < rows[t].count) => SetupWrites]_vars
  BY CountKept
<1> QED BY <1>1, OneBeatInductive, PTL DEF Spec, RunCountKept
=============================================================================
