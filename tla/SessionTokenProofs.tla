------------------------- MODULE SessionTokenProofs -------------------------
(***************************************************************************)
(* Theorems about the refresh tokens, the user cache and the single logins *)
(* of Sessions, and that Sessions implements SessionRegistry, for every    *)
(* set of users, sessions and requests.                                    *)
(*                                                                         *)
(* RenewalInv says how far a session has come when its refresh token is    *)
(* stored, sent or presented.  A step either leaves all sessions as they   *)
(* are (RenewalFrame), mints one (MintRenewal) or stores a key of the one  *)
(* the request owns (SetRenewal).  ExclusiveInv says what has become of a  *)
(* user's access tokens while a login, or the handler that withdraws the   *)
(* right to several, holds the row lock.                                   *)
(***************************************************************************)
EXTENDS SessionsProofs

-----------------------------------------------------------------------------
(* What a step leaves of a request besides its job.                        *)

Same(r) ==
  /\ SameJob(r) /\ req'[r].old = req[r].old /\ req'[r].copy = req[r].copy
  /\ req'[r].val = req[r].val

LEMMA GotoKeeps ==
  ASSUME TypeInv, NEW r \in Requests, NEW label, Goto(r, label)
  PROVE  Same(r)
BY DEF TypeInv, TypeOK, RequestState, Goto, Same, SameJob

LEMMA CollectKeeps ==
  ASSUME TypeInv, NEW r \in Requests, NEW label, NEW keys, Collect(r, label, keys)
  PROVE  Same(r)
<1>1. req \in [Requests -> RequestState] BY DEF TypeInv, TypeOK
<1>2. req'[r] = [req[r] EXCEPT !.pc = label, !.scan = keys] BY <1>1 DEF Collect
<1> QED BY <1>1, <1>2 DEF RequestState, Same, SameJob

LEMMA MintKeeps ==
  ASSUME TypeInv, NEW r \in Requests, NEW s, NEW via, NEW old, NEW multi,
         Mint(r, s, via, old, multi)
  PROVE  req'[r].old = req[r].old /\ req'[r].copy = req[r].copy
<1> DEFINE label == IF multi THEN "at_uncache" ELSE "at_scan"
<1>1. req \in [Requests -> RequestState] BY DEF TypeInv, TypeOK
<1>2. req'[r] = [req[r] EXCEPT !.pc = label, !.sess = s, !.multi = multi]
  BY <1>1 DEF Mint
<1> HIDE DEF label
<1> QED BY <1>1, <1>2 DEF RequestState

\* The commit of r changes the copies of the others, nothing else of them.
LEMMA CommitKeeps ==
  ASSUME TypeInv, NEW r \in Requests, Commit(r)
  PROVE  /\ req'[r].pc = "idle"
         /\ \A q \in Requests \ {r} :
              /\ SameJob(q) /\ req'[q].pc = req[q].pc /\ req'[q].old = req[q].old
              /\ req'[q].val = req[q].val /\ req'[q].scan = req[q].scan
              /\ \/ req'[q].copy = req[q].copy /\ (lock[req[r].user] = r => req[q].user # req[r].user)
                 \/ req'[q].copy # "current"
<1> DEFINE u == req[r].user
           age(copy) == IF copy = "current" THEN "stale" ELSE copy
<1>1. req \in [Requests -> RequestState] BY DEF TypeInv, TypeOK
<1>2. CASE lock[u] = r
  <2>1. req'[r].pc = "idle" BY <1>2 DEF Commit, Idle
  <2>2. ASSUME NEW q \in Requests \ {r}
        PROVE  /\ SameJob(q) /\ req'[q].pc = req[q].pc /\ req'[q].old = req[q].old
               /\ req'[q].val = req[q].val /\ req'[q].scan = req[q].scan
               /\ \/ req'[q].copy = req[q].copy /\ req[q].user # u
                  \/ req'[q].copy # "current"
    <3>1. req'[q] = IF req[q].user = u THEN [req[q] EXCEPT !.copy = age(@)] ELSE req[q]
      BY <1>2 DEF Commit
    <3>2. age(req[q].copy) # "current" OBVIOUS
    <3>3. req[q] \in RequestState BY <1>1
    <3> HIDE DEF age
    <3> QED BY <3>1, <3>2, <3>3 DEF RequestState, SameJob
  <2> QED BY <2>1, <2>2
<1>3. CASE lock[u] # r
  <2>1. Finish(r) BY <1>3 DEF Commit
  <2> QED BY <1>3, <2>1, FinishMoves DEF Others, SameJob
<1> QED BY <1>2, <1>3

-----------------------------------------------------------------------------
(* Steps that leave every session as it is.                                *)

\* The awaits RenewalInv speaks of.
RenewalPcs == RefreshPcs \cup {"rt_scan", "rt_del", "rt_set", "respond"}

LEMMA RenewalFrame ==
  ASSUME RenewalInv, UNCHANGED sess, ref' \subseteq ref, jar' \subseteq jar \cup Renewable,
         \A q \in Requests : (Pending(q) /\ Presents(q))'
  PROVE  RenewalInv'
<1>1. Granted' = Granted /\ Renewable' = Renewable BY DEF Granted, Renewable
<1> QED BY <1>1 DEF RenewalInv

\* A request that stays where it is, or leaves the awaits above, is as before.
LEMMA RequestKept ==
  ASSUME RenewalInv, UNCHANGED sess, ref' \subseteq ref, NEW q \in Requests,
         \/ req'[q].pc \notin RenewalPcs
         \/ SameJob(q) /\ req'[q].pc = req[q].pc /\ req'[q].old = req[q].old
  PROVE  (Pending(q) /\ Presents(q))'
<1>1. Granted' = Granted /\ Renewable' = Renewable BY DEF Granted, Renewable
<1>2. Pending(q) /\ Presents(q) BY DEF RenewalInv
<1>3. CASE req'[q].pc \notin RenewalPcs
  BY <1>3 DEF RenewalPcs, RefreshPcs, Pending, Presents
<1>4. CASE SameJob(q) /\ req'[q].pc = req[q].pc /\ req'[q].old = req[q].old
  <2>1. Creating(q)' <=> Creating(q) BY <1>4 DEF Creating, SameJob
  <2> QED BY <1>1, <1>2, <1>4, <2>1 DEF SameJob, Pending, Presents
<1> QED BY <1>3, <1>4

\* The awaits of a step that touches one request.
LEMMA QuietRenewal ==
  ASSUME RenewalInv, UNCHANGED sess, ref' \subseteq ref, jar' \subseteq jar \cup Renewable,
         NEW r \in Requests, Others(r),
         req'[r].pc \notin RenewalPcs \/ (Pending(r) /\ Presents(r))'
  PROVE  RenewalInv'
<1>1. ASSUME NEW q \in Requests PROVE (Pending(q) /\ Presents(q))'
  BY <1>1, RequestKept DEF Others, SameJob
<1> QED BY <1>1, RenewalFrame

LEMMA StartRenewal ==
  ASSUME TypeInv, RenewalInv, NEW r \in Requests, Start(r) PROVE RenewalInv'
<1>0. req \in [Requests -> RequestState] BY DEF TypeInv, TypeOK
<1>1. UNCHANGED <<sess, ref>> /\ jar' \subseteq jar
  BY DEF Start, LoginStart, RefreshStart, AuthStart, LogoutStart, WriteStart
<1>2. Others(r) /\ (req'[r].pc \notin RenewalPcs \/ (Pending(r) /\ Presents(r))')
  <2>1. ASSUME NEW u \in Users, NEW op \in {"login", "swagger"}, LoginStart(r, u, op)
        PROVE  Others(r) /\ req'[r].pc \notin RenewalPcs
    BY <1>0, <2>1 DEF LoginStart, Others, Idle, RenewalPcs, RefreshPcs
  <2>2. ASSUME NEW c \in jar, RefreshStart(r, c)
        PROVE  Others(r) /\ (Pending(r) /\ Presents(r))'
    <3>1. Others(r) /\ req'[r].pc \in {"rt_get", "remote_check"} /\ req'[r].old = c
      BY <1>0, <2>2 DEF RefreshStart, Others, Idle
    <3>2. c \in Renewable /\ Renewable' = Renewable
      BY <1>1 DEF RenewalInv, Renewable, Granted
    <3> QED BY <3>1, <3>2 DEF Pending, Presents
  <2>3. ASSUME NEW s \in held, AuthStart(r, s)
        PROVE  Others(r) /\ req'[r].pc \notin RenewalPcs
    BY <1>0, <2>3 DEF AuthStart, Others, Idle, RenewalPcs, RefreshPcs
  <2>4. ASSUME NEW s \in held, NEW c \in jar \cup {None}, LogoutStart(r, s, c)
        PROVE  Others(r) /\ req'[r].pc \notin RenewalPcs
    BY <1>0, <2>4 DEF LogoutStart, Others, Idle, RenewalPcs, RefreshPcs
  <2>5. ASSUME NEW u \in Users, NEW k \in held, NEW op \in WriteOps, NEW val \in BOOLEAN,
               WriteStart(r, u, k, op, val)
        PROVE  Others(r) /\ req'[r].pc \notin RenewalPcs
    BY <1>0, <2>5 DEF WriteStart, Others, Idle, RenewalPcs, RefreshPcs
  <2> QED BY <2>1, <2>2, <2>3, <2>4, <2>5 DEF Start
<1> QED BY <1>1, <1>2, QuietRenewal

\* The awaits of a refresh before it mints, and of create_refresh_token before
\* it writes.
LEMMA RefreshRenewal ==
  ASSUME TypeInv, PasswordInv, RenewalInv, NEW r \in Requests,
         \/ RemoteCheck(r) \/ RtGet(r) \/ RtDrop(r) \/ RtScan(r) \/ RtDel(r) \/ Respond(r)
  PROVE  RenewalInv'
<1>1. UNCHANGED sess /\ ref' \subseteq ref
  BY DEF RemoteCheck, RtGet, RtDrop, RtScan, RtDel, Respond
<1>2. Pending(r) /\ Presents(r) BY DEF RenewalInv
<1>3. Granted' = Granted /\ Renewable' = Renewable BY <1>1 DEF Granted, Renewable
<1>4. CASE Finish(r) /\ jar' = jar
  BY <1>1, <1>4, FinishMoves, QuietRenewal DEF RenewalPcs, RefreshPcs
<1>5. CASE (RemoteCheck(r) \/ RtGet(r) \/ RtDrop(r)) /\ ~Finish(r)
  <2>1. PICK label \in {"rt_get", "rt_drop", "at_drop"} : Goto(r, label)
    BY <1>5 DEF RemoteCheck, RtGet, RtDrop
  <2>2. /\ Others(r) /\ req'[r].pc = label /\ req'[r].old = req[r].old
        /\ label = "at_drop" => ref' = ref \ {req[r].old}
    BY <1>5, <2>1, GotoMoves, GotoKeeps DEF Same, RemoteCheck, RtGet, RtDrop
  <2>3. req[r].old \in Renewable
    BY <1>2, <1>5 DEF Presents, RefreshPcs, RemoteCheck, RtGet, RtDrop
  <2>4. (Pending(r) /\ Presents(r))' BY <1>3, <2>2, <2>3 DEF Pending, Presents
  <2> QED BY <1>1, <1>5, <2>2, <2>4, QuietRenewal DEF RemoteCheck, RtGet, RtDrop
<1>6. CASE RtScan(r) \/ RtDel(r)
  <2>1. PICK label, keys : label \in {"rt_del", "rt_set"} /\ Collect(r, label, keys)
    BY <1>6 DEF RtScan, RtDel
  <2>2. Others(r) /\ SameJob(r) /\ req'[r].pc = label BY <2>1, CollectMoves
  <2>3. Creating(r)' => Creating(r) BY <1>6, <2>2 DEF Creating, SameJob, RtScan, RtDel, RtPcs
  <2>4. (Pending(r) /\ Presents(r))'
    BY <1>1, <1>2, <1>6, <2>1, <2>2, <2>3 DEF Pending, Presents, RefreshPcs, SameJob, RtScan, RtDel
  <2> QED BY <1>1, <1>6, <2>2, <2>4, QuietRenewal DEF RtScan, RtDel
<1>7. CASE Respond(r)
  <2>1. Others(r) /\ req'[r].pc \in {"idle", "commit"}
    BY <1>7, FinishMoves, GotoMoves DEF Respond
  <2>2. req[r].op = "login" => req[r].sess \in Renewable
    <3>1. Creating(r)
      BY <1>7 DEF Respond, Creating, RtPcs, TypeInv, PcMatchesOp, Fits, LoginOps, WriteOps
    <3> QED BY <1>2, <1>7, <3>1 DEF Respond, Pending, PasswordInv, OwnsItsSession, Renewable
  <2>3. jar' \subseteq jar \cup Renewable BY <1>7, <2>2 DEF Respond
  <2> QED BY <1>1, <2>1, <2>3, QuietRenewal DEF RenewalPcs, RefreshPcs
<1> QED BY <1>4, <1>5, <1>6, <1>7 DEF RemoteCheck, RtGet, RtDrop

-----------------------------------------------------------------------------
(* Steps that change one session, the one the request creates.             *)

\* The session t of a step: none other changes, and no fact of RenewalInv
\* spoke of t as granted before.
LEMMA SessionStep ==
  ASSUME TypeInv, RenewalInv, NEW t \in Sessions, t \notin Granted,
         \A s \in Sessions \ {t} : sess'[s] = sess[s],
         sess'[t].from # None => sess'[t].from \in Renewable \ ref,
         ref' \subseteq ref \cup (Granted' \cap {t}), jar' = jar,
         \A q \in Requests : (Pending(q) /\ Presents(q))'
  PROVE  RenewalInv'
<1>1. Granted \subseteq Granted' /\ Renewable \subseteq Renewable'
  BY DEF Granted, Renewable
<1>2. ref' \subseteq Granted' /\ jar' \subseteq Renewable' BY <1>1 DEF RenewalInv
<1>3. ASSUME NEW s \in Sessions, sess'[s].from # None
      PROVE  sess'[s].from \in Renewable' \ ref'
  <2>1. sess'[s].from \in Renewable \ ref BY <1>3 DEF RenewalInv
  <2>2. t \notin Renewable BY DEF Renewable
  <2> QED BY <1>1, <2>1, <2>2
<1> QED BY <1>2, <1>3 DEF RenewalInv

\* The other requests do not speak of t.
LEMMA OthersRenewal ==
  ASSUME TypeInv, PasswordInv, RenewalInv, NEW t \in Sessions, t \notin Granted,
         NEW r \in Requests, Others(r),
         \A q \in Requests \ {r} : Creating(q) => req[q].sess # t,
         \A s \in Sessions \ {t} : sess'[s] = sess[s], ref' \subseteq ref \cup {t},
         NEW q \in Requests \ {r}
  PROVE  (Pending(q) /\ Presents(q))'
<1>1. req'[q] = req[q] /\ (Creating(q)' <=> Creating(q)) BY DEF Others, Creating
<1>2. Granted \subseteq Granted' /\ Renewable \subseteq Renewable' /\ t \notin Renewable
  BY DEF Granted, Renewable
<1>3. Pending(q) /\ Presents(q) BY DEF RenewalInv
<1>4. Creating(q) => req[q].sess \in Sessions \ {t} BY DEF PasswordInv, OwnsItsSession
<1>5. Pending(q)' BY <1>1, <1>2, <1>3, <1>4 DEF Pending
<1>6. Presents(q)' BY <1>1, <1>2, <1>3 DEF Presents, RefreshPcs
<1> QED BY <1>5, <1>6

LEMMA MintRenewal ==
  ASSUME TypeInv, PasswordInv, RenewalInv, NEW r \in Requests, NEW s \in Sessions,
         NEW via, NEW old, NEW multi, Mint(r, s, via, old, multi),
         old # None => old \in Renewable \ ref, UNCHANGED <<ref, jar>>
  PROVE  RenewalInv'
<1>1. Others(r) /\ req'[r].pc \in AtPcs BY MintMoves
<1>2. /\ sess[s].stage = "free" /\ sess'[s].from = old
      /\ \A t \in Sessions \ {s} : sess'[t] = sess[t]
  BY DEF Mint, TypeInv, TypeOK
<1>3. s \notin Granted /\ s \notin Issued BY <1>2 DEF Granted, Issued
<1>4. \A q \in Requests \ {r} : Creating(q) => req[q].sess # s
  BY <1>2, <1>3 DEF PasswordInv, OwnsItsSession, Creating
<1>5. (Pending(r) /\ Presents(r))' BY <1>1 DEF Pending, Presents, AtPcs, RefreshPcs
<1>6. \A q \in Requests : (Pending(q) /\ Presents(q))'
  BY <1>1, <1>2, <1>3, <1>4, <1>5, OthersRenewal
<1> QED BY <1>2, <1>3, <1>6, SessionStep

LEMMA LoginTimeRenewal ==
  ASSUME TypeInv, PasswordInv, RenewalInv, NEW r \in Requests,
         LoginTime(r) \/ LoginTimeDeleted(r) \/ AtDrop(r)
  PROVE  RenewalInv'
<1>1. UNCHANGED <<ref, jar>> BY DEF LoginTime, LoginTimeDeleted, AtDrop
<1>2. CASE Finish(r) /\ UNCHANGED sess
  BY <1>1, <1>2, FinishMoves, QuietRenewal DEF RenewalPcs, RefreshPcs
<1>3. CASE \E s \in Sessions : \E via, multi : Mint(r, s, via, None, multi)
  BY <1>1, <1>3, MintRenewal
<1>4. CASE AtDrop(r)
  <2>1. req[r].old \in Renewable \ ref
    BY <1>4 DEF AtDrop, RenewalInv, Presents, RefreshPcs
  <2> QED BY <1>1, <1>4, <2>1, MintRenewal DEF AtDrop
<1> QED BY <1>2, <1>3, <1>4 DEF LoginTime, LoginTimeDeleted

\* What AtSet and RtSet make of the session the request owns.
LEMMA OwnSession ==
  ASSUME TypeInv, PasswordInv, NEW r \in Requests, AtSet(r) \/ RtSet(r)
  PROVE  /\ Creating(r) /\ req[r].sess \in Sessions
         /\ \A q \in Requests \ {r} : Creating(q) => req[q].sess # req[r].sess
         /\ \A s \in Sessions \ {req[r].sess} : sess'[s] = sess[s]
         /\ sess'[req[r].sess].from = sess[req[r].sess].from
         /\ AtSet(r) => /\ sess[req[r].sess].stage = "minted"
                        /\ sess'[req[r].sess].stage = "issued"
         /\ RtSet(r) => sess'[req[r].sess].stage = "granted"
<1> DEFINE s == req[r].sess
<1>1. Creating(r)
  BY DEF AtSet, RtSet, Creating, TypeInv, PcMatchesOp, Fits, AtPcs, RtPcs, LoginOps, WriteOps
<1>2. /\ s \in Sessions /\ \A q \in Requests \ {r} : Creating(q) => req[q].sess # s
      /\ AtSet(r) => sess[s].stage = "minted"
  BY <1>1 DEF PasswordInv, OwnsItsSession, AtSet, AtPcs
<1>3. sess \in [Sessions -> SessionInfo] BY DEF TypeInv, TypeOK
<1>4. PICK stage \in {"issued", "granted"} :
        /\ sess' = [sess EXCEPT ![s].stage = stage]
        /\ AtSet(r) => stage = "issued"
        /\ RtSet(r) => stage = "granted"
  BY DEF AtSet, RtSet
<1>5. /\ \A t \in Sessions \ {s} : sess'[t] = sess[t]
      /\ sess'[s].from = sess[s].from /\ sess'[s].stage = stage
  BY <1>2, <1>3, <1>4 DEF SessionInfo
<1> QED BY <1>1, <1>2, <1>4, <1>5

LEMMA SetRenewal ==
  ASSUME TypeInv, PasswordInv, RenewalInv, NEW r \in Requests, AtSet(r) \/ RtSet(r)
  PROVE  RenewalInv' /\ req[r].sess \notin Granted
<1> DEFINE s == req[r].sess
<1>1. /\ Creating(r) /\ s \in Sessions
      /\ \A q \in Requests \ {r} : Creating(q) => req[q].sess # s
      /\ \A t \in Sessions \ {s} : sess'[t] = sess[t]
      /\ sess'[s].from = sess[s].from
      /\ AtSet(r) => sess[s].stage = "minted" /\ sess'[s].stage = "issued"
      /\ RtSet(r) => sess'[s].stage = "granted"
  BY OwnSession
<1>2. s \notin Granted BY <1>1 DEF RenewalInv, Pending, RtSet, Granted
<1>3. /\ Others(r) /\ SameJob(r)
      /\ AtSet(r) => req'[r].pc \in {"respond", "rt_set", "rt_scan"}
      /\ AtSet(r) /\ req'[r].pc = "respond" => req[r].op = "swagger"
      /\ RtSet(r) => req'[r].pc = "respond"
  <2>1. CASE AtSet(r)
    <3>1. PICK label \in {"respond", "rt_set", "rt_scan"} :
            Goto(r, label) /\ (label = "respond" => req[r].op = "swagger")
      BY <2>1 DEF AtSet
    <3>2. Others(r) /\ SameJob(r) /\ req'[r].pc = label BY <3>1, GotoMoves
    <3> QED BY <2>1, <3>1, <3>2 DEF AtSet, RtSet
  <2>2. CASE RtSet(r) BY <2>2, GotoMoves DEF AtSet, RtSet
  <2> QED BY <2>1, <2>2
<1>4. ref' \subseteq ref \cup (Granted' \cap {s}) BY <1>1 DEF AtSet, RtSet, Granted
<1>5. (Pending(r) /\ Presents(r))'
  BY <1>1, <1>3 DEF Pending, Presents, RefreshPcs, SameJob, Granted
<1>6. \A q \in Requests : (Pending(q) /\ Presents(q))'
  BY <1>1, <1>2, <1>3, <1>4, <1>5, OthersRenewal
<1>7. sess'[s].from # None => sess'[s].from \in Renewable \ ref BY <1>1 DEF RenewalInv
<1>8. jar' = jar BY DEF AtSet, RtSet
<1> QED BY <1>1, <1>2, <1>4, <1>6, <1>7, <1>8, SessionStep

-----------------------------------------------------------------------------
(* Every step of Next.                                                     *)

\* The awaits of handlers that hand out no session.
LEMMA OtherStepRenewal ==
  ASSUME TypeInv, RenewalInv, NEW r \in Requests,
         \/ AtScan(r) \/ AtDel(r) \/ AtUncache(r)
         \/ AuthTok(r) \/ AuthCache(r) \/ AuthDb(r) \/ AuthFill(r) \/ OutTok(r) \/ OutRef(r)
         \/ WriteUpdate(r) \/ WriteScanTok(r) \/ WriteDelTok(r)
         \/ WriteScanRef(r) \/ WriteDelRef(r) \/ WriteUncache(r)
  PROVE  RenewalInv'
<1>1. UNCHANGED <<sess, jar>> /\ ref' \subseteq ref
  BY DEF AtScan, AtDel, AtUncache, AuthTok, AuthCache, AuthDb, AuthFill, OutTok, OutRef,
     WriteUpdate, WriteScanTok, WriteDelTok, WriteScanRef, WriteDelRef, WriteUncache
<1>2. Others(r) /\ req'[r].pc \notin RenewalPcs
  <2>1. CASE Finish(r) BY <2>1, FinishMoves DEF RenewalPcs, RefreshPcs
  <2>2. CASE \E label : Goto(r, label) /\ label \notin RenewalPcs BY <2>2, GotoMoves
  <2>3. CASE \E label, keys : Collect(r, label, keys) /\ label \notin RenewalPcs
    BY <2>3, CollectMoves
  <2>4. CASE AuthDb(r) /\ ~Finish(r)
    <3>1. /\ req' = [req EXCEPT ![r] = [@ EXCEPT !.pc = "auth_fill", !.copy = "current"]]
          /\ req \in [Requests -> RequestState]
      BY <2>4 DEF AuthDb, TypeInv, TypeOK
    <3> QED BY <3>1 DEF Others, RequestState, RenewalPcs, RefreshPcs
  <2>5. CASE AtScan(r) \/ AtDel(r) \/ WriteScanTok(r) \/ WriteDelTok(r)
             \/ WriteScanRef(r) \/ WriteDelRef(r)
    <3>1. PICK label, keys :
            /\ label \in {"at_del", "at_uncache", "w_del_tok", "w_uncache", "w_scan_ref",
                          "w_del_ref", "commit"}
            /\ Collect(r, label, keys)
      BY <2>5 DEF AtScan, AtDel, WriteScanTok, WriteDelTok, WriteScanRef, WriteDelRef
    <3> QED BY <2>3, <3>1 DEF RenewalPcs, RefreshPcs
  <2>6. CASE (AtUncache(r) \/ AuthTok(r) \/ AuthCache(r) \/ OutTok(r)
              \/ WriteUpdate(r) \/ WriteUncache(r)) /\ ~Finish(r)
    <3>1. PICK label \in {"at_set", "auth_cache", "auth_db", "out_ref", "w_scan_tok",
                          "w_uncache", "commit"} : Goto(r, label)
      BY <2>6 DEF AtUncache, AuthTok, AuthCache, OutTok, WriteUpdate, WriteUncache
    <3> QED BY <2>2, <3>1 DEF RenewalPcs, RefreshPcs
  <2> QED BY <2>1, <2>4, <2>5, <2>6 DEF AuthFill, OutRef
<1> QED BY <1>1, <1>2, QuietRenewal

LEMMA NextRenewal == TypeInv /\ PasswordInv /\ RenewalInv /\ [Next]_vars => RenewalInv'
<1> SUFFICES ASSUME TypeInv, PasswordInv, RenewalInv, [Next]_vars PROVE RenewalInv'
  OBVIOUS
<1>1. ASSUME NEW r \in Requests, Start(r) PROVE RenewalInv' BY <1>1, StartRenewal
<1>2. ASSUME NEW r \in Requests, Step(r) PROVE RenewalInv'
  <2>1. CASE LoginTime(r) \/ LoginTimeDeleted(r) \/ AtDrop(r) BY <2>1, LoginTimeRenewal
  <2>2. CASE AtSet(r) \/ RtSet(r) BY <2>2, SetRenewal
  <2>3. CASE RemoteCheck(r) \/ RtGet(r) \/ RtDrop(r) \/ RtScan(r) \/ RtDel(r) \/ Respond(r)
    BY <2>3, RefreshRenewal
  <2>4. CASE Commit(r)
    <3>1. UNCHANGED <<sess, ref, jar>> BY <2>4 DEF Commit
    <3>2. ASSUME NEW q \in Requests PROVE (Pending(q) /\ Presents(q))'
      <4>1. \/ req'[q].pc \notin RenewalPcs
            \/ SameJob(q) /\ req'[q].pc = req[q].pc /\ req'[q].old = req[q].old
        BY <2>4, CommitKeeps DEF RenewalPcs, RefreshPcs
      <4> QED BY <3>1, <4>1, RequestKept
    <3> QED BY <3>1, <3>2, RenewalFrame
  <2> QED BY <1>2, <2>1, <2>2, <2>3, <2>4, OtherStepRenewal DEF Step
<1>3. ASSUME NEW r \in Requests, Abort(r) PROVE RenewalInv'
  BY <1>3, FinishMoves, QuietRenewal DEF Abort, RenewalPcs, RefreshPcs
<1>4. CASE Environment \/ UNCHANGED vars
  <2>1. UNCHANGED <<sess, jar, req>> /\ ref' \subseteq ref
    BY <1>4 DEF Environment, Revoke, ExpireToken, ExpireRefresh, ExpireCache, vars
  <2>2. \A q \in Requests : (Pending(q) /\ Presents(q))'
    BY <2>1, RequestKept DEF SameJob
  <2> QED BY <2>1, <2>2, RenewalFrame
<1> QED BY <1>1, <1>2, <1>3, <1>4 DEF Next

LEMMA InitRenewal == Init => RenewalInv
<1> SUFFICES ASSUME Init PROVE RenewalInv OBVIOUS
<1>1. \A r \in Requests : Pending(r) /\ Presents(r)
  BY DEF Init, Idle, Pending, Presents, RefreshPcs
<1> QED BY <1>1 DEF Init, RenewalInv

\* What makes the three properties below inductive: a refresh token that is
\* stored, or sits in a cookie, belongs to a session that is complete, and the
\* token a session was renewed from is gone.
THEOREM RenewalInvHolds == Spec => []RenewalInv
<1>1. Spec => []TypeInv BY InitTypeInv, NextTypeInv, PTL DEF Spec
<1> QED BY <1>1, PasswordInvHolds, InitRenewal, NextRenewal, PTL DEF Spec

\* A session created by create_new_token is never renewed: only login puts a
\* refresh token in a cookie, so one login gives at most one renewal.
THEOREM RenewedOnce == Spec => []RefreshedNeverRefreshes
<1>1. RenewalInv => RefreshedNeverRefreshes
  BY DEF RenewalInv, RefreshedNeverRefreshes, Renewable
<1> QED BY <1>1, RenewalInvHolds, PTL

\* A step of a request leaves the others at their awaits.
LEMMA OneRequestMoves ==
  ASSUME TypeInv, NEW r \in Requests, Start(r) \/ Step(r) \/ Abort(r)
  PROVE  \A q \in Requests \ {r} : req'[q].pc = req[q].pc
<1>1. req \in [Requests -> RequestState] BY DEF TypeInv, TypeOK
<1>2. CASE Start(r)
  BY <1>1, <1>2 DEF Start, LoginStart, RefreshStart, AuthStart, LogoutStart, WriteStart
<1>3. CASE LoginTime(r) \/ LoginTimeDeleted(r) \/ AtDrop(r)
  BY <1>1, <1>3 DEF LoginTime, LoginTimeDeleted, AtDrop, Mint, Finish
<1>4. CASE \/ AtScan(r) \/ AtDel(r) \/ AtUncache(r) \/ AtSet(r)
           \/ RtScan(r) \/ RtDel(r) \/ RtSet(r) \/ Respond(r)
           \/ RemoteCheck(r) \/ RtGet(r) \/ RtDrop(r)
  BY <1>1, <1>4 DEF AtScan, AtDel, AtUncache, AtSet, RtScan, RtDel, RtSet, Respond,
     RemoteCheck, RtGet, RtDrop, Goto, Collect, Finish
<1>5. CASE \/ AuthTok(r) \/ AuthCache(r) \/ AuthDb(r) \/ AuthFill(r) \/ OutTok(r) \/ OutRef(r)
           \/ WriteUpdate(r) \/ WriteScanTok(r) \/ WriteDelTok(r)
           \/ WriteScanRef(r) \/ WriteDelRef(r) \/ WriteUncache(r)
  BY <1>1, <1>5 DEF AuthTok, AuthCache, AuthDb, AuthFill, OutTok, OutRef, WriteUpdate,
     WriteScanTok, WriteDelTok, WriteScanRef, WriteDelRef, WriteUncache, Goto, Collect, Finish
<1>6. CASE Commit(r) BY <1>6, CommitKeeps
<1>7. CASE Abort(r) BY <1>7, FinishMoves DEF Abort, Others
<1> QED BY <1>2, <1>3, <1>4, <1>5, <1>6, <1>7 DEF Step

\* Only RtGet leads from rt_get to rt_drop, and it found the key.
LEMMA OnlyRtGet ==
  ASSUME TypeInv, Next, NEW r \in Requests, req[r].pc = "rt_get", req'[r].pc = "rt_drop"
  PROVE  req[r].old \in ref
<1>1. ~Environment
  BY DEF Environment, Revoke, ExpireToken, ExpireRefresh, ExpireCache
<1>2. Start(r) \/ Step(r) \/ Abort(r) BY <1>1, OneRequestMoves DEF Next
<1>3. ~Start(r) BY DEF Start, LoginStart, RefreshStart, AuthStart, LogoutStart, WriteStart
<1>4. ~Abort(r) BY FinishMoves DEF Abort
<1>5. RtGet(r)
  BY <1>2, <1>3, <1>4 DEF Step, LoginTime, LoginTimeDeleted, AtScan, AtDel, AtUncache, AtSet,
     RtScan, RtDel, RtSet, Respond, RemoteCheck, RtDrop, AtDrop, AuthTok, AuthCache, AuthDb,
     AuthFill, OutTok, OutRef, WriteUpdate, WriteScanTok, WriteDelTok, WriteScanRef,
     WriteDelRef, WriteUncache, Commit
<1>6. ~Finish(r) BY FinishMoves
<1> QED BY <1>5, <1>6 DEF RtGet

\* create_new_token (common/security/jwt.py) accepts a refresh token only while
\* no session was issued from it: get and delete are two awaits, but the new
\* access token is written after both.
THEOREM RedeemedFirst == Spec => RedeemedBeforeIssue
<1>1. TypeInv /\ RenewalInv /\ [Next]_vars =>
        [\A r \in Requests : req[r].pc = "rt_get" /\ req'[r].pc = "rt_drop" =>
           \A s \in Issued : sess[s].from # req[r].old]_vars
  <2> SUFFICES ASSUME TypeInv, RenewalInv, Next, NEW r \in Requests, req[r].pc = "rt_get",
                      req'[r].pc = "rt_drop", NEW s \in Issued, sess[s].from = req[r].old
               PROVE  FALSE
    OBVIOUS
  <2>1. req[r].old \in Sessions /\ s \in Sessions
    BY DEF TypeInv, PcMatchesOp, Fits, Issued
  <2>2. req[r].old \notin ref BY <2>1, SessionsAssumption DEF RenewalInv
  <2>3. req[r].old \in ref BY OnlyRtGet
  <2> QED BY <2>2, <2>3
<1>2. Spec => []TypeInv BY InitTypeInv, NextTypeInv, PTL DEF Spec
<1> QED BY <1>1, <1>2, RenewalInvHolds, PTL DEF Spec, RedeemedBeforeIssue

-----------------------------------------------------------------------------
(* Sessions implements SessionRegistry.                                    *)

Access == [s \in Sessions |-> IF s \in tok THEN "live"
                              ELSE IF s \in Issued THEN "over" ELSE "new"]
Grants == [s \in Sessions |-> IF s \in ref THEN "live"
                              ELSE IF s \in Granted THEN "over" ELSE "new"]

\* A step that leaves the stages as they are, and writes no key.
LEMMA KeysEnd ==
  ASSUME TypeInv, tok \subseteq Issued, ref \subseteq Granted,
         Issued' = Issued, Granted' = Granted, tok' \subseteq tok, ref' \subseteq ref,
         tok' = tok \/ ref' = ref
  PROVE  Registry!Next
<1>1. tok \subseteq Sessions /\ ref \subseteq Sessions BY DEF TypeInv, TypeOK
<1>2. CASE ref' = ref
  <2>0. PICK S \in SUBSET Sessions : S = tok \ tok' BY <1>1
  <2>1. Access' = [s \in Sessions |-> IF s \in S /\ Access[s] = "live"
                                      THEN "over" ELSE Access[s]]
    BY <2>0 DEF Access
  <2>2. Grants' = Grants BY <1>2 DEF Grants
  <2>3. Registry!Close(S)
    BY <2>1, <2>2 DEF Registry!Close, Access, Grants, Granted
  <2> QED BY <2>3 DEF Registry!Next
<1>3. CASE tok' = tok
  <2>0. PICK S \in SUBSET Sessions : S = ref \ ref' BY <1>1
  <2>1. Grants' = [s \in Sessions |-> IF s \in S /\ Grants[s] = "live"
                                      THEN "over" ELSE Grants[s]]
    BY <2>0 DEF Grants
  <2>2. Access' = Access BY <1>3 DEF Access
  <2>3. Registry!Withdraw(S)
    BY <2>1, <2>2 DEF Registry!Withdraw, Access, Grants, Granted
  <2> QED BY <2>3 DEF Registry!Next
<1> QED BY <1>2, <1>3

LEMMA AtSetOpens ==
  ASSUME TypeInv, PasswordInv, RenewalInv, NEW r \in Requests, AtSet(r)
  PROVE  Registry!Next
<1>0. PICK s \in Sessions : s = req[r].sess BY OwnSession
<1>1. /\ s \in Sessions /\ sess[s].stage = "minted" /\ sess'[s].stage = "issued"
      /\ \A t \in Sessions \ {s} : sess'[t] = sess[t]
  BY <1>0, OwnSession
<1>2. tok' = tok \cup {s} /\ ref' = ref BY <1>0 DEF AtSet
<1>3. s \notin Issued /\ Issued' = Issued \cup {s} /\ Granted' = Granted
  BY <1>1 DEF Issued, Granted
<1>4. s \notin tok BY <1>3 DEF PasswordInv, KeysAreIssued
<1>5. Access[s] = "new" /\ Access' = [Access EXCEPT ![s] = "live"]
  BY <1>1, <1>2, <1>3, <1>4 DEF Access
<1>6. Grants' = Grants BY <1>2, <1>3 DEF Grants
<1>7. Registry!Open(s) BY <1>5, <1>6 DEF Registry!Open, Access, Grants, Granted
<1> QED BY <1>7 DEF Registry!Next

LEMMA RtSetGrants ==
  ASSUME TypeInv, PasswordInv, RenewalInv, NEW r \in Requests, RtSet(r)
  PROVE  Registry!Next
<1>0. PICK s \in Sessions : s = req[r].sess BY OwnSession
<1>1. /\ Creating(r) /\ s \in Sessions /\ sess'[s].stage = "granted"
      /\ \A t \in Sessions \ {s} : sess'[t] = sess[t]
  BY <1>0, OwnSession
<1>2. ref' = ref \cup {s} /\ tok' = tok BY <1>0 DEF RtSet
<1>3. sess[s].stage = "issued" BY <1>0, <1>1 DEF RtSet, RenewalInv, Pending
<1>4. s \in Issued /\ s \notin Granted /\ Issued' = Issued /\ Granted' = Granted \cup {s}
  BY <1>1, <1>3 DEF Issued, Granted
<1>5. s \notin ref BY <1>4 DEF RenewalInv
<1>6. Access[s] # "new" /\ Access' = Access BY <1>1, <1>2, <1>4 DEF Access
<1>7. Grants[s] = "new" /\ Grants' = [Grants EXCEPT ![s] = "live"]
  BY <1>1, <1>2, <1>4, <1>5 DEF Grants
<1>8. Registry!Grant(s) BY <1>6, <1>7 DEF Registry!Grant, Access, Grants, Granted
<1> QED BY <1>8 DEF Registry!Next

\* Every other step ends the keys of one kind, or none.
LEMMA OtherStepEnds ==
  ASSUME TypeInv, PasswordInv, RenewalInv, [Next]_vars,
         \A r \in Requests : ~AtSet(r) /\ ~RtSet(r)
  PROVE  Registry!Next
<1>1. tok \subseteq Issued /\ ref \subseteq Granted
  BY DEF PasswordInv, KeysAreIssued, RenewalInv
<1>2. Issued' = Issued /\ Granted' = Granted
  <2>1. CASE UNCHANGED sess BY <2>1 DEF Issued, Granted
  <2>2. ASSUME NEW r \in Requests, NEW s \in Sessions, NEW via, NEW old, NEW multi,
               Mint(r, s, via, old, multi)
        PROVE  Issued' = Issued /\ Granted' = Granted
    <3>1. /\ sess[s].stage = "free" /\ sess'[s].stage = "minted"
          /\ \A t \in Sessions \ {s} : sess'[t] = sess[t]
      BY <2>2 DEF Mint, TypeInv, TypeOK
    <3> QED BY <3>1 DEF Issued, Granted
  <2>3. ASSUME NEW r \in Requests, LoginTime(r) \/ LoginTimeDeleted(r) \/ AtDrop(r)
        PROVE  Issued' = Issued /\ Granted' = Granted
    BY <2>1, <2>2, <2>3 DEF LoginTime, LoginTimeDeleted, AtDrop
  <2>4. ASSUME NEW r \in Requests, Step(r),
               ~(LoginTime(r) \/ LoginTimeDeleted(r) \/ AtDrop(r))
        PROVE  UNCHANGED sess
    BY <2>4 DEF Step, AtScan, AtDel, AtUncache, RtScan, RtDel, Respond, RemoteCheck, RtGet,
       RtDrop, AuthTok, AuthCache, AuthDb, AuthFill, OutTok, OutRef, WriteUpdate,
       WriteScanTok, WriteDelTok, WriteScanRef, WriteDelRef, WriteUncache, Commit
  <2>5. ASSUME NEW r \in Requests, Start(r) \/ Abort(r) PROVE UNCHANGED sess
    BY <2>5 DEF Start, LoginStart, RefreshStart, AuthStart, LogoutStart, WriteStart, Abort
  <2>6. Environment \/ UNCHANGED vars => UNCHANGED sess
    BY DEF Environment, Revoke, ExpireToken, ExpireRefresh, ExpireCache, vars
  <2> QED BY <2>1, <2>3, <2>4, <2>5, <2>6 DEF Next
<1>3. /\ tok' \subseteq tok /\ ref' \subseteq ref /\ (tok' = tok \/ ref' = ref)
  <2>1. ASSUME NEW r \in Requests, Step(r)
        PROVE  tok' \subseteq tok /\ ref' \subseteq ref /\ (tok' = tok \/ ref' = ref)
    BY <2>1 DEF Step, LoginTime, LoginTimeDeleted, AtScan, AtDel, AtUncache, RtScan, RtDel,
       Respond, RemoteCheck, RtGet, RtDrop, AtDrop, AuthTok, AuthCache, AuthDb, AuthFill,
       OutTok, OutRef, WriteUpdate, WriteScanTok, WriteDelTok, WriteScanRef, WriteDelRef,
       WriteUncache, Commit
  <2>2. ASSUME NEW r \in Requests, Start(r) \/ Abort(r) PROVE UNCHANGED <<tok, ref>>
    BY <2>2 DEF Start, LoginStart, RefreshStart, AuthStart, LogoutStart, WriteStart, Abort
  <2>3. Environment \/ UNCHANGED vars
          => tok' \subseteq tok /\ ref' \subseteq ref /\ (tok' = tok \/ ref' = ref)
    BY DEF Environment, Revoke, ExpireToken, ExpireRefresh, ExpireCache, vars
  <2> QED BY <2>1, <2>2, <2>3 DEF Next
<1> QED BY <1>1, <1>2, <1>3, KeysEnd

\* The keys in Redis implement the registry of SessionRegistry: whatever
\* requests overlap, the access token and the refresh token of a session become
\* valid once each, in this order, and an ended one is never valid again.
THEOREM SessionsImplementRegistry == Spec => ImplementsRegistry
<1>1. Init => Registry!Init
  <2> SUFFICES ASSUME Init PROVE Registry!Init OBVIOUS
  <2>1. tok = {} /\ ref = {} /\ \A s \in Sessions : sess[s].stage = "free"
    BY DEF Init
  <2> QED BY <2>1 DEF Registry!Init, Issued
<1>2. TypeInv /\ PasswordInv /\ RenewalInv /\ [Next]_vars => Registry!Next
  BY AtSetOpens, RtSetGrants, OtherStepEnds
<1>3. Spec => []TypeInv BY InitTypeInv, NextTypeInv, PTL DEF Spec
<1> QED BY <1>1, <1>2, <1>3, PasswordInvHolds, RenewalInvHolds, PTL
       DEF Spec, ImplementsRegistry, Registry!Spec

-----------------------------------------------------------------------------
(* The user cache.                                                         *)

\* A step that writes no row puts no new record anywhere but where AuthDb read
\* it from a row that lets its user in.
LEMMA CopyFrame ==
  ASSUME TypeInv, BlockedUserNotCached, UNCHANGED row,
         \A u \in Users : cache'[u] = cache[u] \/ cache'[u] = "missing",
         \A q \in Requests : \/ req'[q].copy # "current" \/ MaySignIn(req'[q].user)
                             \/ req'[q].copy = req[q].copy /\ req'[q].user = req[q].user
  PROVE  BlockedUserNotCached'
<1>1. \A u \in Users : MaySignIn(u)' <=> MaySignIn(u) BY DEF MaySignIn
<1> QED BY <1>1 DEF BlockedUserNotCached

LEMMA RequestFrame ==
  ASSUME TypeInv, BlockedUserNotCached, UNCHANGED row, NEW r \in Requests, Others(r),
         \A u \in Users : cache'[u] = cache[u] \/ cache'[u] = "missing",
         Same(r) \/ req'[r].copy # "current"
  PROVE  BlockedUserNotCached'
BY CopyFrame DEF Others, Same, SameJob

LEMMA FinishCopy ==
  ASSUME TypeInv, NEW r \in Requests, Finish(r)
  PROVE  Others(r) /\ req'[r].copy # "current"
BY FinishMoves DEF Finish, Idle, TypeInv, TypeOK

LEMMA StartCopy ==
  ASSUME TypeInv, BlockedUserNotCached, NEW r \in Requests, Start(r)
  PROVE  BlockedUserNotCached'
<1>0. req \in [Requests -> RequestState] BY DEF TypeInv, TypeOK
<1>1. UNCHANGED <<row, cache>>
  BY DEF Start, LoginStart, RefreshStart, AuthStart, LogoutStart, WriteStart
<1>2. Others(r) /\ req'[r].copy # "current"
  <2>1. ASSUME NEW u \in Users, NEW op \in {"login", "swagger"}, LoginStart(r, u, op)
        PROVE  Others(r) /\ req'[r].copy # "current"
    BY <1>0, <2>1 DEF LoginStart, Others, Idle
  <2>2. ASSUME NEW c \in jar, RefreshStart(r, c)
        PROVE  Others(r) /\ req'[r].copy # "current"
    BY <1>0, <2>2 DEF RefreshStart, Others, Idle
  <2>3. ASSUME NEW s \in held, AuthStart(r, s)
        PROVE  Others(r) /\ req'[r].copy # "current"
    BY <1>0, <2>3 DEF AuthStart, Others, Idle
  <2>4. ASSUME NEW s \in held, NEW c \in jar \cup {None}, LogoutStart(r, s, c)
        PROVE  Others(r) /\ req'[r].copy # "current"
    BY <1>0, <2>4 DEF LogoutStart, Others, Idle
  <2>5. ASSUME NEW u \in Users, NEW k \in held, NEW op \in WriteOps, NEW val \in BOOLEAN,
               WriteStart(r, u, k, op, val)
        PROVE  Others(r) /\ req'[r].copy # "current"
    BY <1>0, <2>5 DEF WriteStart, Others, Idle
  <2> QED BY <2>1, <2>2, <2>3, <2>4, <2>5 DEF Start
<1> QED BY <1>1, <1>2, RequestFrame

\* Steps that neither read nor write a row, nor fill the cache.
LEMMA PlainStepCopy ==
  ASSUME TypeInv, BlockedUserNotCached, NEW r \in Requests, Step(r),
         ~AuthDb(r), ~AuthFill(r), ~Commit(r)
  PROVE  BlockedUserNotCached'
<1>1. UNCHANGED row /\ \A u \in Users : cache'[u] = cache[u] \/ cache'[u] = "missing"
  BY DEF Step, LoginTime, LoginTimeDeleted, AtScan, AtDel, AtUncache, AtSet, RtScan, RtDel,
     RtSet, Respond, RemoteCheck, RtGet, RtDrop, AtDrop, AuthTok, AuthCache, OutTok, OutRef,
     WriteUpdate, WriteScanTok, WriteDelTok, WriteScanRef, WriteDelRef, WriteUncache,
     TypeInv, TypeOK
<1>2. CASE Finish(r) BY <1>1, <1>2, FinishCopy, RequestFrame
<1>3. CASE \E label : Goto(r, label) BY <1>1, <1>3, GotoMoves, GotoKeeps, RequestFrame
<1>4. CASE \E label, keys : Collect(r, label, keys)
  BY <1>1, <1>4, CollectMoves, CollectKeeps, RequestFrame
<1>5. CASE \E s, via, old, multi : Mint(r, s, via, old, multi)
  <2>1. Others(r) /\ req'[r].copy = req[r].copy /\ req'[r].user = req[r].user
    BY <1>5, MintMoves, MintKeeps
  <2> QED BY <1>1, <2>1, CopyFrame DEF Others
<1>6. CASE LoginTime(r) \/ LoginTimeDeleted(r) \/ AtDrop(r)
  BY <1>2, <1>5, <1>6 DEF LoginTime, LoginTimeDeleted, AtDrop
<1>7. CASE \/ AtScan(r) \/ AtDel(r) \/ RtScan(r) \/ RtDel(r) \/ WriteScanTok(r)
           \/ WriteDelTok(r) \/ WriteScanRef(r) \/ WriteDelRef(r)
  BY <1>4, <1>7 DEF AtScan, AtDel, RtScan, RtDel, WriteScanTok, WriteDelTok, WriteScanRef,
     WriteDelRef
<1>8. CASE \/ AtUncache(r) \/ AtSet(r) \/ RtSet(r) \/ Respond(r) \/ RemoteCheck(r) \/ RtGet(r)
           \/ RtDrop(r) \/ AuthTok(r) \/ AuthCache(r) \/ OutTok(r) \/ OutRef(r)
           \/ WriteUpdate(r) \/ WriteUncache(r)
  BY <1>2, <1>3, <1>8 DEF AtUncache, AtSet, RtSet, Respond, RemoteCheck, RtGet, RtDrop,
     AuthTok, AuthCache, OutTok, OutRef, WriteUpdate, WriteUncache
<1> QED BY <1>6, <1>7, <1>8 DEF Step

\* A read that lets the user in, and the fill that follows it some awaits later.
LEMMA AuthCopy ==
  ASSUME TypeInv, BlockedUserNotCached, NEW r \in Requests, AuthDb(r) \/ AuthFill(r)
  PROVE  BlockedUserNotCached'
<1>0. /\ req \in [Requests -> RequestState] /\ cache \in [Users -> Freshness]
      /\ Fits(req[r])
  BY DEF TypeInv, TypeOK, PcMatchesOp
<1>1. CASE Finish(r) /\ UNCHANGED <<row, cache>> BY <1>1, FinishCopy, RequestFrame
<1>2. CASE AuthDb(r) /\ ~Finish(r)
  <2>1. /\ req' = [req EXCEPT ![r] = [@ EXCEPT !.pc = "auth_fill", !.copy = "current"]]
        /\ MaySignIn(req[r].user) /\ UNCHANGED <<row, cache>>
    BY <1>2 DEF AuthDb
  <2>2. Others(r) /\ req'[r].user = req[r].user BY <1>0, <2>1 DEF Others, RequestState
  <2> QED BY <2>1, <2>2, CopyFrame DEF Others
<1>3. CASE AuthFill(r)
  <2>1. /\ req[r].user \in Users /\ Others(r) /\ req'[r].copy # "current"
        /\ cache' = [cache EXCEPT ![req[r].user] = req[r].copy] /\ UNCHANGED row
    BY <1>0, <1>3, FinishCopy DEF AuthFill, Fits
  <2>2. \A u \in Users : MaySignIn(u)' <=> MaySignIn(u) BY <2>1 DEF MaySignIn
  <2>3. ASSUME NEW u \in Users, ~MaySignIn(u) PROVE cache'[u] # "current"
    BY <1>0, <2>1, <2>3 DEF BlockedUserNotCached
  <2> QED BY <2>1, <2>2, <2>3 DEF BlockedUserNotCached, Others
<1> QED BY <1>1, <1>2, <1>3 DEF AuthDb

\* The commit ages every record of the user whose row it writes.
LEMMA CommitCopy ==
  ASSUME TypeInv, BlockedUserNotCached, NEW r \in Requests, Commit(r)
  PROVE  BlockedUserNotCached'
<1> DEFINE u == req[r].user
<1>1. CASE lock[u] # r
  <2>1. Finish(r) /\ UNCHANGED <<row, cache>> BY <1>1 DEF Commit
  <2> QED BY <2>1, FinishCopy, RequestFrame
<1>2. CASE lock[u] = r
  <2>1. \A v \in Users \ {u} : row'[v] = row[v] /\ cache'[v] = cache[v]
    BY <1>2 DEF Commit, TypeInv, TypeOK
  <2>2. u \in Users => cache'[u] # "current" BY <1>2 DEF Commit, TypeInv, TypeOK
  <2>3. \A q \in Requests \ {r} :
          /\ req'[q].user = req[q].user
          /\ req'[q].copy # "current" \/ (req'[q].copy = req[q].copy /\ req[q].user # u)
    BY <1>2, CommitKeeps DEF SameJob
  <2>4. req'[r].copy # "current" BY <1>2 DEF Commit, Idle
  <2>5. \A v \in Users \ {u} : MaySignIn(v)' <=> MaySignIn(v) BY <2>1 DEF MaySignIn
  <2>6. ASSUME NEW v \in Users, ~MaySignIn(v)'
        PROVE  /\ cache'[v] # "current"
               /\ \A q \in Requests : req'[q].user = v => req'[q].copy # "current"
    BY <2>1, <2>2, <2>3, <2>4, <2>5, <2>6 DEF BlockedUserNotCached
  <2> QED BY <2>6 DEF BlockedUserNotCached
<1> QED BY <1>1, <1>2

LEMMA NextCopy == TypeInv /\ BlockedUserNotCached /\ [Next]_vars => BlockedUserNotCached'
<1> SUFFICES ASSUME TypeInv, BlockedUserNotCached, [Next]_vars PROVE BlockedUserNotCached'
  OBVIOUS
<1>1. ASSUME NEW r \in Requests, Start(r) \/ Step(r) PROVE BlockedUserNotCached'
  BY <1>1, StartCopy, PlainStepCopy, AuthCopy, CommitCopy
<1>2. ASSUME NEW r \in Requests, Abort(r) PROVE BlockedUserNotCached'
  BY <1>2, FinishCopy, RequestFrame DEF Abort
<1>3. CASE Environment \/ UNCHANGED vars
  <2>1. /\ UNCHANGED <<row, req>>
        /\ \A u \in Users : cache'[u] = cache[u] \/ cache'[u] = "missing"
    BY <1>3 DEF Environment, Revoke, ExpireToken, ExpireRefresh, ExpireCache, vars, TypeInv,
       TypeOK
  <2> QED BY <2>1, CopyFrame
<1> QED BY <1>1, <1>2, <1>3 DEF Next

\* get_jwt_user (common/security/jwt.py) reads the row, checks its status
\* and fills the cache in three awaits; a user disabled or deleted in between
\* is never cached, or about to be, as up to date.
THEOREM BlockedNeverCached == Spec => []BlockedUserNotCached
<1>1. Init => BlockedUserNotCached
  BY DEF Init, Idle, BlockedUserNotCached
<1>2. Spec => []TypeInv BY InitTypeInv, NextTypeInv, PTL DEF Spec
<1> QED BY <1>1, <1>2, NextCopy, PTL DEF Spec

-----------------------------------------------------------------------------
(* Single logins.  A step that writes no access token and no row first.    *)

\* q is at no await that ExclusiveInv speaks of.
NarrowedPcs == {"w_scan_ref", "w_del_ref", "w_uncache", "commit"}
Calm(q) ==
  \/ req'[q].pc \notin {"at_del", "at_uncache", "at_set", "w_del_tok"} \cup NarrowedPcs
  \/ req'[q].pc \in NarrowedPcs /\ (req'[q].op # "multi" \/ req'[q].val)

\* q is where it was, and has no lock it did not have.
Waits(q) ==
  /\ SameJob(q) /\ req'[q].pc = req[q].pc /\ req'[q].old = req[q].old
  /\ req'[q].val = req[q].val /\ req'[q].scan = req[q].scan
  /\ req[q].user \in Users /\ lock'[req[q].user] = q => lock[req[q].user] = q

LEMMA LoginsShrink ==
  ASSUME TypeInv, tok' \subseteq tok,
         \A s \in tok : sess'[s].user = sess[s].user /\ sess'[s].via = sess[s].via
  PROVE  \A u : Logins(u)' \subseteq Logins(u)
BY DEF Logins, Of, TypeInv, TypeOK

LEMMA ExclusiveKept ==
  ASSUME TypeInv, ExclusiveInv, UNCHANGED row, tok' \subseteq tok,
         \A s \in tok : sess'[s].user = sess[s].user /\ sess'[s].via = sess[s].via,
         NEW q \in Requests, Calm(q) \/ Waits(q)
  PROVE  (Clears(q) /\ Narrows(q))'
<1>1. CASE Calm(q) BY <1>1 DEF Calm, NarrowedPcs, Clears, Narrows, Narrowing
<1>2. CASE Waits(q)
  <2>1. PICK u : u = req[q].user OBVIOUS
  <2>2. req'[q].user = u /\ Logins(u)' \subseteq Logins(u)
    BY <1>2, <2>1, LoginsShrink DEF Waits, SameJob
  <2>3. Clears(q) /\ Narrows(q) BY DEF ExclusiveInv
  <2>4. Clearing(q)' => Clearing(q) BY <1>2 DEF Waits, SameJob, Clearing, Creating
  <2>5. req[q].pc = "idle" \/ req[q].user \in Users BY DEF TypeInv, PcMatchesOp, Fits
  <2>6. ASSUME Clearing(q)'
        PROVE  /\ req'[q].pc = "at_del" => Logins(u)' \subseteq req'[q].scan
               /\ req'[q].pc \in {"at_uncache", "at_set"} => Logins(u)' = {}
    BY <1>2, <2>1, <2>2, <2>3, <2>4, <2>6 DEF Waits, Clears
  <2>7. ASSUME Narrowing(q)'
        PROVE  /\ req'[q].pc = "w_del_tok" => Logins(u)' \subseteq req'[q].scan \cup {req'[q].old}
               /\ req'[q].pc \in NarrowedPcs => Logins(u)' \subseteq {req'[q].old}
    <3>1. CASE req[q].pc = "idle" BY <1>2, <3>1 DEF Waits, NarrowedPcs
    <3>2. CASE req[q].user \in Users
      <4>1. Narrowing(q) BY <1>2, <2>7, <3>2 DEF Waits, SameJob, Narrowing
      <4>2. /\ req[q].pc = "w_del_tok" => Logins(u) \subseteq req[q].scan \cup {req[q].old}
            /\ req[q].pc \in NarrowedPcs => Logins(u) \subseteq {req[q].old}
        BY <2>1, <2>3, <4>1 DEF Narrows, NarrowedPcs
      <4> QED BY <1>2, <2>2, <4>2 DEF Waits
    <3> QED BY <2>5, <3>1, <3>2
  <2>8. Clears(q)' BY <2>2, <2>6 DEF Clears
  <2>9. Narrows(q)' BY <2>2, <2>7 DEF Narrows, NarrowedPcs
  <2> QED BY <2>8, <2>9
<1> QED BY <1>1, <1>2

LEMMA ExclusiveFrame ==
  ASSUME TypeInv, ExclusiveInv, UNCHANGED row, tok' \subseteq tok,
         \A s \in tok : sess'[s].user = sess[s].user /\ sess'[s].via = sess[s].via,
         \A q \in Requests : Calm(q) \/ Waits(q) \/ (Clears(q) /\ Narrows(q))'
  PROVE  ExclusiveInv'
<1>1. \A q \in Requests : (Clears(q) /\ Narrows(q))' BY ExclusiveKept
<1>2. LoginsExclusive' BY DEF ExclusiveInv, LoginsExclusive
<1>3. \A s \in tok' : sess'[s].user \in Users BY DEF ExclusiveInv
<1> QED BY <1>1, <1>2, <1>3 DEF ExclusiveInv

\* Only r moves; the lock it may take or leave is no other's.
LEMMA OthersWait ==
  ASSUME TypeInv, NEW r \in Requests, Others(r),
         \/ lock' = lock \/ Unlock(r) \/ \E u \in Users : lock' = [lock EXCEPT ![u] = r]
  PROVE  \A q \in Requests \ {r} : Waits(q)
BY SessionsAssumption DEF Others, Waits, SameJob, Unlock, TypeInv, TypeOK

\* Steps that change no session.
LEMMA QuietExclusive ==
  ASSUME TypeInv, ExclusiveInv, NEW r \in Requests, Others(r), UNCHANGED row,
         tok' \subseteq tok,
         \A s \in tok : sess'[s].user = sess[s].user /\ sess'[s].via = sess[s].via,
         \/ lock' = lock \/ Unlock(r) \/ \E u \in Users : lock' = [lock EXCEPT ![u] = r],
         Calm(r) \/ (Clears(r) /\ Narrows(r))'
  PROVE  ExclusiveInv'
BY OthersWait, ExclusiveFrame

LEMMA StartExclusive ==
  ASSUME TypeInv, ExclusiveInv, NEW r \in Requests, Start(r) PROVE ExclusiveInv'
<1>0. req \in [Requests -> RequestState] BY DEF TypeInv, TypeOK
<1>1. UNCHANGED <<row, lock, tok, sess>>
  BY DEF Start, LoginStart, RefreshStart, AuthStart, LogoutStart, WriteStart
<1>2. Others(r) /\ Calm(r)
  <2>1. ASSUME NEW u \in Users, NEW op \in {"login", "swagger"}, LoginStart(r, u, op)
        PROVE  Others(r) /\ Calm(r)
    BY <1>0, <2>1 DEF LoginStart, Others, Idle, Calm, NarrowedPcs
  <2>2. ASSUME NEW c \in jar, RefreshStart(r, c) PROVE Others(r) /\ Calm(r)
    BY <1>0, <2>2 DEF RefreshStart, Others, Idle, Calm, NarrowedPcs
  <2>3. ASSUME NEW s \in held, AuthStart(r, s) PROVE Others(r) /\ Calm(r)
    BY <1>0, <2>3 DEF AuthStart, Others, Idle, Calm, NarrowedPcs
  <2>4. ASSUME NEW s \in held, NEW c \in jar \cup {None}, LogoutStart(r, s, c)
        PROVE  Others(r) /\ Calm(r)
    BY <1>0, <2>4 DEF LogoutStart, Others, Idle, Calm, NarrowedPcs
  <2>5. ASSUME NEW u \in Users, NEW k \in held, NEW op \in WriteOps, NEW val \in BOOLEAN,
               WriteStart(r, u, k, op, val)
        PROVE  Others(r) /\ Calm(r)
    BY <1>0, <2>5 DEF WriteStart, Others, Idle, Calm, NarrowedPcs
  <2> QED BY <2>1, <2>2, <2>3, <2>4, <2>5 DEF Start
<1> QED BY <1>1, <1>2, QuietExclusive

\* Only a user allowed several sessions skips the deletion.
LEMMA MintExclusive ==
  ASSUME TypeInv, PasswordInv, ExclusiveInv, NEW r \in Requests, NEW s \in Sessions,
         NEW via, NEW old, NEW multi, Mint(r, s, via, old, multi), UNCHANGED row,
         tok' \subseteq tok,
         lock' = lock \/ \E u \in Users : lock' = [lock EXCEPT ![u] = r],
         req[r].op \in LoginOps \cup {"refresh"},
         req[r].op = "login" /\ row[req[r].user].live => multi = row[req[r].user].multi
  PROVE  ExclusiveInv'
<1> DEFINE label == IF multi THEN "at_uncache" ELSE "at_scan"
<1>1. /\ Others(r) /\ req'[r].op = req[r].op /\ req'[r].user = req[r].user
  BY MintMoves
<1>2. req'[r].pc = label
  <2>1. req \in [Requests -> RequestState] BY DEF TypeInv, TypeOK
  <2>2. req'[r] = [req[r] EXCEPT !.pc = label, !.sess = s, !.multi = multi]
    BY <2>1 DEF Mint
  <2> HIDE DEF label
  <2> QED BY <2>1, <2>2 DEF RequestState
<1>3. \A t \in tok : sess'[t] = sess[t]
  <2>1. sess[s].stage = "free" /\ \A t \in Sessions \ {s} : sess'[t] = sess[t]
    BY DEF Mint, TypeInv, TypeOK
  <2> QED BY <2>1 DEF PasswordInv, KeysAreIssued, Issued
<1>4. Calm(r) \/ (Clears(r) /\ Narrows(r))'
  <2>1. CASE ~multi BY <1>2, <2>1 DEF Calm, NarrowedPcs
  <2>2. CASE multi
    <3>1. ~Clearing(r)' BY <1>1, <2>2 DEF Clearing
    <3>2. ~Narrowing(r)' BY <1>1 DEF Narrowing, LoginOps
    <3> QED BY <3>1, <3>2 DEF Clears, Narrows
  <2> QED BY <2>1, <2>2
<1> QED BY <1>1, <1>3, <1>4, QuietExclusive

LEMMA LoginTimeExclusive ==
  ASSUME TypeInv, PasswordInv, ExclusiveInv, NEW r \in Requests,
         LoginTime(r) \/ LoginTimeDeleted(r) \/ AtDrop(r)
  PROVE  ExclusiveInv'
<1>1. Fits(req[r]) BY DEF TypeInv, PcMatchesOp
<1>2. /\ req[r].op \in LoginOps \cup {"refresh"} /\ req[r].user \in Users
      /\ UNCHANGED row /\ tok' \subseteq tok
  BY <1>1 DEF LoginTime, LoginTimeDeleted, AtDrop, Fits
<1>3. CASE LoginTime(r)
  <2>1. PICK s, multi :
          /\ s \in Sessions /\ Mint(r, s, req[r].op, None, multi)
          /\ req[r].op = "login" => multi = row[req[r].user].multi
    BY <1>3 DEF LoginTime
  <2>2. \E u \in Users : lock' = [lock EXCEPT ![u] = r] BY <1>2, <1>3 DEF LoginTime
  <2> QED BY <1>2, <2>1, <2>2, MintExclusive
<1>4. CASE LoginTimeDeleted(r)
  <2>1. CASE Finish(r) /\ UNCHANGED sess
    BY <1>2, <1>4, <2>1, FinishMoves, QuietExclusive DEF LoginTimeDeleted, Calm, NarrowedPcs
  <2>2. ASSUME NEW s \in Sessions, Mint(r, s, req[r].op, None, req[r].multi)
        PROVE  ExclusiveInv'
    BY <1>2, <1>4, <2>2, MintExclusive DEF LoginTimeDeleted
  <2> QED BY <1>4, <2>1, <2>2 DEF LoginTimeDeleted
<1>5. CASE AtDrop(r)
  <2>1. req[r].op = "refresh" /\ lock' = lock BY <1>1, <1>5 DEF AtDrop, Fits
  <2> QED BY <1>2, <1>5, <2>1, MintExclusive DEF AtDrop
<1> QED BY <1>3, <1>4, <1>5

\* create_access_token deletes the others of the user whose row it has locked.
LEMMA ClearExclusive ==
  ASSUME TypeInv, ExclusiveInv, NEW r \in Requests, AtScan(r) \/ AtDel(r) \/ AtUncache(r)
  PROVE  ExclusiveInv'
<1>1. Fits(req[r]) /\ Clears(r) BY DEF TypeInv, PcMatchesOp, ExclusiveInv
<1>2. /\ UNCHANGED <<row, lock, sess>> /\ tok' \subseteq tok
      /\ req[r].user \in Users /\ req[r].op \in LoginOps \cup {"refresh"}
      /\ req[r].pc \in AtPcs
  BY <1>1 DEF AtScan, AtDel, AtUncache, Fits, AtPcs, WriteOps
<1>3. PICK u \in Users : u = req[r].user BY <1>2
<1>4. Others(r) /\ SameJob(r) BY CollectMoves, GotoMoves DEF AtScan, AtDel, AtUncache
<1>5. req'[r].user = u /\ req'[r].op = req[r].op BY <1>3, <1>4 DEF SameJob
<1>6. Clearing(r)' => Clearing(r)
  BY <1>2, <1>4 DEF Clearing, Creating, SameJob, LoginOps, WriteOps
<1>7. Logins(u) \subseteq tok \cap Covered(u)
  BY SessionsAssumption DEF Logins, Of, Covered
<1>8. Narrows(r)' BY <1>2, <1>5 DEF Narrows, Narrowing, LoginOps
<1>9. CASE AtScan(r)
  <2>1. Collect(r, "at_del", tok \cap Covered(u)) /\ tok' = tok
    BY <1>3, <1>9 DEF AtScan
  <2>2. req'[r].pc = "at_del" /\ req'[r].scan = tok \cap Covered(u)
    BY <2>1, CollectMoves
  <2>3. Logins(u)' = Logins(u) BY <1>2, <2>1 DEF Logins, Of
  <2>4. Clears(r)' BY <1>5, <1>7, <2>2, <2>3 DEF Clears
  <2> QED BY <1>2, <1>4, <1>8, <2>4, QuietExclusive
<1>10. CASE AtDel(r)
  <2>1. tok' \subseteq tok \ req[r].scan /\ req[r].pc = "at_del" BY <1>10 DEF AtDel
  <2>2. Collect(r, "at_uncache", {}) BY <1>10 DEF AtDel
  <2>3. req'[r].pc = "at_uncache" BY <2>2, CollectMoves
  <2>4. Clearing(r)' => Logins(u)' = {}
    BY <1>1, <1>2, <1>3, <1>6, <2>1 DEF Clears, Logins, Of
  <2>5. Clears(r)' BY <1>5, <2>3, <2>4 DEF Clears
  <2> QED BY <1>2, <1>4, <1>8, <2>5, QuietExclusive
<1>11. CASE AtUncache(r)
  <2>1. tok' = tok /\ req[r].pc = "at_uncache" /\ Goto(r, "at_set")
    BY <1>11 DEF AtUncache
  <2>2. req'[r].pc = "at_set" BY <2>1, GotoMoves
  <2>3. Clearing(r)' => Logins(u)' = {}
    BY <1>1, <1>2, <1>3, <1>6, <2>1 DEF Clears, Logins, Of
  <2>4. Clears(r)' BY <1>5, <2>2, <2>3 DEF Clears
  <2> QED BY <1>2, <1>4, <1>8, <2>4, QuietExclusive
<1> QED BY <1>9, <1>10, <1>11

\* A login that writes its key excludes every other request that relies on the
\* row lock of its user.
LEMMA AtSetExclusive ==
  ASSUME TypeInv, PasswordInv, ExclusiveInv, NEW r \in Requests, AtSet(r)
  PROVE  ExclusiveInv'
<1>0. PICK s, u : s \in Sessions /\ s = req[r].sess /\ u = req[r].user BY OwnSession
<1>1. /\ Creating(r) /\ sess[s].stage = "minted" /\ sess[s].user = u
      /\ sess[s].via = req[r].op
  BY <1>0, OwnSession DEF PasswordInv, OwnsItsSession
<1>2. \A t \in Sessions : sess'[t].user = sess[t].user /\ sess'[t].via = sess[t].via
  BY <1>0 DEF AtSet, TypeInv, TypeOK, SessionInfo
<1>3. /\ tok' = tok \cup {s} /\ UNCHANGED <<row, lock>> /\ tok \subseteq Sessions
      /\ req[r].pc = "at_set" /\ u \in Users
  BY <1>0 DEF AtSet, TypeInv, TypeOK, PcMatchesOp, Fits
<1>4. s \notin tok BY <1>1 DEF PasswordInv, KeysAreIssued, Issued
<1>5. Others(r) /\ Calm(r)
  <2>1. PICK label \in {"respond", "rt_set", "rt_scan"} : Goto(r, label) BY DEF AtSet
  <2> QED BY <2>1, GotoMoves DEF Calm, NarrowedPcs
<1>6. req[r].op = "login" => lock[u] = r \/ ~row[u].live
  BY <1>0, <1>1 DEF PasswordInv, LoginHoldsLock, LoginOps
<1>7. ASSUME NEW q \in Requests \ {r} PROVE (Clears(q) /\ Narrows(q))'
  <2>0. PICK v : v = req[q].user OBVIOUS
  <2>1. /\ req'[q] = req[q] /\ (Clearing(q)' <=> Clearing(q))
        /\ (Narrowing(q)' <=> Narrowing(q))
    BY <1>3, <1>5 DEF Others, Clearing, Creating, Narrowing
  <2>2. Clears(q) /\ Narrows(q) /\ Fits(req[q]) BY DEF ExclusiveInv, TypeInv, PcMatchesOp
  <2>3. Logins(v)' = IF req[r].op = "login" /\ u = v THEN Logins(v) \cup {s} ELSE Logins(v)
    BY <1>0, <1>1, <1>2, <1>3 DEF Logins, Of
  <2>4. Clearing(q) => ~(req[r].op = "login" /\ u = v)
    BY <1>6, <2>0 DEF Clearing, PasswordInv, LoginHoldsLock, LoginOps
  <2>5. Narrowing(q) /\ q # None => ~(req[r].op = "login" /\ u = v)
    BY <1>3, <1>6, <2>0 DEF Narrowing, PasswordInv, LockedRowIsLive
  <2>6. q # None BY SessionsAssumption
  <2>7. Clears(q)' BY <2>0, <2>1, <2>2, <2>3, <2>4 DEF Clears
  <2>8. Narrows(q)' BY <2>0, <2>1, <2>2, <2>3, <2>5, <2>6 DEF Narrows
  <2> QED BY <2>7, <2>8
<1>8. (Clears(r) /\ Narrows(r))' BY <1>5 DEF Calm, NarrowedPcs, Clears, Narrows, Narrowing
<1>9. LoginsExclusive'
  <2>1. req[r].op = "login" /\ row[u].live /\ ~row[u].multi => Logins(u) = {}
    BY <1>0, <1>1, <1>3 DEF ExclusiveInv, Clears, Clearing
  <2>2. ASSUME NEW a \in tok', NEW b \in tok', a # b, sess[a].user = sess[b].user,
               sess[a].via = "login", sess[b].via = "login",
               ~row[sess[a].user].multi, row[sess[a].user].live
        PROVE  FALSE
    <3>1. CASE a \in tok /\ b \in tok BY <2>2, <3>1 DEF ExclusiveInv, LoginsExclusive
    <3>2. CASE a = s \/ b = s
      <4>1. \E t \in tok : t \in Logins(u) BY <1>1, <1>3, <2>2, <3>2 DEF Logins, Of
      <4> QED BY <1>1, <2>1, <2>2, <3>2, <4>1
    <3> QED BY <1>3, <3>1, <3>2
  <2>3. row' = row /\ tok' \subseteq Sessions BY <1>0, <1>3
  <2> QED BY <1>2, <2>2, <2>3 DEF LoginsExclusive
<1>10. \A t \in tok' : sess'[t].user \in Users BY <1>0, <1>1, <1>2, <1>3 DEF ExclusiveInv
<1> QED BY <1>7, <1>8, <1>9, <1>10 DEF ExclusiveInv

\* The handlers that write the row; multi_login spares the caller's own key.
LEMMA WriteExclusive ==
  ASSUME TypeInv, ExclusiveInv, NEW r \in Requests,
         \/ WriteUpdate(r) \/ WriteScanTok(r) \/ WriteDelTok(r)
         \/ WriteScanRef(r) \/ WriteDelRef(r) \/ WriteUncache(r)
  PROVE  ExclusiveInv'
<1>1. Fits(req[r]) /\ Narrows(r) BY DEF TypeInv, PcMatchesOp, ExclusiveInv
<1>2. /\ UNCHANGED <<row, sess>> /\ tok' \subseteq tok
      /\ req[r].user \in Users /\ req[r].op \in WriteOps
  BY <1>1 DEF WriteUpdate, WriteScanTok, WriteDelTok, WriteScanRef, WriteDelRef,
     WriteUncache, Fits, WritePcs
<1>3. PICK u, old : u \in Users /\ u = req[r].user /\ old = req[r].old BY <1>2
<1>4. Logins(u) \subseteq tok \cap Covered(u) /\ Logins(u)' \subseteq Logins(u) \cap tok'
  BY <1>2, <1>3, SessionsAssumption DEF Logins, Of, Covered
<1>5. CASE WriteUpdate(r)
  <2>1. PICK label : /\ Goto(r, label)
                     /\ label = IF EndsSessions(req[r].op, req[r].val)
                                THEN "w_scan_tok" ELSE "w_uncache"
    BY <1>5 DEF WriteUpdate
  <2>2. Others(r) /\ Same(r) /\ req'[r].pc = label BY <2>1, GotoMoves, GotoKeeps
  <2>3. Calm(r) BY <2>1, <2>2 DEF Calm, NarrowedPcs, Same, SameJob, EndsSessions
  <2>4. lock' = lock \/ \E v \in Users : lock' = [lock EXCEPT ![v] = r]
    BY <1>2, <1>5 DEF WriteUpdate
  <2> QED BY <1>2, <2>2, <2>3, <2>4, QuietExclusive
<1>6. CASE WriteScanTok(r)
  <2>1. PICK keys : /\ Collect(r, "w_del_tok", keys)
                    /\ req[r].op = "multi" => tok \cap Covered(u) \subseteq keys \cup {old}
    BY <1>3, <1>6 DEF WriteScanTok
  <2>2. /\ Others(r) /\ Same(r) /\ req'[r].pc = "w_del_tok" /\ req'[r].scan = keys
    BY <2>1, CollectMoves, CollectKeeps
  <2>3. req'[r].user = u /\ req'[r].old = old /\ req'[r].op = req[r].op
    BY <1>3, <2>2 DEF Same, SameJob
  <2>4. Narrowing(r)' => Logins(u)' \subseteq keys \cup {old}
    BY <1>4, <2>1, <2>3 DEF Narrowing
  <2>5. Narrows(r)' BY <2>2, <2>3, <2>4 DEF Narrows
  <2>6. Clears(r)' BY <2>2 DEF Clears
  <2> QED BY <1>2, <1>6, <2>2, <2>5, <2>6, QuietExclusive DEF WriteScanTok
<1>7. CASE WriteDelTok(r)
  <2>1. PICK label : /\ Collect(r, label, {})
                     /\ label = IF req[r].op = "multi" THEN "w_uncache" ELSE "w_scan_ref"
    BY <1>7 DEF WriteDelTok
  <2>2. Others(r) /\ Same(r) /\ req'[r].pc = label
    BY <2>1, CollectMoves, CollectKeeps
  <2>3. /\ req'[r].user = u /\ req'[r].old = old /\ req'[r].op = req[r].op
        /\ req'[r].val = req[r].val
    BY <1>3, <2>2 DEF Same, SameJob
  <2>4. tok' \subseteq tok \ req[r].scan /\ lock' = lock /\ req[r].pc = "w_del_tok"
    BY <1>7 DEF WriteDelTok
  <2>5. Narrowing(r)' => Logins(u)' \subseteq {old}
    BY <1>1, <1>3, <1>4, <2>3, <2>4 DEF Narrowing, Narrows
  <2>6. Narrows(r)' BY <2>1, <2>2, <2>3, <2>5 DEF Narrows
  <2>7. Clears(r)' BY <2>1, <2>2 DEF Clears
  <2> QED BY <1>2, <2>2, <2>4, <2>6, <2>7, QuietExclusive
<1>8. CASE WriteScanRef(r) \/ WriteDelRef(r) \/ WriteUncache(r)
  <2>1. Others(r) /\ Same(r) /\ req[r].pc \in NarrowedPcs /\ req'[r].pc \in NarrowedPcs
    <3>1. CASE WriteUncache(r)
      BY <3>1, GotoMoves, GotoKeeps DEF WriteUncache, NarrowedPcs
    <3>2. CASE WriteScanRef(r) \/ WriteDelRef(r)
      <4>1. PICK label, keys : label \in NarrowedPcs /\ Collect(r, label, keys)
        BY <3>2 DEF WriteScanRef, WriteDelRef, NarrowedPcs
      <4> QED BY <3>2, <4>1, CollectMoves, CollectKeeps
               DEF WriteScanRef, WriteDelRef, NarrowedPcs
    <3> QED BY <1>8, <3>1, <3>2
  <2>2. lock' = lock BY <1>8 DEF WriteScanRef, WriteDelRef, WriteUncache
  <2>3. /\ req'[r].user = u /\ req'[r].old = old /\ (Narrowing(r)' => Narrowing(r))
    BY <1>3, <2>1, <2>2 DEF Same, SameJob, Narrowing
  <2>4. Narrows(r)' BY <1>1, <1>3, <1>4, <2>1, <2>3 DEF Narrows, NarrowedPcs
  <2>5. Clears(r)' BY <2>1 DEF Clears, NarrowedPcs
  <2> QED BY <1>2, <2>1, <2>2, <2>4, <2>5, QuietExclusive
<1> QED BY <1>5, <1>6, <1>7, <1>8

LEMMA CommitExclusive ==
  ASSUME TypeInv, PasswordInv, ExclusiveInv, NEW r \in Requests, Commit(r)
  PROVE  ExclusiveInv'
<1>1. UNCHANGED <<tok, sess>> /\ Unlock(r) /\ req[r].pc = "commit" BY DEF Commit
<1>2. CASE lock[req[r].user] # r
  <2>1. Finish(r) /\ UNCHANGED row BY <1>2 DEF Commit
  <2>2. Others(r) /\ Calm(r) BY <2>1, FinishMoves DEF Calm, NarrowedPcs
  <2> QED BY <1>1, <2>1, <2>2, QuietExclusive
<1>3. CASE lock[req[r].user] = r
  <2>0. PICK u \in Users : u = req[r].user
    BY <1>1 DEF TypeInv, PcMatchesOp, Fits
  <2>1. /\ \A v \in Users \ {u} : row'[v] = row[v]
        /\ row'[u] = NewRow(row[u], req[r].op, req[r].val)
        /\ row[u] \in Rows /\ req[r].val \in BOOLEAN
    BY <1>3, <2>0 DEF Commit, TypeInv, TypeOK, RequestState
  <2>2. row[u].live BY <1>3, <2>0, SessionsAssumption DEF PasswordInv, LockedRowIsLive
  <2>3. \A q \in Requests \ {r} : Waits(q)
    BY <1>1, CommitKeeps, SessionsAssumption DEF Waits, Unlock, TypeInv, TypeOK
  <2>4. \A v : Logins(v)' = Logins(v) BY <1>1 DEF Logins, Of
  <2>5. ASSUME NEW q \in Requests \ {r} PROVE (Clears(q) /\ Narrows(q))'
    <3>1. PICK v : v = req[q].user OBVIOUS
    <3>2. /\ req'[q].user = v /\ req'[q].pc = req[q].pc /\ req'[q].op = req[q].op
          /\ req'[q].old = req[q].old /\ req'[q].scan = req[q].scan
          /\ req'[q].val = req[q].val
      BY <2>3, <3>1 DEF Waits, SameJob
    <3>3. Clears(q) /\ Narrows(q) BY DEF ExclusiveInv
    <3>4. req[q].pc = "idle" \/ v \in Users BY <3>1 DEF TypeInv, PcMatchesOp, Fits
    <3>5. Clearing(q)' => Clearing(q)
      <4>1. SUFFICES ASSUME Clearing(q)' PROVE Clearing(q) OBVIOUS
      <4>2. Creating(q) /\ req[q].op = "login" BY <3>2, <4>1 DEF Clearing, Creating
      <4>3. v \in Users BY <3>4, <4>2 DEF Creating, AtPcs, RtPcs
      <4>4. lock[v] = q \/ ~row[v].live
        BY <3>1, <4>2 DEF PasswordInv, LoginHoldsLock, LoginOps
      <4>5. v # u BY <1>3, <2>0, <2>2, <4>4
      <4> QED BY <2>1, <3>1, <3>2, <4>1, <4>2, <4>3, <4>5 DEF Clearing
    <3>6. req[q].pc # "idle" /\ Narrowing(q)' => Narrowing(q)
      BY <2>3, <3>1, <3>2, <3>4 DEF Narrowing, Waits
    <3>7. Clears(q)' BY <2>4, <3>1, <3>2, <3>3, <3>5 DEF Clears
    <3>8. Narrows(q)' BY <2>4, <3>1, <3>2, <3>3, <3>6 DEF Narrows
    <3> QED BY <3>7, <3>8
  <2>6. (Clears(r) /\ Narrows(r))'
    <3>1. req'[r].pc = "idle" BY CommitKeeps
    <3> QED BY <3>1 DEF Clears, Narrows
  <2>7. LoginsExclusive'
    <3>1. SUFFICES ASSUME NEW a \in tok, NEW b \in tok, a # b, sess[a].user = sess[b].user,
                          sess[a].via = "login", sess[b].via = "login",
                          ~row'[sess[a].user].multi, row'[sess[a].user].live
                   PROVE  FALSE
      BY <1>1 DEF LoginsExclusive
    <3>2. sess[a].user \in Users BY DEF ExclusiveInv
    <3>3. row[sess[a].user].multi \/ ~row[sess[a].user].live
      BY <3>1 DEF ExclusiveInv, LoginsExclusive
    <3>4. sess[a].user = u BY <2>1, <3>1, <3>2, <3>3
    <3>5. req[r].op = "multi" /\ ~req[r].val
      BY <2>1, <2>2, <3>1, <3>3, <3>4 DEF NewRow, Rows
    <3>6. Logins(u) \subseteq {req[r].old}
      BY <1>1, <1>3, <2>0, <3>5 DEF ExclusiveInv, Narrows, Narrowing
    <3>7. a \in Logins(u) /\ b \in Logins(u)
      BY <3>1, <3>4 DEF Logins, Of, TypeInv, TypeOK
    <3> QED BY <3>1, <3>6, <3>7
  <2> QED BY <1>1, <2>5, <2>6, <2>7 DEF ExclusiveInv
<1> QED BY <1>2, <1>3

\* Steps that do not touch what ExclusiveInv speaks of.
LEMMA OtherStepExclusive ==
  ASSUME TypeInv, ExclusiveInv, NEW r \in Requests,
         \/ RtScan(r) \/ RtDel(r) \/ RtSet(r) \/ Respond(r)
         \/ RemoteCheck(r) \/ RtGet(r) \/ RtDrop(r)
         \/ AuthTok(r) \/ AuthCache(r) \/ AuthDb(r) \/ AuthFill(r) \/ OutTok(r) \/ OutRef(r)
  PROVE  ExclusiveInv'
<1>1. /\ UNCHANGED <<row, lock>> /\ tok' \subseteq tok
      /\ \A s \in tok : sess'[s].user = sess[s].user /\ sess'[s].via = sess[s].via
  BY DEF RtScan, RtDel, RtSet, Respond, RemoteCheck, RtGet, RtDrop, AuthTok, AuthCache,
     AuthDb, AuthFill, OutTok, OutRef, TypeInv, TypeOK, SessionInfo
<1>2. Others(r) /\ Calm(r)
  <2>1. CASE Finish(r) BY <2>1, FinishMoves DEF Calm, NarrowedPcs
  <2>2. CASE AuthDb(r) /\ ~Finish(r)
    <3>1. /\ req' = [req EXCEPT ![r] = [@ EXCEPT !.pc = "auth_fill", !.copy = "current"]]
          /\ req \in [Requests -> RequestState]
      BY <2>2 DEF AuthDb, TypeInv, TypeOK
    <3> QED BY <3>1 DEF Others, RequestState, Calm, NarrowedPcs
  <2>3. CASE RtScan(r) \/ RtDel(r)
    <3>1. PICK label, keys : label \in {"rt_del", "rt_set"} /\ Collect(r, label, keys)
      BY <2>3 DEF RtScan, RtDel
    <3> QED BY <3>1, CollectMoves DEF Calm, NarrowedPcs
  <2>4. CASE Respond(r) /\ ~Finish(r)
    <3>1. Others(r) /\ SameJob(r) /\ req'[r].pc = "commit"
      BY <2>4, GotoMoves DEF Respond
    <3>2. req[r].op # "multi"
      BY <2>4 DEF Respond, TypeInv, PcMatchesOp, Fits, RtPcs, LoginOps
    <3> QED BY <3>1, <3>2 DEF Calm, NarrowedPcs, SameJob
  <2>5. CASE (RtSet(r) \/ RemoteCheck(r) \/ RtGet(r) \/ RtDrop(r) \/ AuthTok(r)
              \/ AuthCache(r) \/ OutTok(r)) /\ ~Finish(r)
    <3>1. PICK label \in {"respond", "rt_get", "rt_drop", "at_drop", "auth_cache", "auth_db",
                          "out_ref"} : Goto(r, label)
      BY <2>5 DEF RtSet, RemoteCheck, RtGet, RtDrop, AuthTok, AuthCache, OutTok
    <3> QED BY <3>1, GotoMoves DEF Calm, NarrowedPcs
  <2> QED BY <2>1, <2>2, <2>3, <2>4, <2>5 DEF AuthFill, OutRef
<1> QED BY <1>1, <1>2, QuietExclusive

LEMMA NextExclusive == TypeInv /\ PasswordInv /\ ExclusiveInv /\ [Next]_vars => ExclusiveInv'
<1> SUFFICES ASSUME TypeInv, PasswordInv, ExclusiveInv, [Next]_vars PROVE ExclusiveInv'
  OBVIOUS
<1>1. ASSUME NEW r \in Requests, Step(r) PROVE ExclusiveInv'
  BY <1>1, LoginTimeExclusive, ClearExclusive, AtSetExclusive, WriteExclusive,
     CommitExclusive, OtherStepExclusive DEF Step
<1>2. ASSUME NEW r \in Requests, Abort(r) PROVE ExclusiveInv'
  <2>1. Others(r) /\ Calm(r) BY <1>2, FinishMoves DEF Abort, Calm, NarrowedPcs
  <2> QED BY <1>2, <2>1, QuietExclusive DEF Abort
<1>3. CASE Environment \/ UNCHANGED vars
  <2>1. UNCHANGED <<row, lock, sess, req>> /\ tok' \subseteq tok
    BY <1>3 DEF Environment, Revoke, ExpireToken, ExpireRefresh, ExpireCache, vars
  <2>2. \A q \in Requests : Waits(q) BY <2>1 DEF Waits, SameJob
  <2> QED BY <2>1, <2>2, ExclusiveFrame
<1> QED BY <1>1, <1>2, <1>3, StartExclusive DEF Next

\* A user without multi_login has at most one access token that a login
\* created, although create_access_token (common/security/jwt.py) scans,
\* deletes and writes in separate awaits, and multi_login (user_service.py)
\* may withdraw the right between two logins: the row lock orders them.
THEOREM OneLoginAtATime == Spec => []LoginsExclusive
<1>1. Init => ExclusiveInv
  <2> SUFFICES ASSUME Init PROVE ExclusiveInv OBVIOUS
  <2>1. \A r \in Requests : Clears(r) /\ Narrows(r)
    BY DEF Init, Idle, Clears, Narrows
  <2> QED BY <2>1 DEF Init, ExclusiveInv, LoginsExclusive
<1>2. Spec => []TypeInv BY InitTypeInv, NextTypeInv, PTL DEF Spec
<1>3. ExclusiveInv => LoginsExclusive BY DEF ExclusiveInv
<1> QED BY <1>1, <1>2, <1>3, NextExclusive, PasswordInvHolds, PTL DEF Spec

=============================================================================
