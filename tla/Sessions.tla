------------------------------ MODULE Sessions ------------------------------
(***************************************************************************)
(* Login sessions of the admin backend: the access-token, refresh-token    *)
(* and user-cache keys in Redis (common/security/jwt.py), the handlers     *)
(* that write them (app/admin/service/auth_service.py, user_service.py,    *)
(* api/v1/monitor/online.py) and the user row they guard.                  *)
(*                                                                         *)
(* Every await of a handler is an interleaving point: a request is a       *)
(* record with a program counter and the locals the handler carries from   *)
(* one await to the next.  The handlers that UPDATE or DELETE the user row *)
(* hold its row lock until their transaction commits, which FastAPI does   *)
(* after the response has been sent.                                       *)
(***************************************************************************)
EXTENDS Integers, FiniteSets

CONSTANTS
  Users,          \* user ids
  Sessions,       \* session uuids; uuid4 never repeats, so each is minted once
  Requests,       \* slots for requests in flight
  Ops,            \* the kinds of requests clients send
  Covers,         \* Covers[u]: the users whose id has u's id as a prefix
  SnapshotReads,  \* TRUE: a transaction rereads its own snapshot (MySQL)
  None            \* no user, no session, no request

RequestOps == {"login", "swagger", "refresh", "auth", "logout"}
WriteOps == {"profile", "status", "multi", "password", "reset", "delete"}

ASSUME SessionsAssumption ==
  /\ Ops \subseteq RequestOps \cup WriteOps \cup {"revoke"}
  /\ Covers \in [Users -> SUBSET Users]
  /\ \A u \in Users : u \in Covers[u]
  /\ SnapshotReads \in BOOLEAN
  /\ None \notin Users \cup Sessions \cup Requests

VARIABLES
  row,       \* the committed user rows
  lock,      \* lock[u]: the request whose transaction holds the row lock
  tok,       \* sessions with a live access-token key
  ref,       \* sessions with a live refresh-token key
  cache,     \* cache[u]: the user cache entry against the committed row
  sess,      \* who each session uuid was minted for, and by what
  held,      \* sessions whose access token was sent to a client
  jar,       \* sessions whose refresh token sits in a client's cookie
  req,       \* the requests in flight
  outdated,  \* history: sessions older than the owner's last password change
  forced     \* history: sessions an administrator forced offline

vars == <<row, lock, tok, ref, cache, sess, held, jar, req, outdated, forced>>

Freshness == {"missing", "current", "stale"}
Labels == {"idle", "login_time", "remote_check", "rt_get", "rt_drop", "at_drop",
           "at_scan", "at_del", "at_uncache", "at_set", "rt_scan", "rt_del",
           "rt_set", "respond", "commit", "auth_tok", "auth_cache", "auth_db",
           "auth_fill", "out_tok", "out_ref", "w_update", "w_scan_tok",
           "w_del_tok", "w_scan_ref", "w_del_ref", "w_uncache"}

Rows == [live : BOOLEAN, enabled : BOOLEAN, multi : BOOLEAN]
SessionInfo == [stage : {"free", "minted", "issued", "granted"}, user : Users \cup {None},
                via : {"login", "swagger", "refresh"},
                from : Sessions \cup {None}]
RequestState == [pc : Labels, op : RequestOps \cup WriteOps,
                 user : Users \cup {None},
                 sess : Sessions \cup {None},  \* the session being created
                 old : Sessions \cup {None},   \* the session presented
                 multi : BOOLEAN,              \* is_multi_login as read
                 val : BOOLEAN,                \* the flag to write; has a cookie
                 copy : Freshness,             \* the user record just read
                 scan : SUBSET Sessions]       \* keys delete_prefix collected

Idle == [pc |-> "idle", op |-> "auth", user |-> None, sess |-> None, old |-> None,
         multi |-> FALSE, val |-> FALSE, copy |-> "missing", scan |-> {}]

TypeOK ==
  /\ row \in [Users -> Rows]
  /\ lock \in [Users -> Requests \cup {None}]
  /\ tok \subseteq Sessions
  /\ ref \subseteq Sessions
  /\ cache \in [Users -> Freshness]
  /\ sess \in [Sessions -> SessionInfo]
  /\ held \subseteq Sessions
  /\ jar \subseteq Sessions
  /\ req \in [Requests -> RequestState]
  /\ outdated \subseteq Sessions
  /\ forced \subseteq Sessions

Init ==
  /\ row \in [Users -> [live : {TRUE}, enabled : {TRUE}, multi : BOOLEAN]]
  /\ lock = [u \in Users |-> None]
  /\ tok = {} /\ ref = {} /\ held = {} /\ jar = {}
  /\ outdated = {} /\ forced = {}
  /\ cache = [u \in Users |-> "missing"]
  /\ sess = [s \in Sessions |-> [stage |-> "free", user |-> None,
                                 via |-> "login", from |-> None]]
  /\ req = [r \in Requests |-> Idle]

-----------------------------------------------------------------------------
(* Helpers.                                                                *)

Of(u) == {s \in Sessions : sess[s].user = u}
Issued == {s \in Sessions : sess[s].stage \in {"issued", "granted"}}

\* The keys that match "<prefix>:{u}*": u's own, and those of any user whose
\* id begins with u's digits, because the pattern has no closing colon.
Covered(u) == {s \in Sessions : sess[s].user \in Covers[u]}

Goto(r, label) == req' = [req EXCEPT ![r].pc = label]
Collect(r, label, keys) ==
  req' = [req EXCEPT ![r] = [@ EXCEPT !.pc = label, !.scan = keys]]
Finish(r) == req' = [req EXCEPT ![r] = Idle]

\* The user row as a reader outside any transaction sees it.
MaySignIn(u) == u \in Users /\ row[u].live /\ row[u].enabled

\* Mutant: the transaction is left open when the handler is over.
UnlockLeaked(r) == UNCHANGED lock

\* The transaction of r on row u ends: its row lock, if it has one, is freed.
Unlock(r) == lock' = [u \in Users |-> IF lock[u] = r THEN None ELSE lock[u]]

\* Bound: a request that will mint a uuid starts only while one is left for it.
UuidLeft ==
  Cardinality({r \in Requests : req[r].pc \in
                 {"login_time", "remote_check", "rt_get", "rt_drop", "at_drop"}})
    < Cardinality({s \in Sessions : sess[s].stage = "free"})

\* create_access_token begins: a fresh uuid, then the first await, which a
\* user allowed several sessions skips.
Mint(r, s, via, old, multi) ==
  /\ sess[s].stage = "free"
  /\ sess' = [sess EXCEPT ![s] = [stage |-> "minted", user |-> req[r].user,
                                  via |-> via, from |-> old]]
  /\ req' = [req EXCEPT ![r] =
               [@ EXCEPT !.pc = IF multi THEN "at_uncache" ELSE "at_scan",
                         !.sess = s, !.multi = multi]]

-----------------------------------------------------------------------------
(* Login and swagger login.                                                *)

\* user_verify: the row is read and the password checked against it.
LoginStart(r, u, op) ==
  /\ op \in Ops \cap {"login", "swagger"}
  /\ req[r].pc = "idle"
  /\ MaySignIn(u)
  /\ UuidLeft
  /\ req' = [req EXCEPT ![r] = [Idle EXCEPT !.pc = "login_time", !.op = op,
                                !.user = u, !.multi = row[u].multi]]
  /\ UNCHANGED <<row, lock, tok, ref, cache, sess, held, jar, outdated, forced>>

\* Mutant: the keys are written before any statement locks the row.
LoginTimeUnlocked(r) ==
  LET u == req[r].user IN
  /\ req[r].pc = "login_time"
  /\ row[u].live
  /\ lock[u] = None
  /\ \E s \in Sessions :
       Mint(r, s, req[r].op, None,
            IF req[r].op = "login" THEN row[u].multi ELSE req[r].multi)
  /\ UNCHANGED <<row, lock, tok, ref, cache, held, jar, outdated, forced>>

\* Mutant: no db.refresh, login goes on with the flag it read with the row.
LoginTimeUnrefreshed(r) ==
  LET u == req[r].user IN
  /\ req[r].pc = "login_time"
  /\ row[u].live
  /\ lock[u] = None
  /\ lock' = [lock EXCEPT ![u] = r]
  /\ \E s \in Sessions : Mint(r, s, req[r].op, None, req[r].multi)
  /\ UNCHANGED <<row, tok, ref, cache, held, jar, outdated, forced>>

\* update_login_time takes the row lock; login rereads the row (db.refresh),
\* swagger_login goes on with the flag it read before.
LoginTime(r) ==
  LET u == req[r].user IN
  /\ req[r].pc = "login_time"
  /\ row[u].live
  /\ lock[u] = None
  /\ lock' = [lock EXCEPT ![u] = r]
  /\ \E s \in Sessions :
       Mint(r, s, req[r].op, None,
            IF req[r].op = "login" THEN row[u].multi ELSE req[r].multi)
  /\ UNCHANGED <<row, tok, ref, cache, held, jar, outdated, forced>>

\* The row was deleted meanwhile: the UPDATE matches nothing and takes no lock.
\* db.refresh raises, unless the transaction still sees its snapshot.
LoginTimeDeleted(r) ==
  /\ req[r].pc = "login_time"
  /\ ~row[req[r].user].live
  /\ lock[req[r].user] = None
  /\ \/ /\ req[r].op = "login" /\ ~SnapshotReads
        /\ Finish(r)
        /\ UNCHANGED sess
     \/ /\ req[r].op = "swagger" \/ SnapshotReads
        /\ \E s \in Sessions : Mint(r, s, req[r].op, None, req[r].multi)
  /\ UNCHANGED <<row, lock, tok, ref, cache, held, jar, outdated, forced>>

-----------------------------------------------------------------------------
(* create_access_token and create_refresh_token.                           *)

\* delete_prefix(mc:token:{u}), first half: SCAN collects the keys.
AtScan(r) ==
  /\ req[r].pc = "at_scan"
  /\ Collect(r, "at_del", tok \cap Covered(req[r].user))
  /\ UNCHANGED <<row, lock, tok, ref, cache, sess, held, jar, outdated, forced>>

\* Second half: the collected keys go, and any key written during the scan
\* that the cursor happened to meet.
AtDel(r) ==
  /\ req[r].pc = "at_del"
  /\ \E met \in SUBSET (tok \cap Covered(req[r].user)) :
       tok' = tok \ (req[r].scan \cup met)
  /\ Collect(r, "at_uncache", {})
  /\ UNCHANGED <<row, lock, ref, cache, sess, held, jar, outdated, forced>>

AtUncache(r) ==
  /\ req[r].pc = "at_uncache"
  /\ cache' = [cache EXCEPT ![req[r].user] = "missing"]
  /\ Goto(r, "at_set")
  /\ UNCHANGED <<row, lock, tok, ref, sess, held, jar, outdated, forced>>

\* Mutant: the key is named after the session presented, not the one created.
AtSetOld(r) ==
  LET s == req[r].sess IN
  /\ req[r].pc = "at_set"
  /\ tok' = tok \cup {req[r].old}
  /\ sess' = [sess EXCEPT ![s].stage = "issued"]
  /\ Goto(r, IF req[r].op = "swagger" THEN "respond" ELSE "rt_set")
  /\ UNCHANGED <<row, lock, ref, cache, held, jar, outdated, forced>>

AtSet(r) ==
  LET s == req[r].sess IN
  /\ req[r].pc = "at_set"
  /\ tok' = tok \cup {s}
  /\ sess' = [sess EXCEPT ![s].stage = "issued"]
  /\ Goto(r, CASE req[r].op = "swagger" -> "respond"
               [] req[r].op # "swagger" /\ req[r].multi -> "rt_set"
               [] OTHER -> "rt_scan")
  /\ UNCHANGED <<row, lock, ref, cache, held, jar, outdated, forced>>

RtScan(r) ==
  /\ req[r].pc = "rt_scan"
  /\ Collect(r, "rt_del", ref \cap Covered(req[r].user))
  /\ UNCHANGED <<row, lock, tok, ref, cache, sess, held, jar, outdated, forced>>

RtDel(r) ==
  /\ req[r].pc = "rt_del"
  /\ \E met \in SUBSET (ref \cap Covered(req[r].user)) :
       ref' = ref \ (req[r].scan \cup met)
  /\ Collect(r, "rt_set", {})
  /\ UNCHANGED <<row, lock, tok, cache, sess, held, jar, outdated, forced>>

\* Mutant: a refresh stores the new refresh token under the old session.
RtSetOld(r) ==
  /\ req[r].pc = "rt_set"
  /\ ref' = ref \cup {IF req[r].op = "refresh" THEN req[r].old ELSE req[r].sess}
  /\ sess' = [sess EXCEPT ![req[r].sess].stage = "granted"]
  /\ Goto(r, "respond")
  /\ UNCHANGED <<row, lock, tok, cache, held, jar, outdated, forced>>

RtSet(r) ==
  /\ req[r].pc = "rt_set"
  /\ ref' = ref \cup {req[r].sess}
  /\ sess' = [sess EXCEPT ![req[r].sess].stage = "granted"]
  /\ Goto(r, "respond")
  /\ UNCHANGED <<row, lock, tok, cache, held, jar, outdated, forced>>

\* Mutant: a refresh sets the cookie too.
RespondCookie(r) ==
  /\ req[r].pc = "respond"
  /\ held' = held \cup {req[r].sess}
  /\ jar' = IF req[r].op # "swagger" THEN jar \cup {req[r].sess} ELSE jar
  /\ IF req[r].op = "refresh" THEN Finish(r) ELSE Goto(r, "commit")
  /\ UNCHANGED <<row, lock, tok, ref, cache, sess, outdated, forced>>

\* The response goes out.  Only login sets the refresh cookie; a refresh
\* returns the new access token and keeps the new refresh token to itself.
Respond(r) ==
  /\ req[r].pc = "respond"
  /\ held' = held \cup {req[r].sess}
  /\ jar' = IF req[r].op = "login" THEN jar \cup {req[r].sess} ELSE jar
  /\ IF req[r].op = "refresh" THEN Finish(r) ELSE Goto(r, "commit")
  /\ UNCHANGED <<row, lock, tok, ref, cache, sess, outdated, forced>>

-----------------------------------------------------------------------------
(* Refresh.                                                                *)

RefreshStart(r, c) ==
  LET u == sess[c].user IN
  /\ "refresh" \in Ops
  /\ req[r].pc = "idle"
  /\ c \in jar
  /\ MaySignIn(u)
  /\ UuidLeft
  /\ req' = [req EXCEPT ![r] = [Idle EXCEPT
               !.pc = IF row[u].multi THEN "rt_get" ELSE "remote_check",
               !.op = "refresh", !.user = u, !.old = c, !.multi = row[u].multi]]
  /\ UNCHANGED <<row, lock, tok, ref, cache, sess, held, jar, outdated, forced>>

\* A single-login user may refresh only once no access token of theirs is left.
RemoteCheck(r) ==
  /\ req[r].pc = "remote_check"
  /\ IF tok \cap Of(req[r].user) = {} THEN Goto(r, "rt_get") ELSE Finish(r)
  /\ UNCHANGED <<row, lock, tok, ref, cache, sess, held, jar, outdated, forced>>

RtGet(r) ==
  /\ req[r].pc = "rt_get"
  /\ IF req[r].old \in ref THEN Goto(r, "rt_drop") ELSE Finish(r)
  /\ UNCHANGED <<row, lock, tok, ref, cache, sess, held, jar, outdated, forced>>

\* Mutant: the refresh token is read and left where it is.
RtDropKept(r) ==
  /\ req[r].pc = "rt_drop"
  /\ Goto(r, "at_drop")
  /\ UNCHANGED <<row, lock, tok, ref, cache, sess, held, jar, outdated, forced>>

RtDrop(r) ==
  /\ req[r].pc = "rt_drop"
  /\ ref' = ref \ {req[r].old}
  /\ Goto(r, "at_drop")
  /\ UNCHANGED <<row, lock, tok, cache, sess, held, jar, outdated, forced>>

AtDrop(r) ==
  /\ req[r].pc = "at_drop"
  /\ tok' = tok \ {req[r].old}
  /\ \E s \in Sessions : Mint(r, s, "refresh", req[r].old, req[r].multi)
  /\ UNCHANGED <<row, lock, ref, cache, held, jar, outdated, forced>>

-----------------------------------------------------------------------------
(* jwt_authentication and get_jwt_user.                                    *)

AuthStart(r, s) ==
  /\ "auth" \in Ops
  /\ req[r].pc = "idle"
  /\ s \in held /\ sess[s].user \in Users
  /\ req' = [req EXCEPT ![r] = [Idle EXCEPT !.pc = "auth_tok", !.old = s,
                                !.user = sess[s].user]]
  /\ UNCHANGED <<row, lock, tok, ref, cache, sess, held, jar, outdated, forced>>

AuthTok(r) ==
  /\ req[r].pc = "auth_tok"
  /\ IF req[r].old \in tok THEN Goto(r, "auth_cache") ELSE Finish(r)
  /\ UNCHANGED <<row, lock, tok, ref, cache, sess, held, jar, outdated, forced>>

\* A hit ends the check: the request proceeds as the cached user.
AuthCache(r) ==
  /\ req[r].pc = "auth_cache"
  /\ IF cache[req[r].user] = "missing" THEN Goto(r, "auth_db") ELSE Finish(r)
  /\ UNCHANGED <<row, lock, tok, ref, cache, sess, held, jar, outdated, forced>>

\* Mutant: the row is cached without a look at its status.
AuthDbUnchecked(r) ==
  /\ req[r].pc = "auth_db"
  /\ req' = [req EXCEPT ![r] = [@ EXCEPT !.pc = "auth_fill", !.copy = "current"]]
  /\ UNCHANGED <<row, lock, tok, ref, cache, sess, held, jar, outdated, forced>>

AuthDb(r) ==
  /\ req[r].pc = "auth_db"
  /\ IF MaySignIn(req[r].user)
     THEN req' = [req EXCEPT ![r] = [@ EXCEPT !.pc = "auth_fill", !.copy = "current"]]
     ELSE Finish(r)
  /\ UNCHANGED <<row, lock, tok, ref, cache, sess, held, jar, outdated, forced>>

AuthFill(r) ==
  /\ req[r].pc = "auth_fill"
  /\ cache' = [cache EXCEPT ![req[r].user] = req[r].copy]
  /\ Finish(r)
  /\ UNCHANGED <<row, lock, tok, ref, sess, held, jar, outdated, forced>>

-----------------------------------------------------------------------------
(* Logout and forced logout.                                               *)

LogoutStart(r, s, c) ==
  /\ "logout" \in Ops
  /\ req[r].pc = "idle"
  /\ s \in held /\ sess[s].user \in Users
  /\ c \in jar \cup {None}
  /\ jar' = jar \ {c}
  /\ req' = [req EXCEPT ![r] = [Idle EXCEPT !.pc = "out_tok", !.op = "logout",
                                !.user = sess[s].user, !.old = s, !.val = c # None]]
  /\ UNCHANGED <<row, lock, tok, ref, cache, sess, held, outdated, forced>>

OutTok(r) ==
  /\ req[r].pc = "out_tok"
  /\ tok' = tok \ {req[r].old}
  /\ IF req[r].val THEN Goto(r, "out_ref") ELSE Finish(r)
  /\ UNCHANGED <<row, lock, ref, cache, sess, held, jar, outdated, forced>>

\* The key dropped is the access token's own session, whatever the cookie says.
OutRef(r) ==
  /\ req[r].pc = "out_ref"
  /\ ref' = ref \ {req[r].old}
  /\ Finish(r)
  /\ UNCHANGED <<row, lock, tok, cache, sess, held, jar, outdated, forced>>

\* delete_session: revoke_token deletes the access-token key, nothing else
\* that lets the session go on.
Revoke(s) ==
  /\ "revoke" \in Ops
  /\ s \in tok
  /\ tok' = tok \ {s}
  /\ forced' = forced \cup {s}
  /\ UNCHANGED <<row, lock, ref, cache, sess, held, jar, req, outdated>>

-----------------------------------------------------------------------------
(* The handlers of user_service that write the user row.                   *)

\* The caller is authenticated by the live session k.  update_password acts
\* on the caller's own row.  status negates the flag just read; multi_login
\* negates the caller's cached flag, hence the free choice of val.
WriteStart(r, u, k, op, val) ==
  /\ op \in Ops \cap WriteOps
  /\ req[r].pc = "idle"
  /\ k \in held \cap tok
  /\ row[u].live
  /\ op = "password" => sess[k].user = u
  /\ op = "status" => sess[k].user # u /\ val = ~row[u].enabled
  /\ op \notin {"status", "multi"} => ~val
  /\ req' = [req EXCEPT ![r] = [Idle EXCEPT !.pc = "w_update", !.op = op,
                                !.user = u, !.old = k, !.val = val]]
  /\ UNCHANGED <<row, lock, tok, ref, cache, sess, held, jar, outdated, forced>>

EndsSessions(op, val) == op \in {"password", "delete"} \/ (op = "multi" /\ ~val)

\* The UPDATE or DELETE, which waits for the row lock and keeps it.
WriteUpdate(r) ==
  LET u == req[r].user IN
  /\ req[r].pc = "w_update"
  /\ lock[u] = None
  /\ lock' = IF row[u].live THEN [lock EXCEPT ![u] = r] ELSE lock
  /\ Goto(r, IF EndsSessions(req[r].op, req[r].val) THEN "w_scan_tok" ELSE "w_uncache")
  /\ UNCHANGED <<row, tok, ref, cache, sess, held, jar, outdated, forced>>

\* delete_prefix of the access tokens; the multi_login handler excludes the
\* key {u}:{caller's session}, which exists only when the caller is u.
WriteScanTok(r) ==
  LET keep == IF req[r].op = "multi" THEN Of(req[r].user) \cap {req[r].old} ELSE {} IN
  /\ req[r].pc = "w_scan_tok"
  /\ Collect(r, "w_del_tok", (tok \cap Covered(req[r].user)) \ keep)
  /\ UNCHANGED <<row, lock, tok, ref, cache, sess, held, jar, outdated, forced>>

WriteDelTok(r) ==
  LET keep == IF req[r].op = "multi" THEN Of(req[r].user) \cap {req[r].old} ELSE {} IN
  /\ req[r].pc = "w_del_tok"
  /\ \E met \in SUBSET ((tok \cap Covered(req[r].user)) \ keep) :
       tok' = tok \ (req[r].scan \cup met)
  /\ Collect(r, IF req[r].op = "multi" THEN "w_uncache" ELSE "w_scan_ref", {})
  /\ UNCHANGED <<row, lock, ref, cache, sess, held, jar, outdated, forced>>

WriteScanRef(r) ==
  /\ req[r].pc = "w_scan_ref"
  /\ Collect(r, "w_del_ref", ref \cap Covered(req[r].user))
  /\ UNCHANGED <<row, lock, tok, ref, cache, sess, held, jar, outdated, forced>>

\* The delete handler stops here: it leaves the user cache alone.
WriteDelRef(r) ==
  /\ req[r].pc = "w_del_ref"
  /\ \E met \in SUBSET (ref \cap Covered(req[r].user)) :
       ref' = ref \ (req[r].scan \cup met)
  /\ Collect(r, IF req[r].op = "delete" THEN "commit" ELSE "w_uncache", {})
  /\ UNCHANGED <<row, lock, tok, cache, sess, held, jar, outdated, forced>>

\* The cache key goes before the transaction commits.  update_password deletes
\* by prefix, the others by key; reset_password deletes two token keys by
\* names no key has, and so ends no session.
WriteUncache(r) ==
  LET hit == IF req[r].op = "password" THEN Covers[req[r].user] ELSE {req[r].user} IN
  /\ req[r].pc = "w_uncache"
  /\ cache' = [u \in Users |-> IF u \in hit THEN "missing" ELSE cache[u]]
  /\ Goto(r, "commit")
  /\ UNCHANGED <<row, lock, tok, ref, sess, held, jar, outdated, forced>>

-----------------------------------------------------------------------------
(* The end of a transaction, and what time does.                           *)

NewRow(old, op, val) ==
  CASE op = "status" -> [old EXCEPT !.enabled = val]
    [] op = "multi" -> [old EXCEPT !.multi = val]
    [] op = "delete" -> [old EXCEPT !.live = FALSE]
    [] OTHER -> old

\* get_db_transaction commits once the response is out.  Copies of the row
\* read before this moment, in Redis or in a coroutine, are stale from now on.
Commit(r) ==
  LET u == req[r].user
      age(copy) == IF copy = "current" THEN "stale" ELSE copy
  IN
  /\ req[r].pc = "commit"
  /\ IF lock[u] = r
     THEN /\ row' = [row EXCEPT ![u] = NewRow(@, req[r].op, req[r].val)]
          /\ cache' = [cache EXCEPT ![u] = age(@)]
          /\ outdated' = IF req[r].op \in {"password", "delete"}
                         THEN outdated \cup (Issued \cap Of(u)) ELSE outdated
          /\ req' = [q \in Requests |->
                       IF q = r THEN Idle
                       ELSE IF req[q].user = u
                            THEN [req[q] EXCEPT !.copy = age(@)] ELSE req[q]]
     ELSE /\ Finish(r)
          /\ UNCHANGED <<row, cache, outdated>>
  /\ Unlock(r)
  /\ UNCHANGED <<tok, ref, sess, held, jar, forced>>

\* An exception at an await (Redis or the database away, the worker killed):
\* the transaction rolls back, what Redis already did stays.
Abort(r) ==
  /\ req[r].pc # "idle"
  /\ Finish(r)
  /\ Unlock(r)
  /\ UNCHANGED <<row, tok, ref, cache, sess, held, jar, outdated, forced>>

ExpireToken(s) ==
  /\ s \in tok
  /\ tok' = tok \ {s}
  /\ UNCHANGED <<row, lock, ref, cache, sess, held, jar, req, outdated, forced>>

ExpireRefresh(s) ==
  /\ s \in ref
  /\ ref' = ref \ {s}
  /\ UNCHANGED <<row, lock, tok, cache, sess, held, jar, req, outdated, forced>>

\* Mutant: the entry was set without a TTL.
ExpireCacheNever(u) == u \notin Users /\ UNCHANGED vars

ExpireCache(u) ==
  /\ cache[u] # "missing"
  /\ cache' = [cache EXCEPT ![u] = "missing"]
  /\ UNCHANGED <<row, lock, tok, ref, sess, held, jar, req, outdated, forced>>

-----------------------------------------------------------------------------

Start(r) ==
  \/ \E u \in Users, op \in {"login", "swagger"} : LoginStart(r, u, op)
  \/ \E c \in jar : RefreshStart(r, c)
  \/ \E s \in held : AuthStart(r, s)
  \/ \E s \in held, c \in jar \cup {None} : LogoutStart(r, s, c)
  \/ \E u \in Users, k \in held, op \in WriteOps, val \in BOOLEAN :
       WriteStart(r, u, k, op, val)

\* One await of a request in flight.
Step(r) ==
  \/ LoginTime(r) \/ LoginTimeDeleted(r)
  \/ AtScan(r) \/ AtDel(r) \/ AtUncache(r) \/ AtSet(r)
  \/ RtScan(r) \/ RtDel(r) \/ RtSet(r) \/ Respond(r)
  \/ RemoteCheck(r) \/ RtGet(r) \/ RtDrop(r) \/ AtDrop(r)
  \/ AuthTok(r) \/ AuthCache(r) \/ AuthDb(r) \/ AuthFill(r)
  \/ OutTok(r) \/ OutRef(r)
  \/ WriteUpdate(r) \/ WriteScanTok(r) \/ WriteDelTok(r)
  \/ WriteScanRef(r) \/ WriteDelRef(r) \/ WriteUncache(r)
  \/ Commit(r)

Environment ==
  \/ \E s \in Sessions : Revoke(s) \/ ExpireToken(s) \/ ExpireRefresh(s)
  \/ \E u \in Users : ExpireCache(u)

Next == \/ \E r \in Requests : Start(r) \/ Step(r) \/ Abort(r)
        \/ Environment

Spec == Init /\ [][Next]_vars

(***************************************************************************)
(* The event loop resumes every coroutine whose await completed, and the   *)
(* database grants a row lock to its waiters in turn, so no request is     *)
(* passed over for ever.  Redis drops a key when its TTL has run out.      *)
(***************************************************************************)
Fairness ==
  /\ \A r \in Requests : SF_vars(Step(r))
  /\ \A u \in Users : WF_vars(ExpireCache(u))

-----------------------------------------------------------------------------
(* Properties.                                                             *)

\* When update_password or delete has committed, no key of a session that a
\* login created before that commit is left in Redis: the handler deletes by
\* prefix under the row lock that serialises it with every login.  Sessions
\* created by a refresh, which takes no row lock, may survive.
PasswordChangeEndsLogins ==
  \A s \in (tok \cup ref) \cap outdated : sess[s].via = "refresh"

\* A user who may not log in twice has at most one live access token created
\* by login, although create_access_token deletes the others and writes its
\* own in separate awaits: update_login_time has taken the row lock before.
LoginsExclusive ==
  \A s, t \in tok :
    /\ s # t /\ sess[s].user = sess[t].user
    /\ sess[s].via = "login" /\ sess[t].via = "login"
    => row[sess[s].user].multi \/ ~row[sess[s].user].live

\* A session that came from a refresh is never refreshed itself: its refresh
\* token is written to Redis but set in no cookie and returned to no client,
\* so a client can renew the session of a login once.
RefreshedNeverRefreshes ==
  \A s \in Sessions : sess[s].from # None => sess[sess[s].from].via = "login"

\* The cache never holds the up-to-date record of a user who is disabled or
\* deleted, and no fill is about to put it there: what keeps such a user in
\* is a stale record only.
BlockedUserNotCached ==
  \A u \in Users : ~MaySignIn(u) =>
    /\ cache[u] # "current"
    /\ \A r \in Requests : req[r].user = u => req[r].copy # "current"

\* create_new_token accepts a refresh token only while no session has been
\* issued from it: the key is dropped before the new access token is written,
\* so only refreshes that overlap can redeem one token twice.
RedeemedBeforeIssue ==
  [][\A r \in Requests : req[r].pc = "rt_get" /\ req'[r].pc = "rt_drop" =>
       \A s \in Issued : sess[s].from # req[r].old]_vars

\* Every handler comes to its end: no two of them wait for each other's row
\* lock, and none keeps it.
EveryRequestEnds ==
  \A r \in Requests : req[r].pc # "idle" ~> req[r].pc = "idle"

\* A stale user record does not stay in Redis for ever: authentication never
\* renews the TTL of an entry it hits.
StaleRecordGoes ==
  \A u \in Users : cache[u] = "stale" ~> cache[u] # "stale"

\* What delete_session's summary (forced offline) says: a session forced
\* offline does not go on as a session renewed from it.
ForcedOfflineIsFinal ==
  \A s \in tok : sess[s].from \notin forced

\* The lifetime of access-token and refresh-token keys, seen by a client.
Registry == INSTANCE SessionRegistry WITH
  access <- [s \in Sessions |->
               IF s \in tok THEN "live"
               ELSE IF s \in Issued THEN "over" ELSE "new"],
  grant <- [s \in Sessions |->
              IF s \in ref THEN "live"
              ELSE IF sess[s].stage = "granted" THEN "over" ELSE "new"]

\* Sessions implements the registry: a session ended is never live again.
ImplementsRegistry == Registry!Spec

-----------------------------------------------------------------------------
(* The inductive invariant behind PasswordChangeEndsLogins.                *)

LoginOps == {"login", "swagger"}
AtPcs == {"at_scan", "at_del", "at_uncache", "at_set"}
RtPcs == {"rt_scan", "rt_del", "rt_set", "respond", "commit"}
WritePcs == {"w_update", "w_scan_tok", "w_del_tok", "w_scan_ref", "w_del_ref", "w_uncache"}

\* Which handlers can be at which await.
Fits(q) ==
  /\ q.pc = "login_time" => q.op \in LoginOps
  /\ q.pc \in {"remote_check", "rt_get", "rt_drop", "at_drop"} =>
       q.op = "refresh" /\ q.old \in Sessions
  /\ q.pc \in AtPcs \cup (RtPcs \ {"commit"}) => q.op \in LoginOps \cup {"refresh"}
  /\ q.pc \in AtPcs \cup RtPcs /\ q.op \notin WriteOps => q.sess \in Sessions
  /\ q.pc = "commit" => q.op \in LoginOps \cup WriteOps
  /\ q.pc \in WritePcs => q.op \in WriteOps
  /\ q.pc # "idle" => q.user \in Users

PcMatchesOp == \A r \in Requests : Fits(req[r])

Creating(r) == req[r].pc \in AtPcs \cup RtPcs /\ req[r].op \notin WriteOps

\* A request that creates a session owns it, alone.
OwnsItsSession ==
  \A r \in Requests : Creating(r) =>
    /\ req[r].sess \in Sessions
    /\ sess[req[r].sess].user = req[r].user
    /\ sess[req[r].sess].via = req[r].op
    /\ req[r].pc \in AtPcs => sess[req[r].sess].stage = "minted"
    /\ req[r].pc \in RtPcs => req[r].sess \in Issued
    /\ \A q \in Requests \ {r} : Creating(q) => req[q].sess # req[r].sess

KeysAreIssued == tok \subseteq Issued /\ ref \subseteq Issued /\ outdated \subseteq Issued

\* Only a row that exists is locked; a login writes its keys under the lock,
\* unless the user is gone.
LockedRowIsLive == \A u \in Users : lock[u] # None => row[u].live
LoginHoldsLock ==
  \A r \in Requests : Creating(r) /\ req[r].op \in LoginOps =>
    lock[req[r].user] = r \/ ~row[req[r].user].live

\* What the two prefix deletions of a writer that holds the lock have achieved.
Ending(r) == req[r].op \in {"password", "delete"} /\ lock[req[r].user] = r
LoginKeys(keys, r) == {s \in keys \cap Of(req[r].user) : sess[s].via # "refresh"}
AccessKeysEnded ==
  \A r \in Requests : Ending(r) =>
    /\ req[r].pc = "w_del_tok" => LoginKeys(tok, r) \subseteq req[r].scan
    /\ req[r].pc \in {"w_scan_ref", "w_del_ref", "w_uncache", "commit"}
         => LoginKeys(tok, r) = {}
RefreshKeysEnded ==
  \A r \in Requests : Ending(r) =>
    /\ req[r].pc = "w_del_ref" => LoginKeys(ref, r) \subseteq req[r].scan
    /\ req[r].pc \in {"w_uncache", "commit"} => LoginKeys(ref, r) = {}

\* A login in flight is younger than every committed password change.
NewSessionNotOutdated ==
  \A r \in Requests : Creating(r) /\ req[r].op \in LoginOps => req[r].sess \notin outdated

PasswordInv ==
  /\ PcMatchesOp /\ OwnsItsSession /\ KeysAreIssued
  /\ LockedRowIsLive /\ LoginHoldsLock
  /\ AccessKeysEnded /\ RefreshKeysEnded
  /\ NewSessionNotOutdated /\ PasswordChangeEndsLogins

-----------------------------------------------------------------------------
(* The inductive invariant behind RefreshedNeverRefreshes,                 *)
(* RedeemedBeforeIssue and ImplementsRegistry.                             *)

Granted == {s \in Sessions : sess[s].stage = "granted"}
Renewable == {s \in Granted : sess[s].via = "login"}
RefreshPcs == {"remote_check", "rt_get", "rt_drop", "at_drop"}

\* A refresh token is granted last, and the cookie set after that.
Pending(r) ==
  /\ Creating(r) /\ req[r].pc \in {"rt_scan", "rt_del", "rt_set"} =>
       sess[req[r].sess].stage = "issued"
  /\ req[r].pc = "respond" /\ req[r].op # "swagger" => req[r].sess \in Granted

\* The cookie a refresh presents comes from a login; its key goes first.
Presents(r) ==
  /\ req[r].pc \in RefreshPcs => req[r].old \in Renewable
  /\ req[r].pc = "at_drop" => req[r].old \notin ref

RenewalInv ==
  /\ ref \subseteq Granted
  /\ jar \subseteq Renewable
  /\ \A r \in Requests : Pending(r) /\ Presents(r)
  /\ \A s \in Sessions : sess[s].from # None => sess[s].from \in Renewable \ ref

-----------------------------------------------------------------------------
(* The inductive invariant behind LoginsExclusive.                         *)

Logins(u) == {s \in tok \cap Of(u) : sess[s].via = "login"}

\* A login of a user who may have one session deletes the others first.
Clearing(r) ==
  /\ Creating(r) /\ req[r].op = "login"
  /\ row[req[r].user].live /\ ~row[req[r].user].multi
Clears(r) == Clearing(r) =>
  /\ req[r].pc = "at_del" => Logins(req[r].user) \subseteq req[r].scan
  /\ req[r].pc \in {"at_uncache", "at_set"} => Logins(req[r].user) = {}

\* Before the right to several sessions ends, all but the caller's are deleted.
Narrowing(r) == req[r].op = "multi" /\ ~req[r].val /\ lock[req[r].user] = r
Narrows(r) == Narrowing(r) =>
  /\ req[r].pc = "w_del_tok" => Logins(req[r].user) \subseteq req[r].scan \cup {req[r].old}
  /\ req[r].pc \in {"w_scan_ref", "w_del_ref", "w_uncache", "commit"}
       => Logins(req[r].user) \subseteq {req[r].old}

ExclusiveInv ==
  /\ \A s \in tok : sess[s].user \in Users
  /\ \A r \in Requests : Clears(r) /\ Narrows(r)
  /\ LoginsExclusive

=============================================================================
