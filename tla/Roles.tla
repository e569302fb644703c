-------------------------------- MODULE Roles --------------------------------
(***************************************************************************)
(* Who may do what: the roles, their links to users (a table without a     *)
(* foreign key: deleting a role leaves its links), the flags of a user,    *)
(* and the record of the user that each request is judged by, which Redis  *)
(* keeps for the life of a token (common/security/jwt.py and rbac.py,      *)
(* role_service.py, user_service.py, utils/cache.py).  A change removes    *)
(* the records it makes wrong before it commits.                           *)
(*                                                                         *)
(* Reads see committed rows; a transaction's writes are applied when it    *)
(* commits, and from its first write on it holds the row it changes.       *)
(* Tokens are module Sessions; what a request does beyond these tables is no   *)
(* concern here.                                                           *)
(***************************************************************************)
EXTENDS FiniteSets

CONSTANTS
  People,   \* ids of users
  Roles,    \* ids of roles; neither is used again
  Visits,   \* requests, one each
  NoRecord  \* Redis has no record; nothing

VARIABLES
  role,     \* role[r]: the role and its status
  account,  \* account[u]: the row of user u
  links,    \* sys_user_role
  record,   \* record[u]: the record of user u in Redis; history: blurred, it was read
            \* or put there while a change was under way
  visit,    \* visit[v]: request v: its step, the gate in front of its handler, whose
            \* request it is and the record he is judged by; then the operation, on
            \* whom, with which roles and which flag, and whose records it removes
  crowded,  \* history: two requests overlapped
  erased    \* history: a user was deleted

roleVars == <<role, account, links, record, visit, crowded, erased>>

Account == [here : BOOLEAN, super : BOOLEAN, staff : BOOLEAN, active : BOOLEAN]
Record == [super : BOOLEAN, staff : BOOLEAN, roles : SUBSET Roles, blurred : BOOLEAN]

\* What is behind DependsRBAC and behind DependsSuperUser; behind DependsJwtAuth
\* alone, and behind the others too, there is much that changes nothing here.
RoleChanges == {"newrole", "enable", "disable", "droproles"}
Flags == {"super", "staff", "active"}
UserChanges == Flags \cup {"adduser", "edituser"}
Gates == {"login", "role", "super"}
Behind(gate) ==
  CASE gate = "role"  -> RoleChanges \cup {"deluser"}
    [] gate = "super" -> UserChanges
    [] gate = "login" -> {}
VisitSteps == {"new", "load", "fill", "handle", "write", "links", "drop", "commit", "refused", "done"}

NoVisit == [step |-> "new", gate |-> "login", by |-> NoRecord, me |-> NoRecord, op |-> "none",
            on |-> NoRecord, roles |-> {}, val |-> FALSE, keys |-> {}]

RolesTypeOK ==
  /\ role \in [Roles -> {"none", "on", "off", "gone"}]
  /\ account \in [People -> Account] /\ links \subseteq People \X Roles
  /\ record \in [People -> Record \cup {NoRecord}]
  /\ \A v \in Visits :
       /\ visit[v].step \in VisitSteps /\ visit[v].gate \in Gates
       /\ visit[v].op \in {"none"} \cup UNION {Behind(g) : g \in Gates}
       /\ visit[v].by \in People \cup {NoRecord} /\ visit[v].on \in People \cup {NoRecord}
       /\ visit[v].roles \subseteq Roles /\ visit[v].keys \subseteq People
       /\ visit[v].me \in Record \cup {NoRecord}
       /\ visit[v].val \in BOOLEAN
  /\ crowded \in BOOLEAN /\ erased \in BOOLEAN

\* No row yet; no row any more.
Never == [here |-> FALSE, super |-> FALSE, staff |-> FALSE, active |-> FALSE]
Deleted == [Never EXCEPT !.active = TRUE]

Administers(u) ==
  account[u].here /\ account[u].active /\ account[u].super /\ account[u].staff

\* The seed data has a superuser.
RolesInit ==
  /\ role \in [Roles -> {"none", "on", "off"}] /\ account \in [People -> Account]
  /\ links \in SUBSET {k \in People \X Roles : account[k[1]].here /\ role[k[2]] # "none"}
  /\ \E u \in People : Administers(u)
  /\ record = [u \in People |-> NoRecord]
  /\ visit = [v \in Visits |-> NoVisit]
  /\ crowded = FALSE /\ erased = FALSE

rightsTables == <<role, account, links>>
Closed == {"new", "refused", "done"}
UnderWay == {v \in Visits : visit[v].step \notin Closed}
Changing == {v \in UnderWay : visit[v].op # "none"}
Existing == {r \in Roles : role[r] \in {"on", "off"}}
Linked(u) == {r \in Existing : <<u, r>> \in links}
Enabled(u) == {r \in Linked(u) : role[r] = "on"}
Rights(u) == [super |-> account[u].super, staff |-> account[u].staff, roles |-> Linked(u),
              blurred |-> Changing # {}]

\* Request v is at this step and goes on as w; one that ends keeps nothing.
Turns(v, step, w) ==
  /\ visit[v].step = step
  /\ visit' = [visit EXCEPT ![v] =
       IF w.step \in {"refused", "done"} THEN [NoVisit EXCEPT !.step = w.step] ELSE w]
GoesTo(v, from, to) == Turns(v, from, [visit[v] EXCEPT !.step = to])
NoHistory == UNCHANGED <<crowded, erased>>

-----------------------------------------------------------------------------
(* Authentication and the check of rights.                                  *)

\* rbac_verify: a superuser passes, others need a role and to be staff.  That
\* the roles are enabled is not checked here: it compares the roles themselves
\* with 0.  superuser_verify: a superuser who is staff.
Admits(gate, me) ==
  CASE gate = "role"  -> me.super \/ (me.roles # {} /\ me.staff)
    [] gate = "super" -> me.super /\ me.staff
    [] gate = "login" -> TRUE

\* The request goes on, if it may; the record is not needed any more.
Judged(w) ==
  [w EXCEPT !.step = IF Admits(w.gate, w.me) THEN "handle" ELSE "refused", !.me = NoRecord]

\* A request with the token of u: the record is in Redis or has to be loaded.
Arrive(v, gate, u) ==
  LET w == [NoVisit EXCEPT !.gate = gate, !.by = u, !.me = record[u]]
  IN  /\ account[u].here
      /\ Turns(v, "new", IF record[u] = NoRecord THEN [w EXCEPT !.step = "load"] ELSE Judged(w))
      /\ crowded' = (crowded \/ UnderWay # {})
      /\ UNCHANGED <<rightsTables, record, erased>>

\* get_current_user: the user is there and enabled, and not all roles are off.
Loadable(u) ==
  account[u].here /\ account[u].active /\ (Linked(u) # {} => Enabled(u) # {})

LoadRecord(v) ==
  LET u == visit[v].by
      w == [visit[v] EXCEPT !.me = Rights(u), !.step = "fill"]
  IN  /\ visit[v].step = "load"
      /\ IF Loadable(u) THEN Turns(v, "load", w) ELSE GoesTo(v, "load", "refused")
      /\ NoHistory /\ UNCHANGED <<rightsTables, record>>

\* get_jwt_user puts the record into Redis.
FillRecord(v) ==
  /\ Turns(v, "fill", Judged(visit[v]))
  /\ record' = [record EXCEPT ![visit[v].by] =
                  [visit[v].me EXCEPT !.blurred = @ \/ Changing # {}]]
  /\ NoHistory /\ UNCHANGED rightsTables

\* The record outlives its time.
RecordExpires(u) ==
  /\ record[u] # NoRecord /\ record' = [record EXCEPT ![u] = NoRecord]
  /\ NoHistory /\ UNCHANGED <<rightsTables, visit>>

-----------------------------------------------------------------------------
(* Handlers.                                                                *)

\* A handler that changes nothing here: details and lists of users and roles.
ShowRights(v) ==
  /\ GoesTo(v, "handle", "done")
  /\ NoHistory /\ UNCHANGED <<rightsTables, record>>

\* What a handler asks of the rows it reads.  Nobody changes his own flags.
Accepts(v, op, u, rs) ==
  CASE op \in Flags                -> account[u].here /\ u # visit[v].by
    [] op = "deluser"              -> account[u].here
    [] op = "adduser"              -> rs \subseteq Existing
    [] op = "edituser"             -> account[u].here /\ rs \subseteq Existing
    [] op \in {"enable", "disable"} -> rs \subseteq Existing
    [] OTHER                       -> TRUE

\* The rows are read; a flag will be the opposite of what it is.
CheckRequest(v, op, u, rs) ==
  /\ op \in Behind(visit[v].gate) /\ Accepts(v, op, u, rs)
  /\ Turns(v, "handle", [NoVisit EXCEPT
        !.step = "write", !.op = op, !.on = u, !.roles = rs,
        !.val = op \in Flags /\ ~account[u][op]])
  /\ NoHistory /\ UNCHANGED <<rightsTables, record>>

\* The rows that requests past their first write hold.
Holding == {v \in UnderWay : visit[v].step \in {"links", "drop", "commit"}}
Held(w) ==
  \E h \in Holding : (w.on # NoRecord /\ visit[h].on = w.on)
                     \/ (w.op \in RoleChanges /\ visit[h].op \in RoleChanges
                         /\ visit[h].roles \cap w.roles # {})

\* Mutant: a change of roles leaves the records as they are.
WriteRowForgets(v) ==
  /\ ~Held(visit[v])
  /\ GoesTo(v, "write", IF visit[v].op \in RoleChanges THEN "commit" ELSE "drop")
  /\ NoHistory /\ UNCHANGED <<rightsTables, record>>

\* The first write waits for the row.  A change of roles looks for the users
\* they are linked to; one of a user knows whose record to remove; creations
\* and deletions of users remove none.
WriteRow(v) ==
  LET w == visit[v]
  IN  /\ ~Held(w)
      /\ Turns(v, "write",
           CASE w.op \in RoleChanges \ {"newrole"}  -> [w EXCEPT !.step = "links"]
             [] w.op \in Flags \cup {"edituser"} -> [w EXCEPT !.step = "drop", !.keys = {w.on}]
             [] OTHER                            -> [w EXCEPT !.step = "commit"])
      /\ NoHistory /\ UNCHANGED <<rightsTables, record>>

\* clear_by_role_id, in two calls: the links as they are committed ...
FindLinked(v) ==
  LET w == visit[v]
  IN  /\ Turns(v, "links", [w EXCEPT !.step = "drop",
                                     !.keys = {u \in People : \E r \in w.roles : <<u, r>> \in links}])
      /\ NoHistory /\ UNCHANGED <<rightsTables, record>>

\* ... and the records of those users.
DropRecords(v) ==
  /\ GoesTo(v, "drop", "commit")
  /\ record' = [u \in People |-> IF u \in visit[v].keys THEN NoRecord ELSE record[u]]
  /\ NoHistory /\ UNCHANGED rightsTables

\* Requests that are between reading a record and keeping it have read it next
\* to a change.  A flag of a row that is gone by now changes nothing.
CommitVisit(v) ==
  LET w == visit[v]
      u == w.on
      live == w.roles \cap Existing
  IN  /\ w.step = "commit"
      /\ visit' = [q \in Visits |->
           IF q = v THEN [NoVisit EXCEPT !.step = "done"]
           ELSE IF visit[q].step = "fill" THEN [visit[q] EXCEPT !.me.blurred = TRUE] ELSE visit[q]]
      /\ \E new \in {"on", "off"} : role' =
           CASE w.op = "newrole"   -> [r \in Roles |-> IF r \in w.roles THEN new ELSE role[r]]
             [] w.op = "enable"    -> [r \in Roles |-> IF r \in live THEN "on" ELSE role[r]]
             [] w.op = "disable"   -> [r \in Roles |-> IF r \in live THEN "off" ELSE role[r]]
             [] w.op = "droproles" -> [r \in Roles |-> IF r \in live THEN "gone" ELSE role[r]]
             [] OTHER              -> role
      /\ account' = CASE w.op \in Flags /\ account[u].here -> [account EXCEPT ![u][w.op] = w.val]
                      [] w.op = "adduser"  -> [account EXCEPT ![u] = [here |-> TRUE, super |-> FALSE,
                                                                      staff |-> FALSE, active |-> TRUE]]
                      [] w.op = "deluser"  -> [account EXCEPT ![u] = Deleted]
                      [] OTHER             -> account
      /\ links' = IF w.op \in {"adduser", "edituser", "deluser"}
                  THEN {k \in links : k[1] # u} \cup (IF w.op = "deluser" THEN {} ELSE {u} \X live)
                  ELSE links
      /\ erased' = (erased \/ w.op = "deluser")
      /\ UNCHANGED <<record, crowded>>

\* The database, Redis or the process fails: nothing is committed.
BreakOff(v) ==
  /\ v \in UnderWay /\ GoesTo(v, visit[v].step, "refused")
  /\ NoHistory /\ UNCHANGED <<rightsTables, record>>

\* A role or a user that a request creates has an id of its own.
Fresh(r) == role[r] = "none" /\ \A v \in UnderWay : r \notin visit[v].roles
Unborn(u) == account[u] = Never /\ \A v \in UnderWay : visit[v].on # u

RolesNext ==
  \/ \E v \in Visits :
       \/ \E gate \in Gates, u \in People : Arrive(v, gate, u)
       \/ LoadRecord(v) \/ FillRecord(v) \/ ShowRights(v)
       \/ \E r \in Roles :
            \/ Fresh(r) /\ CheckRequest(v, "newrole", NoRecord, {r})
            \/ \E op \in {"enable", "disable"} : CheckRequest(v, op, NoRecord, {r})
       \/ \E rs \in SUBSET Roles : CheckRequest(v, "droproles", NoRecord, rs)
       \/ \E u \in People :
            \/ \E op \in Flags \cup {"deluser"} : CheckRequest(v, op, u, {})
            \/ \E rs \in SUBSET Roles \ {{}} :
                 \/ CheckRequest(v, "edituser", u, rs)
                 \/ Unborn(u) /\ CheckRequest(v, "adduser", u, rs)
       \/ WriteRow(v) \/ FindLinked(v) \/ DropRecords(v) \/ CommitVisit(v) \/ BreakOff(v)
  \/ \E u \in People : RecordExpires(u)

RolesSpec == RolesInit /\ [][RolesNext]_roleVars

-----------------------------------------------------------------------------
(* Properties.                                                              *)

\* The record a user's requests are judged by says what the tables say, and he
\* is one who may have a record at all, however changes of users and of roles
\* overlap and wherever they are cut off: unless the record was read, or put into
\* Redis, while a change was under way, or the user has been deleted.
RecordsTrue ==
  \A u \in People : account[u].here /\ record[u] # NoRecord /\ ~record[u].blurred =>
    /\ record[u].super = account[u].super /\ record[u].staff = account[u].staff
    /\ record[u].roles = Linked(u) /\ Loadable(u)

\* Requests that do not overlap leave a superuser who can administer, because
\* nobody takes his own flags, unless somebody deletes users (which a role is
\* enough for).
SuperuserRemains == ~crowded /\ ~erased => \E u \in People : Administers(u)

RightsKept == RecordsTrue /\ SuperuserRemains

=============================================================================
