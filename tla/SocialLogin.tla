----------------------------- MODULE SocialLogin -----------------------------
(***************************************************************************)
(* Login through a social account and the bindings it leaves               *)
(* (plugin/oauth2): a state key in Redis ties a callback to the request    *)
(* for it, and a row of sys_user_social ties a social account to a user.   *)
(* The table has no unique constraint; what keeps it in order is the       *)
(* check in front of each insert.                                          *)
(*                                                                         *)
(* Each read is a step, and each transaction ends in one step that applies *)
(* what it wrote: reads see committed rows only.  A user is named by the   *)
(* e-mail address, which is unique in sys_user; one created for a social   *)
(* account without an address is named by the request that creates it.     *)
(* Sessions and tokens are module Sessions.                                *)
(***************************************************************************)
EXTENDS Integers, FiniteSets

CONSTANTS
  Calls,    \* requests: callbacks, unbindings, deletions of a user
  Mails,    \* addresses, and the users that have them
  Sids,     \* social accounts
  States,   \* state parameters (uuid4)
  Source,   \* Source[s]: the platform of social account s
  Mail,     \* Mail[s]: the address the platform reports, or None
  None

Accounts == Mails \cup Calls

ASSUME SocialLoginAssumption ==
  Source \in [Sids -> STRING] /\ Mail \in [Sids -> Mails \cup {None}] /\ None \notin Accounts

VARIABLES
  spot,      \* spot[r]: the step request r is about to take
  sid,       \* sid[r]: the social account of the callback r
  token,     \* token[r]: its state parameter
  who,       \* who[r]: the user r works on
  states,    \* states[k]: what the state key k holds
  users,     \* users in sys_user
  bindings,  \* rows of sys_user_social
  marked,    \* marked[r]: rows the open transaction of r has deleted
  spentBy,   \* history: spentBy[k], callbacks that had read k when it was first deleted
  mixed      \* history: two requests overlapped

socialVars == <<spot, sid, token, who, states, users, bindings, marked, spentBy, mixed>>

Bindings == [sid : Sids, user : Accounts]
Over == {"idle", "ok", "failed"}
Spots == {"state", "drop", "login", "mail", "create", "join", "lock", "bound", "taken", "insert",
          "unbind", "unbound", "clear", "erase"}

SocialTypeOK ==
  /\ spot \in [Calls -> Over \cup Spots]
  /\ sid \in [Calls -> Sids \cup {None}] /\ token \in [Calls -> States \cup {None}]
  /\ who \in [Calls -> Accounts \cup {None}]
  /\ states \in [States -> {"none", "login", "gone"} \cup Accounts]
  /\ users \subseteq Accounts /\ bindings \subseteq [row : Bindings, by : Calls]
  /\ marked \in [Calls -> SUBSET bindings]
  /\ spentBy \in [States -> SUBSET Calls] /\ mixed \in BOOLEAN

SocialInit ==
  /\ spot = [r \in Calls |-> "idle"] /\ who = [r \in Calls |-> None]
  /\ sid = [r \in Calls |-> None] /\ token = [r \in Calls |-> None]
  /\ states = [k \in States |-> "none"]
  /\ users = Mails /\ bindings = {}
  /\ marked = [r \in Calls |-> {}]
  /\ spentBy = [k \in States |-> {}] /\ mixed = FALSE

tables == <<users, bindings, marked>>
Busy == {r \in Calls : spot[r] \notin Over}
At(r, from, to) == spot[r] = from /\ spot' = [spot EXCEPT ![r] = to]
\* What a request carries goes when it ends.
Holds(r, u) ==
  LET over == spot'[r] \in Over
  IN  /\ sid' = [sid EXCEPT ![r] = IF over THEN None ELSE @]
      /\ token' = [token EXCEPT ![r] = IF over THEN None ELSE @]
      /\ who' = [who EXCEPT ![r] = IF over THEN None ELSE u]
OfSid(s) == {b \in bindings : b.row.sid = s}
OfUser(u) == {b \in bindings : b.row.user = u}
OnSource(u, p) == {b \in OfUser(u) : Source[b.row.sid] = p}

-----------------------------------------------------------------------------
(* State keys.                                                              *)

\* get_github_oauth2_url, get_google_oauth2_url: a state for a login; and
\* get_binding_auth_url: one for a binding, with the user who asked.
Issue(k) ==
  /\ states[k] = "none" /\ \E w \in {"login"} \cup users : states' = [states EXCEPT ![k] = w]
  /\ UNCHANGED <<spot, sid, token, who, tables, spentBy, mixed>>

Lapse(k) ==
  /\ states[k] \notin {"none", "gone"} /\ states' = [states EXCEPT ![k] = "gone"]
  /\ UNCHANGED <<spot, sid, token, who, tables, spentBy, mixed>>

\* A request arrives: the callback of a platform, unbinding, delete.
Call(r) ==
  /\ mixed' = (mixed \/ Busy # {})
  /\ \/ \E s \in Sids, k \in States :
          /\ states[k] # "none" /\ At(r, "idle", "state")
          /\ sid' = [sid EXCEPT ![r] = s] /\ token' = [token EXCEPT ![r] = k] /\ UNCHANGED who
     \/ \E u \in users, s \in Sids :
          /\ \/ At(r, "idle", "unbind")
             \/ At(r, "idle", "clear")
          /\ who' = [who EXCEPT ![r] = u] /\ sid' = [sid EXCEPT ![r] = s] /\ UNCHANGED token
  /\ UNCHANGED <<states, tables, spentBy>>

\* login_or_binding: the state is read, then deleted, then acted on.
ReadState(r) ==
  LET info == states[token[r]]
  IN /\ At(r, "state", IF info = "gone" THEN "failed" ELSE "drop")
     /\ Holds(r, IF info \in Accounts THEN info ELSE None)
     /\ UNCHANGED <<states, tables, spentBy, mixed>>

DropState(r) ==
  LET k == token[r]
  IN /\ At(r, "drop", IF who[r] = None THEN "login" ELSE "bound")
     /\ states' = [states EXCEPT ![k] = "gone"]
     /\ spentBy' = IF spentBy[k] # {} THEN spentBy
                   ELSE [spentBy EXCEPT ![k] = {c \in Calls : spot[c] = "drop" /\ token[c] = k}]
     /\ Holds(r, who[r]) /\ UNCHANGED <<tables, mixed>>

-----------------------------------------------------------------------------
(* login.                                                                   *)

\* get_by_sid takes the first row; the user of the row may be gone.
FindSid(r) ==
  /\ \/ \E b \in OfSid(sid[r]) :
          /\ At(r, "login", IF b.row.user \in users THEN "lock" ELSE "failed")
          /\ Holds(r, b.row.user)
     \/ OfSid(sid[r]) = {} /\ At(r, "login", "mail") /\ Holds(r, who[r])
  /\ UNCHANGED <<states, tables, spentBy, mixed>>

\* check_email: a user with the address is taken, whatever he has bound.
FindMail(r) ==
  LET m == Mail[sid[r]]
  IN /\ At(r, "mail", IF m \in users THEN "join" ELSE "create")
     /\ Holds(r, IF m = None THEN r ELSE m)
     /\ UNCHANGED <<states, tables, spentBy, mixed>>

NewRow(r) == [row |-> [sid |-> sid[r], user |-> who[r]], by |-> r]

\* add_by_oauth2, the binding and the commit; an address taken meanwhile
\* violates the unique constraint.
CreateUser(r) ==
  /\ At(r, "create", IF who[r] \in users THEN "failed" ELSE "ok")
  /\ bindings' = IF who[r] \in users THEN bindings ELSE bindings \cup {NewRow(r)}
  /\ users' = users \cup {who[r]}
  /\ Holds(r, who[r]) /\ UNCHANGED <<states, marked, spentBy, mixed>>

\* The user exists: the binding, update_login_time and refresh, which fails if
\* the row of the user is gone by now.
JoinUser(r) ==
  /\ At(r, "join", IF who[r] \in users THEN "ok" ELSE "failed")
  /\ bindings' = IF who[r] \in users THEN bindings \cup {NewRow(r)} ELSE bindings
  /\ Holds(r, who[r]) /\ UNCHANGED <<states, users, marked, spentBy, mixed>>

\* A bound account: update_login_time and refresh alone.
LockUser(r) ==
  /\ At(r, "lock", IF who[r] \in users THEN "ok" ELSE "failed")
  /\ Holds(r, who[r]) /\ UNCHANGED <<states, tables, spentBy, mixed>>

-----------------------------------------------------------------------------
(* binding_with_oauth2, unbinding, and the deletion of a user.  A binding    *)
(* does not look at the row of its user.                                    *)

CheckBound(r) ==
  /\ At(r, "bound", IF OnSource(who[r], Source[sid[r]]) = {} THEN "taken" ELSE "failed")
  /\ Holds(r, who[r]) /\ UNCHANGED <<states, tables, spentBy, mixed>>

\* Mutant: a social account that is bound to another user is not refused.
CheckTakenNot(r) ==
  /\ At(r, "taken", "insert")
  /\ Holds(r, who[r]) /\ UNCHANGED <<states, tables, spentBy, mixed>>

CheckTaken(r) ==
  /\ At(r, "taken", IF OfSid(sid[r]) = {} THEN "insert" ELSE "failed")
  /\ Holds(r, who[r]) /\ UNCHANGED <<states, tables, spentBy, mixed>>

InsertBinding(r) ==
  /\ At(r, "insert", "ok") /\ bindings' = bindings \cup {NewRow(r)}
  /\ Holds(r, who[r]) /\ UNCHANGED <<states, users, marked, spentBy, mixed>>

CheckUnbind(r) ==
  /\ At(r, "unbind", IF OnSource(who[r], Source[sid[r]]) = {} THEN "failed" ELSE "unbound")
  /\ Holds(r, who[r]) /\ UNCHANGED <<states, tables, spentBy, mixed>>

\* delete_model_by_column refuses to delete several rows unless it is asked to.
DeleteBinding(r) ==
  LET rows == OnSource(who[r], Source[sid[r]])
  IN /\ At(r, "unbound", IF Cardinality(rows) > 1 THEN "failed" ELSE "ok")
     /\ bindings' = IF Cardinality(rows) > 1 THEN bindings ELSE bindings \ rows
     /\ marked' = [c \in Calls |-> marked[c] \cap bindings']
     /\ Holds(r, who[r]) /\ UNCHANGED <<states, users, spentBy, mixed>>

\* CRUDUser.delete: the bindings first (the same way), then the user.
ClearBindings(r) ==
  LET rows == OfUser(who[r])
      fails == who[r] \notin users \/ Cardinality(rows) > 1
  IN /\ At(r, "clear", IF fails THEN "failed" ELSE "erase")
     /\ marked' = [marked EXCEPT ![r] = IF fails THEN {} ELSE rows]
     /\ Holds(r, who[r]) /\ UNCHANGED <<states, users, bindings, spentBy, mixed>>

EraseUser(r) ==
  /\ At(r, "erase", "ok")
  /\ users' = users \ {who[r]} /\ bindings' = bindings \ marked[r]
  /\ marked' = [c \in Calls |-> marked[c] \cap bindings']
  /\ Holds(r, who[r]) /\ UNCHANGED <<states, spentBy, mixed>>

\* The platform, the database or the process fails: nothing is committed.
Fail(r) ==
  /\ r \in Busy /\ spot' = [spot EXCEPT ![r] = "failed"]
  /\ marked' = [marked EXCEPT ![r] = {}]
  /\ Holds(r, who[r]) /\ UNCHANGED <<states, users, bindings, spentBy, mixed>>

SocialNext ==
  \/ \E k \in States : Issue(k) \/ Lapse(k)
  \/ \E r \in Calls :
       \/ Call(r) \/ ReadState(r) \/ DropState(r) \/ FindSid(r) \/ FindMail(r)
       \/ CreateUser(r) \/ LockUser(r) \/ JoinUser(r) \/ InsertBinding(r) \/ CheckBound(r) \/ CheckTaken(r)
       \/ CheckUnbind(r) \/ DeleteBinding(r) \/ ClearBindings(r) \/ EraseUser(r) \/ Fail(r)

SocialSpec == SocialInit /\ [][SocialNext]_socialVars

-----------------------------------------------------------------------------
(* Properties.                                                              *)

\* Requests that do not overlap keep the table in order without a constraint,
\* through logins, bindings, unbindings and deletions in any order: a social
\* account is bound to one user.  (That the user still exists is more than the
\* code promises: a binding state outlives the deletion of its user.)
SocialAccountsBound ==
  ~mixed /\ Busy = {} => \A b \in bindings : OfSid(b.row.sid) = {b}

\* A state lets a second callback through only if that one had read it before
\* the first deleted it.
StateSpent ==
  \A r \in Calls : spot[r] = "drop" /\ spot'[r] \in {"login", "bound"}
    /\ spentBy[token[r]] # {} => r \in spentBy[token[r]]

=============================================================================
