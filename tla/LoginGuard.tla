------------------------------ MODULE LoginGuard ------------------------------
(***************************************************************************)
(* What stands between a password and a session                            *)
(* (user_password_history_service.py, auth_service.py, user_service.py):   *)
(* the failure counter and the temporary lock of an account, the captcha   *)
(* of a login, the captcha an e-mail address is changed with, and the      *)
(* history a new password is held against.  Every Redis call is a step of  *)
(* its own, so requests for one account interleave between them, and one   *)
(* that is cut off (the process dies) leaves its steps half done.          *)
(*                                                                         *)
(* One account is modelled: all keys carry the id of the user.  A password *)
(* that is typed is right or wrong; one that is chosen is a member of      *)
(* Passwords.  What a session then is, is module Sessions.                 *)
(***************************************************************************)
EXTENDS Integers, Sequences, FiniteSets

CONSTANTS
  Attempts,      \* requests: each is one login, change of address or change of password
  Threshold,     \* USER_LOCK_THRESHOLD; 0 disables the lock
  HistoryCheck,  \* USER_PASSWORD_HISTORY_CHECK_COUNT
  Passwords,     \* passwords that pass the rules on length and characters
  LoginCodes,    \* codes of login captchas, each under a key of its own
  MailCodes      \* codes sent by e-mail, all under the key of one IP address

Captchas == LoginCodes \cup MailCodes

ASSUME LoginGuardAssumption ==
  /\ Threshold \in Nat /\ HistoryCheck \in Nat
  /\ Captchas # {} /\ Passwords # {}

VARIABLES
  at,        \* at[r]: the step request r is about to take
  read,      \* read[r]: the counter it has read
  typed,     \* typed[r]: the captcha code it carries
  wish,      \* wish[r]: the password it wants to set
  before,    \* before[r]: the password of the row it loaded
  failures,  \* LOGIN_FAILURE_PREFIX: the counter; 0 when the key is absent
  lock,      \* USER_LOCK_REDIS_PREFIX: absent, in the future or in the past
  live,      \* codes that are in Redis
  password,  \* sys_user.password
  hist,      \* sys_user_password_history, oldest row first
  mirrored,  \* the ORM copies an UPDATE to the object that is already loaded
  wrongs,    \* history: wrong passwords since the keys were last cleared
  inside,    \* history: requests past check_status when the lock was set
  crossed,   \* history: two requests overlapped, or one was cut off
  used,      \* history: used[k], requests past the comparison when k first let one in
  past       \* history: the passwords set by a change, in order

guardVars == <<at, read, typed, wish, before, failures, lock, live, password, hist,
               mirrored, wrongs, inside, crossed, used, past>>

LoginSteps == {"check", "unlock", "forget", "verify", "count", "store", "lock",
               "release", "reset", "captcha", "spend"}
MailSteps == {"mail", "mailspend"}
ChangeSteps == {"load", "rules", "write"}
Ended == {"new", "refused", "in"}
Locks == {"none", "ahead", "over"}

GuardTypeOK ==
  /\ at \in [Attempts -> LoginSteps \cup MailSteps \cup ChangeSteps \cup Ended]
  /\ read \in [Attempts -> Nat] /\ failures \in Nat /\ wrongs \in Nat
  /\ typed \in [Attempts -> Captchas] /\ live \subseteq Captchas
  /\ used \in [Captchas -> SUBSET Attempts]
  /\ wish \in [Attempts -> Passwords] /\ before \in [Attempts -> Passwords]
  /\ password \in Passwords /\ hist \in Seq(Passwords) /\ past \in Seq(Passwords)
  /\ lock \in Locks /\ inside \subseteq Attempts
  /\ mirrored \in BOOLEAN /\ crossed \in BOOLEAN

\* What a request carries before it arrives and after it ended.
NoCode == CHOOSE k \in Captchas : TRUE
NoPassword == CHOOSE p \in Passwords : TRUE

GuardInit ==
  /\ at = [r \in Attempts |-> "new"]
  /\ read = [r \in Attempts |-> 0]
  /\ password \in Passwords /\ hist = <<>> /\ past = <<>>
  /\ wish = [r \in Attempts |-> NoPassword] /\ before = wish
  /\ typed = [r \in Attempts |-> NoCode]
  /\ failures = 0 /\ lock = "none" /\ live = {}
  /\ mirrored \in BOOLEAN
  /\ wrongs = 0 /\ inside = {} /\ crossed = FALSE
  /\ used = [k \in Captchas |-> {}]

keys == <<failures, lock, wrongs, inside>>
codes == <<live, used>>
rows == <<password, hist, past>>
locals == <<read, typed, wish, before>>

Carries(r) ==
  IF at'[r] \notin Ended THEN UNCHANGED locals
  ELSE /\ read' = [read EXCEPT ![r] = 0] /\ typed' = [typed EXCEPT ![r] = NoCode]
       /\ wish' = [wish EXCEPT ![r] = NoPassword] /\ before' = [before EXCEPT ![r] = NoPassword]

InFlight == {r \in Attempts : at[r] \notin Ended}
Step(r, from, to) == at[r] = from /\ at' = [at EXCEPT ![r] = to]

\* A request arrives with what its user typed.
Request(r) ==
  /\ \/ /\ \E k \in Captchas : typed' = [typed EXCEPT ![r] = k]
             /\ Step(r, "new", IF k \in MailCodes THEN "mail" ELSE "check")
        /\ UNCHANGED wish
     \/ /\ \E p \in Passwords : wish' = [wish EXCEPT ![r] = p]
        /\ Step(r, "new", "load") /\ UNCHANGED typed
  /\ crossed' = (crossed \/ InFlight # {})
  /\ UNCHANGED <<read, before, mirrored, keys, codes, rows>>

-----------------------------------------------------------------------------
(* user_verify.                                                             *)

\* Mutant: any lock is cleared.
CheckClears(r) ==
  /\ Step(r, "check", IF lock = "none" THEN "verify" ELSE "unlock")
  /\ Carries(r) /\ UNCHANGED <<keys, codes, rows, mirrored, crossed>>

\* check_status: a lock in the future refuses, one that is over is cleared.
Check(r) ==
  /\ Step(r, "check", CASE lock = "none" -> "verify" [] lock = "ahead" -> "refused"
                        [] OTHER -> "unlock")
  /\ Carries(r) /\ UNCHANGED <<keys, codes, rows, mirrored, crossed>>

DropLock(r, from, to) ==
  /\ Step(r, from, to) /\ lock' = "none"
  /\ Carries(r) /\ UNCHANGED <<failures, wrongs, inside, codes, rows, mirrored, crossed>>

\* Mutant: a success takes one failure back.
DropFailuresOne(r, from, to) ==
  /\ Step(r, from, to) /\ failures' = failures - 1 /\ wrongs' = 0
  /\ Carries(r) /\ UNCHANGED <<lock, inside, codes, rows, mirrored, crossed>>

DropFailures(r, from, to) ==
  /\ Step(r, from, to) /\ failures' = 0 /\ wrongs' = 0
  /\ Carries(r) /\ UNCHANGED <<lock, inside, codes, rows, mirrored, crossed>>

Unlock(r) == DropLock(r, "unlock", "forget")
Forget(r) == DropFailures(r, "forget", "verify")

\* password_verify; the right password may have expired.
Verify(r) ==
  /\ \/ Step(r, "verify", "release") /\ UNCHANGED wrongs
     \/ Step(r, "verify", "refused") /\ UNCHANGED wrongs
     \/ /\ Step(r, "verify", IF Threshold = 0 THEN "refused" ELSE "count")
        /\ wrongs' = IF Threshold = 0 THEN wrongs ELSE wrongs + 1
  /\ Carries(r) /\ UNCHANGED <<failures, lock, inside, codes, rows, mirrored, crossed>>

\* handle_login_failure: the counter is read, and written one higher.
Count(r) ==
  /\ Step(r, "count", "store") /\ read' = [read EXCEPT ![r] = failures]
  /\ UNCHANGED <<typed, wish, before, keys, codes, rows, mirrored, crossed>>

\* Mutant: one failure more.
ReachedLate(n) == n > Threshold

Reached(n) == n >= Threshold

Store(r) ==
  /\ Step(r, "store", IF Reached(read[r] + 1) THEN "lock" ELSE "refused")
  /\ failures' = read[r] + 1 /\ Carries(r)
  /\ UNCHANGED <<lock, wrongs, inside, codes, rows, mirrored, crossed>>

SetLock(r) ==
  /\ Step(r, "lock", "refused") /\ lock' = "ahead"
  /\ inside' = {s \in InFlight : at[s] \in LoginSteps \ {"check"}}
  /\ Carries(r) /\ UNCHANGED <<failures, wrongs, codes, rows, mirrored, crossed>>

\* USER_LOCK_SECONDS go by; the key stays.
LockEnds ==
  /\ lock = "ahead" /\ lock' = "over"
  /\ UNCHANGED <<at, failures, wrongs, inside, locals, codes, rows, mirrored, crossed>>

\* handle_login_success
Release(r) == DropLock(r, "release", "reset")
Reset(r) == DropFailures(r, "reset", "captcha")

-----------------------------------------------------------------------------
(* Captchas.                                                                *)

\* What a code shares its key with.
Key(k) == IF k \in MailCodes THEN MailCodes ELSE {k}

\* get_captcha makes a new key; send_email_captcha overwrites the address's.
Send(k) ==
  /\ k \notin live /\ used[k] = {} /\ live' = (live \ Key(k)) \cup {k}
  /\ UNCHANGED <<at, used, locals, keys, rows, mirrored, crossed>>

CodeExpires(k) ==
  /\ k \in live /\ live' = live \ {k}
  /\ UNCHANGED <<at, used, locals, keys, rows, mirrored, crossed>>

\* login and update_email alike read the code, compare and go on; the login
\* does so after its password has been accepted and the counter cleared.
Compare(r, from, to) ==
  /\ Step(r, from, IF typed[r] \in live THEN to ELSE "refused")
  /\ Carries(r) /\ UNCHANGED <<keys, codes, rows, mirrored, crossed>>

\* Mutant: the key stays.
SpendKeeps(r, from, to) ==
  /\ Step(r, from, to) /\ UNCHANGED live
  /\ used' = IF used[typed[r]] # {} THEN used
             ELSE [used EXCEPT ![typed[r]] = {s \in Attempts : at[s] = from}]
  /\ Carries(r) /\ UNCHANGED <<keys, rows, mirrored, crossed>>

\* The key is deleted, whatever it holds by now.
Spend(r, from, to) ==
  /\ Step(r, from, to) /\ live' = live \ Key(typed[r])
  /\ used' = IF used[typed[r]] # {} THEN used
             ELSE [used EXCEPT ![typed[r]] = {s \in Attempts : at[s] = from}]
  /\ Carries(r) /\ UNCHANGED <<keys, rows, mirrored, crossed>>

LoginCompare(r) == Compare(r, "captcha", "spend")
LoginSpend(r) == Spend(r, "spend", "in")
MailCompare(r) == Compare(r, "mail", "mailspend")
MailSpend(r) == Spend(r, "mailspend", "in")

-----------------------------------------------------------------------------
(* update_password and reset_password.                                      *)

\* The row is loaded; the owner's old password may be wrong.
Load(r) ==
  /\ \/ /\ Step(r, "load", "rules") /\ before' = [before EXCEPT ![r] = password]
        /\ UNCHANGED <<read, typed, wish>>
     \/ Step(r, "load", "refused") /\ Carries(r)
  /\ UNCHANGED <<keys, codes, rows, mirrored, crossed>>

\* Mutant: the oldest rows are compared.
RecentOldest == {hist[i] : i \in {j \in DOMAIN hist : j <= Len(hist) - HistoryCheck}}

\* The newest rows validate_new_password looks at.
Recent == {hist[i] : i \in {j \in DOMAIN hist : j > Len(hist) - HistoryCheck}}

Rules(r) ==
  /\ Step(r, "rules", IF wish[r] \in Recent THEN "refused" ELSE "write")
  /\ Carries(r) /\ UNCHANGED <<keys, codes, rows, mirrored, crossed>>

\* reset_password, save_password_history and the commit.  The history gets the
\* password of the loaded object, which the ORM may have brought up to date.
Saved(r) == IF mirrored THEN wish[r] ELSE before[r]

Write(r) ==
  /\ Step(r, "write", "in")
  /\ password' = wish[r] /\ hist' = Append(hist, Saved(r)) /\ past' = Append(past, wish[r])
  /\ Carries(r) /\ UNCHANGED <<keys, codes, mirrored, crossed>>

-----------------------------------------------------------------------------

\* The process dies between two steps of the request.
CutOff(r) ==
  /\ r \in InFlight /\ at' = [at EXCEPT ![r] = "refused"] /\ crossed' = TRUE
  /\ Carries(r) /\ UNCHANGED <<keys, codes, rows, mirrored>>

GuardNext ==
  \/ \E r \in Attempts :
       \/ Request(r) \/ Check(r) \/ Unlock(r) \/ Forget(r) \/ Verify(r) \/ Count(r)
       \/ Store(r) \/ SetLock(r) \/ Release(r) \/ Reset(r) \/ CutOff(r)
       \/ LoginCompare(r) \/ LoginSpend(r) \/ MailCompare(r) \/ MailSpend(r)
       \/ Load(r) \/ Rules(r) \/ Write(r)
  \/ LockEnds
  \/ \E k \in Captchas : Send(k) \/ CodeExpires(k)

GuardSpec == GuardInit /\ [][GuardNext]_guardVars

-----------------------------------------------------------------------------
(* Properties.                                                              *)

\* Requests that do not overlap count exactly: with none in flight the counter
\* is the number of wrong passwords since it was last cleared, and the account
\* is locked if and only if that number has reached the threshold.
LockExact ==
  ~crossed /\ InFlight = {} =>
    /\ failures = wrongs
    /\ lock # "none" <=> Threshold # 0 /\ wrongs >= Threshold

\* A lock that is in force is lifted before its time only by a request that
\* had passed check_status when the lock was set: by handle_login_success of a
\* login that was already past its password, or by one that had found the
\* lock before it over.  No login that starts under the lock can lift it.
LockLiftedFromInside ==
  [][lock = "ahead" /\ lock' = "none" => \E r \in inside : at'[r] # at[r]]_guardVars

\* A second request gets in with a code only if it had read that code before
\* the first one deleted it: whoever comes later needs another code.
CodeSpent ==
  \A r \in Attempts, k \in Captchas :
    typed[r] = k /\ used[k] # {} /\ at[r] \in {"spend", "mailspend"} /\ at'[r] = "in"
    => r \in used[k]

\* A password that a change set is not set again before HistoryCheck others
\* came between, as long as changes do not overlap, whichever of the two
\* passwords the history gets.
NoQuickReuse ==
  ~crossed => \A i, j \in DOMAIN past :
    i < j /\ j - i <= HistoryCheck /\ past[i] = past[j] => j = i + 1

=============================================================================
