---------------------------- MODULE AccessProofs ----------------------------
(***************************************************************************)
(* Theorems about the ways in: the guard of the login (LoginGuard), the    *)
(* social login (SocialLogin) and the rights of those who are in (Roles),  *)
(* for every number of requests, users and roles, every threshold and      *)
(* every set of codes, passwords and states.                               *)
(***************************************************************************)
EXTENDS LoginGuard, SocialLogin, Roles, TLAPS

-----------------------------------------------------------------------------
(* LoginGuard: the lockout, the captchas and the password history.         *)

LEMMA NothingCarried == NoCode \in Captchas /\ NoPassword \in Passwords
BY LoginGuardAssumption DEF NoCode, NoPassword

LEMMA GuardTypesInit == GuardInit => GuardTypeOK
<1> SUFFICES ASSUME GuardInit PROVE GuardTypeOK OBVIOUS
<1> USE DEF GuardInit
<1>1. /\ at \in [Attempts -> LoginSteps \cup MailSteps \cup ChangeSteps \cup Ended]
      /\ read \in [Attempts -> Nat] /\ failures \in Nat /\ wrongs \in Nat
      /\ lock \in Locks /\ inside \subseteq Attempts
  BY DEF LoginSteps, MailSteps, ChangeSteps, Ended, Locks
<1>2. /\ typed \in [Attempts -> Captchas] /\ live \subseteq Captchas
      /\ used \in [Captchas -> SUBSET Attempts]
  BY NothingCarried
<1>3. /\ wish \in [Attempts -> Passwords] /\ before \in [Attempts -> Passwords]
      /\ password \in Passwords /\ hist \in Seq(Passwords) /\ past \in Seq(Passwords)
  BY NothingCarried
<1>4. mirrored \in BOOLEAN /\ crossed \in BOOLEAN OBVIOUS
<1> QED BY <1>1, <1>2, <1>3, <1>4 DEF GuardTypeOK

LocalTypes ==
  /\ read \in [Attempts -> Nat] /\ typed \in [Attempts -> Captchas]
  /\ wish \in [Attempts -> Passwords] /\ before \in [Attempts -> Passwords]

LEMMA CarriedTypes ==
  ASSUME GuardTypeOK, NEW r \in Attempts, Carries(r)
  PROVE  LocalTypes'
<1>1. LocalTypes BY DEF GuardTypeOK, LocalTypes
<1>2. CASE UNCHANGED locals BY <1>1, <1>2 DEF locals, LocalTypes
<1>3. CASE /\ read' = [read EXCEPT ![r] = 0] /\ typed' = [typed EXCEPT ![r] = NoCode]
           /\ wish' = [wish EXCEPT ![r] = NoPassword]
           /\ before' = [before EXCEPT ![r] = NoPassword]
  BY <1>1, <1>3, NothingCarried DEF LocalTypes
<1> QED BY <1>2, <1>3 DEF Carries

\* Every step of a request keeps the types.
LEMMA GuardTypesKept == GuardTypeOK /\ [GuardNext]_guardVars => GuardTypeOK'
<1> SUFFICES ASSUME GuardTypeOK, [GuardNext]_guardVars PROVE GuardTypeOK' OBVIOUS
<1> USE DEF GuardTypeOK, LocalTypes, LoginSteps, MailSteps, ChangeSteps, Ended, Locks,
            keys, codes, rows, locals
<1>1. ASSUME NEW r \in Attempts, Request(r) PROVE GuardTypeOK'
  BY <1>1, CarriedTypes DEF Request, Step
<1>2. ASSUME NEW r \in Attempts, Check(r) PROVE GuardTypeOK'
  BY <1>2, CarriedTypes DEF Check, Step
<1>3. ASSUME NEW r \in Attempts, Unlock(r) PROVE GuardTypeOK'
  BY <1>3, CarriedTypes DEF Unlock, DropLock, Step
<1>4. ASSUME NEW r \in Attempts, Forget(r) PROVE GuardTypeOK'
  BY <1>4, CarriedTypes DEF Forget, DropFailures, Step
<1>5. ASSUME NEW r \in Attempts, Verify(r) PROVE GuardTypeOK'
  <2>1. at' \in [Attempts -> LoginSteps \cup MailSteps \cup ChangeSteps \cup Ended]
    BY <1>5 DEF Verify, Step
  <2>2. wrongs' \in Nat BY <1>5 DEF Verify
  <2>3. LocalTypes' BY <1>5, CarriedTypes DEF Verify
  <2> QED BY <1>5, <2>1, <2>2, <2>3 DEF Verify
<1>6. ASSUME NEW r \in Attempts, Count(r) PROVE GuardTypeOK'
  BY <1>6, CarriedTypes DEF Count, Step
<1>7. ASSUME NEW r \in Attempts, Store(r) PROVE GuardTypeOK'
  BY <1>7, CarriedTypes DEF Store, Step
<1>8. ASSUME NEW r \in Attempts, SetLock(r) PROVE GuardTypeOK'
  BY <1>8, CarriedTypes DEF SetLock, Step, Carries, InFlight
<1>9. ASSUME NEW r \in Attempts, Release(r) PROVE GuardTypeOK'
  BY <1>9, CarriedTypes DEF Release, DropLock, Step
<1>10. ASSUME NEW r \in Attempts, Reset(r) PROVE GuardTypeOK'
  BY <1>10, CarriedTypes DEF Reset, DropFailures, Step
<1>11. ASSUME NEW r \in Attempts, CutOff(r) PROVE GuardTypeOK'
  BY <1>11, CarriedTypes DEF CutOff, InFlight
<1>12. ASSUME NEW r \in Attempts, LoginCompare(r) PROVE GuardTypeOK'
  BY <1>12, CarriedTypes DEF LoginCompare, Compare, Step
<1>13. ASSUME NEW r \in Attempts, LoginSpend(r) PROVE GuardTypeOK'
  BY <1>13, CarriedTypes DEF LoginSpend, Spend, Step
<1>14. ASSUME NEW r \in Attempts, MailCompare(r) PROVE GuardTypeOK'
  BY <1>14, CarriedTypes DEF MailCompare, Compare, Step
<1>15. ASSUME NEW r \in Attempts, MailSpend(r) PROVE GuardTypeOK'
  BY <1>15, CarriedTypes DEF MailSpend, Spend, Step
<1>16. ASSUME NEW r \in Attempts, Load(r) PROVE GuardTypeOK'
  BY <1>16, CarriedTypes DEF Load, Step
<1>17. ASSUME NEW r \in Attempts, Rules(r) PROVE GuardTypeOK'
  BY <1>17, CarriedTypes DEF Rules, Step
<1>18. ASSUME NEW r \in Attempts, Write(r) PROVE GuardTypeOK'
  BY <1>18, CarriedTypes DEF Write, Saved, Step
<1>19. CASE LockEnds BY <1>19, CarriedTypes DEF LockEnds
<1>20. ASSUME NEW k \in Captchas, Send(k) PROVE GuardTypeOK'
  BY <1>20, CarriedTypes DEF Send
<1>21. ASSUME NEW k \in Captchas, CodeExpires(k) PROVE GuardTypeOK'
  BY <1>21, CarriedTypes DEF CodeExpires
<1>22. CASE UNCHANGED guardVars BY <1>22, CarriedTypes DEF guardVars
<1> QED BY <1>1, <1>2, <1>3, <1>4, <1>5, <1>6, <1>7, <1>8, <1>9, <1>10, <1>11, <1>12,
      <1>13, <1>14, <1>15, <1>16, <1>17, <1>18, <1>19, <1>20, <1>21, <1>22 DEF GuardNext

\* LoginGuard keeps its types.
THEOREM GuardTypesHold == GuardSpec => []GuardTypeOK
BY GuardTypesInit, GuardTypesKept, PTL DEF GuardSpec

-----------------------------------------------------------------------------
(* The lock.                                                               *)

\* Whoever is past check_status while the lock is in force was so when it was set.
InsideLock ==
  lock = "ahead" => {r \in Attempts : at[r] \in LoginSteps \ {"check"}} \subseteq inside

LockInv == GuardTypeOK /\ InsideLock

\* A login passes check_status only while there is no lock in force.
LEMMA InsideLockKept == LockInv /\ [GuardNext]_guardVars => InsideLock'
<1> SUFFICES ASSUME LockInv, [GuardNext]_guardVars PROVE InsideLock' OBVIOUS
<1> USE DEF LockInv, GuardTypeOK, InsideLock, LoginSteps, MailSteps, ChangeSteps, Ended,
            Locks, keys, codes, rows, locals
<1>1. ASSUME NEW r \in Attempts, Request(r) PROVE InsideLock' BY <1>1 DEF Request, Step
<1>2. ASSUME NEW r \in Attempts, Check(r) PROVE InsideLock' BY <1>2 DEF Check, Step
<1>3. ASSUME NEW r \in Attempts, Unlock(r) PROVE InsideLock'
  BY <1>3 DEF Unlock, DropLock, Step
<1>4. ASSUME NEW r \in Attempts, Forget(r) PROVE InsideLock'
  BY <1>4 DEF Forget, DropFailures, Step
<1>5. ASSUME NEW r \in Attempts, Verify(r) PROVE InsideLock' BY <1>5 DEF Verify, Step
<1>6. ASSUME NEW r \in Attempts, Count(r) PROVE InsideLock' BY <1>6 DEF Count, Step
<1>7. ASSUME NEW r \in Attempts, Store(r) PROVE InsideLock' BY <1>7 DEF Store, Step
<1>8. ASSUME NEW r \in Attempts, SetLock(r) PROVE InsideLock'
  BY <1>8 DEF SetLock, Step, Carries, InFlight
<1>9. ASSUME NEW r \in Attempts, Release(r) PROVE InsideLock'
  BY <1>9 DEF Release, DropLock, Step
<1>10. ASSUME NEW r \in Attempts, Reset(r) PROVE InsideLock'
  BY <1>10 DEF Reset, DropFailures, Step
<1>11. ASSUME NEW r \in Attempts, CutOff(r) PROVE InsideLock'
  BY <1>11 DEF CutOff, InFlight
<1>12. ASSUME NEW r \in Attempts, LoginCompare(r) PROVE InsideLock'
  BY <1>12 DEF LoginCompare, Compare, Step
<1>13. ASSUME NEW r \in Attempts, LoginSpend(r) PROVE InsideLock'
  BY <1>13 DEF LoginSpend, Spend, Step
<1>14. ASSUME NEW r \in Attempts, MailCompare(r) PROVE InsideLock'
  BY <1>14 DEF MailCompare, Compare, Step
<1>15. ASSUME NEW r \in Attempts, MailSpend(r) PROVE InsideLock'
  BY <1>15 DEF MailSpend, Spend, Step
<1>16. ASSUME NEW r \in Attempts, Load(r) PROVE InsideLock' BY <1>16 DEF Load, Step
<1>17. ASSUME NEW r \in Attempts, Rules(r) PROVE InsideLock' BY <1>17 DEF Rules, Step
<1>18. ASSUME NEW r \in Attempts, Write(r) PROVE InsideLock'
  BY <1>18 DEF Write, Saved, Step
<1>19. CASE LockEnds BY <1>19 DEF LockEnds
<1>20. ASSUME NEW k \in Captchas, Send(k) PROVE InsideLock' BY <1>20 DEF Send
<1>21. ASSUME NEW k \in Captchas, CodeExpires(k) PROVE InsideLock'
  BY <1>21 DEF CodeExpires
<1>22. CASE UNCHANGED guardVars BY <1>22 DEF guardVars
<1> QED BY <1>1, <1>2, <1>3, <1>4, <1>5, <1>6, <1>7, <1>8, <1>9, <1>10, <1>11, <1>12,
      <1>13, <1>14, <1>15, <1>16, <1>17, <1>18, <1>19, <1>20, <1>21, <1>22 DEF GuardNext

LEMMA LockInvHolds == GuardSpec => []LockInv
<1>1. GuardInit => LockInv BY GuardTypesInit DEF LockInv, InsideLock, GuardInit
<1>2. LockInv /\ [GuardNext]_guardVars => LockInv'
  BY GuardTypesKept, InsideLockKept DEF LockInv
<1> QED BY <1>1, <1>2, PTL DEF GuardSpec

Lifted == lock = "ahead" /\ lock' = "none" => \E r \in inside : at'[r] # at[r]

\* Only handle_login_success and an earlier look at a lock that was over lift a lock.
LEMMA LiftedStep == LockInv /\ [GuardNext]_guardVars => Lifted
<1> SUFFICES ASSUME LockInv, [GuardNext]_guardVars PROVE Lifted OBVIOUS
<1> USE DEF LockInv, GuardTypeOK, InsideLock, Lifted, LoginSteps, MailSteps, ChangeSteps,
            Ended, Locks, keys, codes, rows, locals
<1>1. ASSUME NEW r \in Attempts, Request(r) PROVE Lifted BY <1>1 DEF Request, Step
<1>2. ASSUME NEW r \in Attempts, Check(r) PROVE Lifted BY <1>2 DEF Check, Step
<1>3. ASSUME NEW r \in Attempts, Unlock(r) PROVE Lifted BY <1>3 DEF Unlock, DropLock, Step
<1>4. ASSUME NEW r \in Attempts, Forget(r) PROVE Lifted
  BY <1>4 DEF Forget, DropFailures, Step
<1>5. ASSUME NEW r \in Attempts, Verify(r) PROVE Lifted BY <1>5 DEF Verify, Step
<1>6. ASSUME NEW r \in Attempts, Count(r) PROVE Lifted BY <1>6 DEF Count, Step
<1>7. ASSUME NEW r \in Attempts, Store(r) PROVE Lifted BY <1>7 DEF Store, Step
<1>8. ASSUME NEW r \in Attempts, SetLock(r) PROVE Lifted
  BY <1>8 DEF SetLock, Step, Carries, InFlight
<1>9. ASSUME NEW r \in Attempts, Release(r) PROVE Lifted
  BY <1>9 DEF Release, DropLock, Step
<1>10. ASSUME NEW r \in Attempts, Reset(r) PROVE Lifted
  BY <1>10 DEF Reset, DropFailures, Step
<1>11. ASSUME NEW r \in Attempts, CutOff(r) PROVE Lifted BY <1>11 DEF CutOff, InFlight
<1>12. ASSUME NEW r \in Attempts, LoginCompare(r) PROVE Lifted
  BY <1>12 DEF LoginCompare, Compare, Step
<1>13. ASSUME NEW r \in Attempts, LoginSpend(r) PROVE Lifted
  BY <1>13 DEF LoginSpend, Spend, Step
<1>14. ASSUME NEW r \in Attempts, MailCompare(r) PROVE Lifted
  BY <1>14 DEF MailCompare, Compare, Step
<1>15. ASSUME NEW r \in Attempts, MailSpend(r) PROVE Lifted
  BY <1>15 DEF MailSpend, Spend, Step
<1>16. ASSUME NEW r \in Attempts, Load(r) PROVE Lifted BY <1>16 DEF Load, Step
<1>17. ASSUME NEW r \in Attempts, Rules(r) PROVE Lifted BY <1>17 DEF Rules, Step
<1>18. ASSUME NEW r \in Attempts, Write(r) PROVE Lifted BY <1>18 DEF Write, Saved, Step
<1>19. CASE LockEnds BY <1>19 DEF LockEnds
<1>20. ASSUME NEW k \in Captchas, Send(k) PROVE Lifted BY <1>20 DEF Send
<1>21. ASSUME NEW k \in Captchas, CodeExpires(k) PROVE Lifted BY <1>21 DEF CodeExpires
<1>22. CASE UNCHANGED guardVars BY <1>22 DEF guardVars
<1> QED BY <1>1, <1>2, <1>3, <1>4, <1>5, <1>6, <1>7, <1>8, <1>9, <1>10, <1>11, <1>12,
      <1>13, <1>14, <1>15, <1>16, <1>17, <1>18, <1>19, <1>20, <1>21, <1>22 DEF GuardNext

\* user_password_history_service.py: no login that begins under a lock in force
\* lifts it before its time.
THEOREM LockLiftedFromInsideHolds == GuardSpec => LockLiftedFromInside
<1>1. LockInv /\ [GuardNext]_guardVars => [Lifted]_guardVars BY LiftedStep
<1> QED BY LockInvHolds, <1>1, PTL DEF GuardSpec, LockLiftedFromInside, Lifted

-----------------------------------------------------------------------------
(* The counter.                                                            *)

Calm ==
  failures = wrongs /\ (lock # "none" <=> Threshold # 0 /\ wrongs >= Threshold)

\* What a request that runs alone has made of the counter and the lock so far.
Counted(r) ==
  /\ at[r] \in {"check", "captcha", "spend"} \cup MailSteps \cup ChangeSteps => Calm
  /\ at[r] = "unlock" => Calm /\ lock = "over"
  /\ at[r] = "forget" => failures = wrongs /\ lock = "none" /\ Threshold # 0
  /\ at[r] \in {"verify", "release"} => Calm /\ lock = "none"
  /\ at[r] = "reset" => failures = wrongs /\ lock = "none"
  /\ at[r] \in {"count", "store"} =>
       wrongs = failures + 1 /\ lock = "none" /\ Threshold # 0 /\ failures < Threshold
  /\ at[r] = "store" => read[r] = failures
  /\ at[r] = "lock" => failures = wrongs /\ lock = "none" /\ Threshold # 0 /\ wrongs >= Threshold

Counting ==
  ~crossed =>
    /\ \A r, s \in Attempts : at[r] \notin Ended /\ at[s] \notin Ended => r = s
    /\ (\A r \in Attempts : at[r] \in Ended) => Calm
    /\ \A r \in Attempts : at[r] \notin Ended => Counted(r)

CountInv == GuardTypeOK /\ Counting

\* A request that runs alone counts its failure once.
LEMMA CountingKept == CountInv /\ [GuardNext]_guardVars => Counting'
<1> SUFFICES ASSUME CountInv, [GuardNext]_guardVars PROVE Counting' OBVIOUS
<1> USE DEF CountInv, GuardTypeOK, Counting, Counted, Calm, LoginSteps, MailSteps,
            ChangeSteps, Ended, Locks, keys, codes, rows, locals
<1>1. ASSUME NEW r \in Attempts, Request(r) PROVE Counting'
  BY <1>1, LoginGuardAssumption DEF Request, Step, InFlight
<1>2. ASSUME NEW r \in Attempts, Check(r) PROVE Counting'
  BY <1>2, LoginGuardAssumption DEF Check, Step
<1>3. ASSUME NEW r \in Attempts, Unlock(r) PROVE Counting'
  BY <1>3, LoginGuardAssumption DEF Unlock, DropLock, Step
<1>4. ASSUME NEW r \in Attempts, Forget(r) PROVE Counting'
  BY <1>4, LoginGuardAssumption DEF Forget, DropFailures, Step
<1>5. ASSUME NEW r \in Attempts, Verify(r) PROVE Counting'
  <2>1. CASE Step(r, "verify", "release") /\ UNCHANGED wrongs
    BY <1>5, <2>1, LoginGuardAssumption DEF Verify, Step
  <2>2. CASE Step(r, "verify", "refused") /\ UNCHANGED wrongs
    BY <1>5, <2>2, LoginGuardAssumption DEF Verify, Step
  <2>3. CASE /\ Step(r, "verify", IF Threshold = 0 THEN "refused" ELSE "count")
             /\ wrongs' = IF Threshold = 0 THEN wrongs ELSE wrongs + 1
    BY <1>5, <2>3, LoginGuardAssumption DEF Verify, Step
  <2> QED BY <1>5, <2>1, <2>2, <2>3 DEF Verify
<1>6. ASSUME NEW r \in Attempts, Count(r) PROVE Counting'
  BY <1>6, LoginGuardAssumption DEF Count, Step
<1>7. ASSUME NEW r \in Attempts, Store(r) PROVE Counting'
  BY <1>7, LoginGuardAssumption DEF Store, Step, Reached
<1>8. ASSUME NEW r \in Attempts, SetLock(r) PROVE Counting'
  BY <1>8, LoginGuardAssumption DEF SetLock, Step, Carries, InFlight
<1>9. ASSUME NEW r \in Attempts, Release(r) PROVE Counting'
  BY <1>9, LoginGuardAssumption DEF Release, DropLock, Step
<1>10. ASSUME NEW r \in Attempts, Reset(r) PROVE Counting'
  BY <1>10, LoginGuardAssumption DEF Reset, DropFailures, Step
<1>11. ASSUME NEW r \in Attempts, CutOff(r) PROVE Counting'
  BY <1>11, LoginGuardAssumption DEF CutOff, InFlight
<1>12. ASSUME NEW r \in Attempts, LoginCompare(r) PROVE Counting'
  BY <1>12, LoginGuardAssumption DEF LoginCompare, Compare, Step
<1>13. ASSUME NEW r \in Attempts, LoginSpend(r) PROVE Counting'
  BY <1>13, LoginGuardAssumption DEF LoginSpend, Spend, Step
<1>14. ASSUME NEW r \in Attempts, MailCompare(r) PROVE Counting'
  BY <1>14, LoginGuardAssumption DEF MailCompare, Compare, Step
<1>15. ASSUME NEW r \in Attempts, MailSpend(r) PROVE Counting'
  BY <1>15, LoginGuardAssumption DEF MailSpend, Spend, Step
<1>16. ASSUME NEW r \in Attempts, Load(r) PROVE Counting'
  BY <1>16, LoginGuardAssumption DEF Load, Step
<1>17. ASSUME NEW r \in Attempts, Rules(r) PROVE Counting'
  BY <1>17, LoginGuardAssumption DEF Rules, Step
<1>18. ASSUME NEW r \in Attempts, Write(r) PROVE Counting'
  BY <1>18, LoginGuardAssumption DEF Write, Saved, Step
<1>19. CASE LockEnds BY <1>19, LoginGuardAssumption DEF LockEnds
<1>20. ASSUME NEW k \in Captchas, Send(k) PROVE Counting'
  BY <1>20, LoginGuardAssumption DEF Send
<1>21. ASSUME NEW k \in Captchas, CodeExpires(k) PROVE Counting'
  BY <1>21, LoginGuardAssumption DEF CodeExpires
<1>22. CASE UNCHANGED guardVars BY <1>22, LoginGuardAssumption DEF guardVars
<1> QED BY <1>1, <1>2, <1>3, <1>4, <1>5, <1>6, <1>7, <1>8, <1>9, <1>10, <1>11, <1>12,
      <1>13, <1>14, <1>15, <1>16, <1>17, <1>18, <1>19, <1>20, <1>21, <1>22 DEF GuardNext

LEMMA CountInvHolds == GuardSpec => []CountInv
<1>1. GuardInit => CountInv
  <2> SUFFICES ASSUME GuardInit PROVE CountInv OBVIOUS
  <2>1. Calm BY LoginGuardAssumption DEF GuardInit, Calm
  <2>2. \A r \in Attempts : at[r] \in Ended BY DEF GuardInit, Ended
  <2> QED BY GuardTypesInit, <2>1, <2>2 DEF CountInv, Counting
<1>2. CountInv /\ [GuardNext]_guardVars => CountInv'
  BY GuardTypesKept, CountingKept DEF CountInv
<1> QED BY <1>1, <1>2, PTL DEF GuardSpec

\* handle_login_failure and handle_login_success: while requests do not overlap
\* and none is cut off, the counter and the lock say exactly how many wrong
\* passwords there were, whatever the threshold.
THEOREM LockExactHolds == GuardSpec => []LockExact
<1>1. CountInv => LockExact
  BY DEF CountInv, Counting, Calm, LockExact, InFlight
<1> QED BY CountInvHolds, <1>1, PTL

-----------------------------------------------------------------------------
(* Codes.                                                                  *)

\* A code that let somebody in never comes back, and whoever goes on with it
\* later than the comparison had it by then.
Spending ==
  /\ \A k \in Captchas : used[k] # {} => k \notin live
  /\ \A r \in Attempts :
       /\ at[r] \in LoginSteps => typed[r] \notin MailCodes
       /\ at[r] \in MailSteps => typed[r] \in MailCodes
       /\ at[r] \in {"spend", "mailspend"} /\ used[typed[r]] # {} => r \in used[typed[r]]

SpendInv == GuardTypeOK /\ Spending

\* A code that was used is not sent again, and a request keeps the code it carries.
LEMMA SpendingKept == SpendInv /\ [GuardNext]_guardVars => Spending'
<1> SUFFICES ASSUME SpendInv, [GuardNext]_guardVars PROVE Spending' OBVIOUS
<1> USE DEF SpendInv, GuardTypeOK, Spending, LoginSteps, MailSteps, ChangeSteps, Ended,
            keys, codes, rows, locals
<1>1. ASSUME NEW r \in Attempts, Request(r) PROVE Spending'
  <2>1. CASE /\ \E k \in Captchas : typed' = [typed EXCEPT ![r] = k]
                  /\ Step(r, "new", IF k \in MailCodes THEN "mail" ELSE "check")
    BY <1>1, <2>1 DEF Request, Step
  <2>2. CASE Step(r, "new", "load") /\ UNCHANGED typed
    BY <1>1, <2>2 DEF Request, Step
  <2> QED BY <1>1, <2>1, <2>2 DEF Request
<1>2. ASSUME NEW r \in Attempts, Check(r) PROVE Spending' BY <1>2 DEF Check, Step, Carries
<1>3. ASSUME NEW r \in Attempts, Unlock(r) PROVE Spending'
  BY <1>3 DEF Unlock, DropLock, Step, Carries
<1>4. ASSUME NEW r \in Attempts, Forget(r) PROVE Spending'
  <2>1. at[r] = "forget" /\ at' = [at EXCEPT ![r] = "verify"]
    BY <1>4 DEF Forget, DropFailures, Step
  <2>2. UNCHANGED locals BY <1>4, <2>1 DEF Forget, DropFailures, Carries
  <2>3. UNCHANGED codes BY <1>4 DEF Forget, DropFailures
  <2> QED BY <2>1, <2>2, <2>3
<1>5. ASSUME NEW r \in Attempts, Verify(r) PROVE Spending'
  <2>1. CASE Step(r, "verify", "release") BY <1>5, <2>1 DEF Verify, Step, Carries
  <2>2. CASE Step(r, "verify", "refused") BY <1>5, <2>2 DEF Verify, Step, Carries
  <2>3. CASE Step(r, "verify", IF Threshold = 0 THEN "refused" ELSE "count")
    BY <1>5, <2>3 DEF Verify, Step, Carries
  <2> QED BY <1>5, <2>1, <2>2, <2>3 DEF Verify
<1>6. ASSUME NEW r \in Attempts, Count(r) PROVE Spending' BY <1>6 DEF Count, Step
<1>7. ASSUME NEW r \in Attempts, Store(r) PROVE Spending' BY <1>7 DEF Store, Step, Carries
<1>8. ASSUME NEW r \in Attempts, SetLock(r) PROVE Spending'
  BY <1>8 DEF SetLock, Step, Carries, InFlight, Carries
<1>9. ASSUME NEW r \in Attempts, Release(r) PROVE Spending'
  BY <1>9 DEF Release, DropLock, Step, Carries
<1>10. ASSUME NEW r \in Attempts, Reset(r) PROVE Spending'
  BY <1>10 DEF Reset, DropFailures, Step, Carries
<1>11. ASSUME NEW r \in Attempts, CutOff(r) PROVE Spending'
  BY <1>11 DEF CutOff, InFlight, Carries
<1>12. ASSUME NEW r \in Attempts, LoginCompare(r) PROVE Spending'
  BY <1>12 DEF LoginCompare, Compare, Step, Carries
<1>13. ASSUME NEW r \in Attempts, LoginSpend(r) PROVE Spending'
  BY <1>13 DEF LoginSpend, Spend, Step, Carries, Key, Captchas
<1>14. ASSUME NEW r \in Attempts, MailCompare(r) PROVE Spending'
  BY <1>14 DEF MailCompare, Compare, Step, Carries
<1>15. ASSUME NEW r \in Attempts, MailSpend(r) PROVE Spending'
  BY <1>15 DEF MailSpend, Spend, Step, Carries, Key, Captchas
<1>16. ASSUME NEW r \in Attempts, Load(r) PROVE Spending' BY <1>16 DEF Load, Step, Carries
<1>17. ASSUME NEW r \in Attempts, Rules(r) PROVE Spending'
  BY <1>17 DEF Rules, Step, Carries
<1>18. ASSUME NEW r \in Attempts, Write(r) PROVE Spending'
  BY <1>18 DEF Write, Saved, Step, Carries
<1>19. CASE LockEnds BY <1>19 DEF LockEnds
<1>20. ASSUME NEW k \in Captchas, Send(k) PROVE Spending' BY <1>20 DEF Send, Key, Captchas
<1>21. ASSUME NEW k \in Captchas, CodeExpires(k) PROVE Spending' BY <1>21 DEF CodeExpires
<1>22. CASE UNCHANGED guardVars BY <1>22 DEF guardVars
<1> QED BY <1>1, <1>2, <1>3, <1>4, <1>5, <1>6, <1>7, <1>8, <1>9, <1>10, <1>11, <1>12,
      <1>13, <1>14, <1>15, <1>16, <1>17, <1>18, <1>19, <1>20, <1>21, <1>22 DEF GuardNext

LEMMA SpendInvHolds == GuardSpec => []SpendInv
<1>1. GuardInit => SpendInv
  BY GuardTypesInit DEF GuardInit, SpendInv, Spending, LoginSteps, MailSteps
<1>2. SpendInv /\ [GuardNext]_guardVars => SpendInv'
  BY GuardTypesKept, SpendingKept DEF SpendInv
<1> QED BY <1>1, <1>2, PTL DEF GuardSpec

\* auth_service.login and user_service.update_email: a captcha code lets nobody
\* in who reads it after the first request that used it deleted its key.
THEOREM CodeSpentHolds == GuardSpec => [][CodeSpent]_guardVars
<1>1. SpendInv => CodeSpent
  BY DEF SpendInv, Spending, CodeSpent
<1> QED BY SpendInvHolds, <1>1, PTL

-----------------------------------------------------------------------------
(* LoginGuard: passwords that were used before.                            *)

\* Each row of the history is the password that the change set, when the ORM
\* brought the object up to date, and otherwise the one before it.
HistoryFollows ==
  /\ Len(hist) = Len(past)
  /\ past # <<>> => password = past[Len(past)]
  /\ \A i \in 1 .. Len(past) :
       /\ mirrored => hist[i] = past[i]
       /\ ~mirrored /\ i > 1 => hist[i] = past[i - 1]

\* Whoever is about to write has compared with the rows there are, and has loaded
\* the password there is.
Choosing ==
  ~crossed =>
    /\ \A r, s \in Attempts : at[r] \notin Ended /\ at[s] \notin Ended => r = s
    /\ HistoryFollows
    /\ \A r \in Attempts :
         /\ at[r] \in {"rules", "write"} => before[r] = password
         /\ at[r] = "write" => wish[r] \notin Recent

\* All of it together.
ReuseInv == GuardTypeOK /\ Choosing /\ NoQuickReuse

\* A step that writes no password.
LEMMA ChoosingKept ==
  ASSUME ReuseInv, NEW r \in Attempts, UNCHANGED <<rows, mirrored>>,
         ~crossed' => ~crossed,
         \A s \in Attempts \ {r} : at'[s] = at[s] /\ before'[s] = before[s] /\ wish'[s] = wish[s],
         ~crossed' /\ at'[r] \notin Ended => at[r] \notin Ended \/ InFlight = {},
         ~crossed' /\ at'[r] \in {"rules", "write"} => before'[r] = password,
         ~crossed' /\ at'[r] = "write" => wish'[r] \notin Recent
  PROVE  Choosing' /\ NoQuickReuse'
<1>1. hist' = hist /\ past' = past /\ password' = password /\ mirrored' = mirrored
  BY DEF rows
<1>2. Recent' = Recent /\ HistoryFollows' = HistoryFollows
  BY <1>1 DEF Recent, HistoryFollows
<1>3. NoQuickReuse' BY <1>1 DEF ReuseInv, NoQuickReuse
<1>4. ASSUME ~crossed'
      PROVE \A s, q \in Attempts : at'[s] \notin Ended /\ at'[q] \notin Ended => s = q
  BY <1>4 DEF ReuseInv, Choosing, InFlight
<1>5. ASSUME ~crossed', NEW s \in Attempts
      PROVE  /\ at'[s] \in {"rules", "write"} => before'[s] = password'
             /\ at'[s] = "write" => wish'[s] \notin Recent'
  <2>1. CASE s = r BY <2>1, <1>5, <1>1, <1>2
  <2>2. CASE s # r BY <2>2, <1>5, <1>1, <1>2 DEF ReuseInv, Choosing
  <2> QED BY <2>1, <2>2
<1>6. ~crossed' => HistoryFollows' BY <1>2 DEF ReuseInv, Choosing
<1> QED BY <1>3, <1>4, <1>5, <1>6 DEF Choosing

\* What a step that only goes on leaves of the passwords.
LEMMA OthersKept ==
  ASSUME ReuseInv, NEW r \in Attempts, NEW from, NEW to, Step(r, from, to), Carries(r)
  PROVE  /\ \A s \in Attempts \ {r} : at'[s] = at[s] /\ before'[s] = before[s] /\ wish'[s] = wish[s]
         /\ at[r] = from /\ at'[r] = to
         /\ to \notin Ended => before'[r] = before[r] /\ wish'[r] = wish[r]
<1> USE DEF ReuseInv, GuardTypeOK
<1>1. at[r] = from /\ at'[r] = to /\ \A s \in Attempts \ {r} : at'[s] = at[s] BY DEF Step
<1>2. CASE to \notin Ended BY <1>1, <1>2 DEF Carries, locals
<1>3. CASE to \in Ended BY <1>1, <1>3 DEF Carries
<1> QED BY <1>1, <1>2, <1>3

\* A step from and to which no password is being chosen.
LEMMA MovesOn ==
  ASSUME ReuseInv, NEW r \in Attempts, NEW from, NEW to, Step(r, from, to), Carries(r),
         from \notin Ended, to \notin {"rules", "write"}, UNCHANGED <<rows, mirrored, crossed>>
  PROVE  Choosing' /\ NoQuickReuse'
BY OthersKept, ChoosingKept

\* The passwords that the rows stand for are not wished for again.
LEMMA NewestOf ==
  ASSUME ReuseInv, ~crossed, NEW r \in Attempts, at[r] = "write"
  PROVE  /\ Saved(r) = IF mirrored THEN wish[r] ELSE password
         /\ \A i \in 1 .. Len(past) :
              i > Len(past) - HistoryCheck /\ (mirrored \/ i < Len(past)) => past[i] # wish[r]
<1> USE DEF ReuseInv, GuardTypeOK
<1>1. HistoryFollows /\ wish[r] \notin Recent /\ before[r] = password BY DEF Choosing
<1>2. ASSUME NEW i \in 1 .. Len(past), i > Len(past) - HistoryCheck, mirrored
      PROVE  past[i] # wish[r]
  <2>1. hist[i] = past[i] /\ i \in DOMAIN hist /\ i > Len(hist) - HistoryCheck
    BY <1>1, <1>2 DEF HistoryFollows
  <2> QED BY <2>1, <1>1 DEF Recent
<1>3. ASSUME NEW i \in 1 .. Len(past), i > Len(past) - HistoryCheck, ~mirrored, i < Len(past)
      PROVE  past[i] # wish[r]
  <2>1. i + 1 \in 1 .. Len(past) /\ i + 1 > 1 /\ Len(hist) = Len(past)
    BY <1>1, <1>3 DEF HistoryFollows
  <2>2. hist[i + 1] = past[i] BY <1>1, <1>3, <2>1 DEF HistoryFollows
  <2>3. i + 1 \in DOMAIN hist /\ i + 1 > Len(hist) - HistoryCheck
    BY <1>3, <2>1, LoginGuardAssumption
  <2> QED BY <2>2, <2>3, <1>1 DEF Recent
<1> QED BY <1>1, <1>2, <1>3 DEF Saved

\* A password is written: nobody else is choosing one.
LEMMA WritesPassword ==
  ASSUME ReuseInv, NEW r \in Attempts, Write(r)
  PROVE  Choosing' /\ NoQuickReuse'
<1> USE DEF ReuseInv, GuardTypeOK
<1> SUFFICES ASSUME ~crossed' PROVE Choosing' /\ NoQuickReuse'
  BY DEF Choosing, NoQuickReuse
<1> DEFINE m == Len(past)
<1>1. /\ at[r] = "write" /\ at' = [at EXCEPT ![r] = "in"] /\ ~crossed
      /\ mirrored' = mirrored /\ password' = wish[r] /\ crossed' = crossed
      /\ hist' = Append(hist, Saved(r)) /\ past' = Append(past, wish[r])
  BY DEF Write, Step
<1>2. /\ HistoryFollows
      /\ \A q, s \in Attempts : at[q] \notin Ended /\ at[s] \notin Ended => q = s
  BY <1>1 DEF Choosing
<1>3. \A s \in Attempts : at'[s] \in Ended
  <2>1. at[r] \notin Ended /\ "in" \in Ended BY <1>1 DEF Ended
  <2> QED BY <2>1, <1>1, <1>2
<1>4. m \in Nat /\ Len(hist) = m /\ wish[r] \in Passwords /\ Saved(r) \in Passwords
  BY <1>2 DEF HistoryFollows, Saved
<1>5. /\ Len(past') = m + 1 /\ past'[m + 1] = wish[r] /\ DOMAIN past' = 1 .. m + 1
      /\ Len(hist') = m + 1 /\ hist'[m + 1] = Saved(r)
      /\ \A i \in 1 .. m : past'[i] = past[i] /\ hist'[i] = hist[i]
  BY <1>1, <1>4
<1> HIDE DEF m
<1>6. HistoryFollows'
  <2>1. ASSUME NEW i \in 1 .. m + 1
        PROVE  (mirrored => hist'[i] = past'[i]) /\ (~mirrored /\ i > 1 => hist'[i] = past'[i - 1])
    <3>1. CASE i \in 1 .. m
      <4>1. /\ mirrored => hist[i] = past[i]
            /\ ~mirrored /\ i > 1 => hist[i] = past[i - 1] /\ i - 1 \in 1 .. m
        BY <3>1, <1>2, <1>4 DEF HistoryFollows, m
      <4> QED BY <4>1, <3>1, <1>5
    <3>2. CASE i = m + 1
      <4>1. mirrored => hist'[i] = past'[i] BY <3>2, <1>1, <1>5, NewestOf
      <4>2. ASSUME ~mirrored, i > 1 PROVE hist'[i] = past'[i - 1]
        <5>1. m \in 1 .. m /\ i - 1 = m BY <3>2, <4>2, <1>4
        <5>2. password = past[m] /\ Saved(r) = password
          BY <5>1, <4>2, <1>1, <1>2, NewestOf DEF HistoryFollows, m
        <5> QED BY <5>1, <5>2, <3>2, <1>5
      <4> QED BY <4>1, <4>2
    <3> QED BY <3>1, <3>2, <1>4
  <2> QED BY <2>1, <1>1, <1>4, <1>5 DEF HistoryFollows
<1>7. NoQuickReuse'
  <2> SUFFICES ASSUME NEW i \in 1 .. m + 1, NEW j \in 1 .. m + 1, i < j, j - i <= HistoryCheck,
                      past'[i] = past'[j]
               PROVE  j = i + 1
    BY <1>5 DEF NoQuickReuse
  <2>1. i \in 1 .. m BY <1>4
  <2>2. CASE j \in 1 .. m
    <3>1. past[i] = past[j] BY <2>1, <2>2, <1>5
    <3>2. DOMAIN past = 1 .. m BY DEF m
    <3> QED BY <3>1, <3>2, <2>1, <2>2, <1>1 DEF NoQuickReuse
  <2>3. CASE j = m + 1
    <3>1. past[i] = wish[r] BY <2>1, <2>3, <1>5
    <3>2. i > m - HistoryCheck BY <2>1, <2>3, <1>4, LoginGuardAssumption
    <3>3. ~(i < m) BY <3>1, <3>2, <2>1, <1>1, NewestOf DEF m
    <3> QED BY <3>3, <2>1, <2>3, <1>4
  <2> QED BY <2>2, <2>3, <1>4
<1>8. Choosing'
  <2>1. \A s \in Attempts : at'[s] \notin {"rules", "write"} BY <1>3 DEF Ended
  <2> QED BY <2>1, <1>3, <1>6 DEF Choosing
<1> QED BY <1>7, <1>8

\* One case for each step: only Rules and Load lead to a choice.
LEMMA ReuseKept == ReuseInv /\ [GuardNext]_guardVars => Choosing' /\ NoQuickReuse'
<1> SUFFICES ASSUME ReuseInv, [GuardNext]_guardVars PROVE Choosing' /\ NoQuickReuse' OBVIOUS
<1>1. ASSUME NEW r \in Attempts, Request(r) PROVE Choosing' /\ NoQuickReuse'
  <2>1. /\ UNCHANGED <<rows, mirrored, before>>
        /\ ~crossed' => ~crossed /\ InFlight = {}
        /\ \A s \in Attempts \ {r} : at'[s] = at[s] /\ wish'[s] = wish[s]
        /\ at'[r] \in {"mail", "check", "load"}
    BY <1>1 DEF Request, Step, ReuseInv, GuardTypeOK
  <2> QED BY <2>1, ChoosingKept
<1>2. ASSUME NEW r \in Attempts, Check(r) PROVE Choosing' /\ NoQuickReuse'
  BY <1>2, MovesOn DEF Check, Ended
<1>3. ASSUME NEW r \in Attempts, Unlock(r) PROVE Choosing' /\ NoQuickReuse'
  BY <1>3, MovesOn DEF Unlock, DropLock, Ended
<1>4. ASSUME NEW r \in Attempts, Forget(r) PROVE Choosing' /\ NoQuickReuse'
  BY <1>4, MovesOn DEF Forget, DropFailures, Ended
<1>5. ASSUME NEW r \in Attempts, Verify(r) PROVE Choosing' /\ NoQuickReuse'
  BY <1>5, MovesOn DEF Verify, Ended
<1>6. ASSUME NEW r \in Attempts, Count(r) PROVE Choosing' /\ NoQuickReuse'
  <2>1. /\ \A s \in Attempts \ {r} : at'[s] = at[s] /\ before'[s] = before[s] /\ wish'[s] = wish[s]
        /\ at[r] = "count" /\ at'[r] = "store" /\ UNCHANGED <<rows, mirrored, crossed>>
    BY <1>6 DEF Count, Step, ReuseInv, GuardTypeOK
  <2> QED BY <2>1, ChoosingKept DEF Ended
<1>7. ASSUME NEW r \in Attempts, Store(r) PROVE Choosing' /\ NoQuickReuse'
  BY <1>7, MovesOn DEF Store, Ended
<1>8. ASSUME NEW r \in Attempts, SetLock(r) PROVE Choosing' /\ NoQuickReuse'
  BY <1>8, MovesOn DEF SetLock, Ended
<1>9. ASSUME NEW r \in Attempts, Release(r) PROVE Choosing' /\ NoQuickReuse'
  BY <1>9, MovesOn DEF Release, DropLock, Ended
<1>10. ASSUME NEW r \in Attempts, Reset(r) PROVE Choosing' /\ NoQuickReuse'
  BY <1>10, MovesOn DEF Reset, DropFailures, Ended
<1>11. ASSUME NEW r \in Attempts, CutOff(r) PROVE Choosing' /\ NoQuickReuse'
  BY <1>11 DEF CutOff, Choosing, NoQuickReuse
<1>12. ASSUME NEW r \in Attempts, LoginCompare(r) PROVE Choosing' /\ NoQuickReuse'
  BY <1>12, MovesOn DEF LoginCompare, Compare, Ended
<1>13. ASSUME NEW r \in Attempts, LoginSpend(r) PROVE Choosing' /\ NoQuickReuse'
  BY <1>13, MovesOn DEF LoginSpend, Spend, Ended
<1>14. ASSUME NEW r \in Attempts, MailCompare(r) PROVE Choosing' /\ NoQuickReuse'
  BY <1>14, MovesOn DEF MailCompare, Compare, Ended
<1>15. ASSUME NEW r \in Attempts, MailSpend(r) PROVE Choosing' /\ NoQuickReuse'
  BY <1>15, MovesOn DEF MailSpend, Spend, Ended
<1>16. ASSUME NEW r \in Attempts, Load(r) PROVE Choosing' /\ NoQuickReuse'
  <2>1. CASE /\ Step(r, "load", "rules") /\ before' = [before EXCEPT ![r] = password]
             /\ UNCHANGED <<read, typed, wish>>
    <3>1. /\ \A s \in Attempts \ {r} :
               at'[s] = at[s] /\ before'[s] = before[s] /\ wish'[s] = wish[s]
          /\ at[r] = "load" /\ at'[r] = "rules" /\ before'[r] = password
      BY <2>1 DEF Step, ReuseInv, GuardTypeOK
    <3>2. UNCHANGED <<rows, mirrored, crossed>> BY <1>16 DEF Load
    <3> QED BY <3>1, <3>2, ChoosingKept DEF Ended
  <2>2. CASE Step(r, "load", "refused") /\ Carries(r)
    BY <1>16, <2>2, MovesOn DEF Load, Ended
  <2> QED BY <1>16, <2>1, <2>2 DEF Load
<1>17. ASSUME NEW r \in Attempts, Rules(r) PROVE Choosing' /\ NoQuickReuse'
  <2>1. CASE wish[r] \in Recent BY <1>17, <2>1, MovesOn DEF Rules, Ended
  <2>2. CASE wish[r] \notin Recent
    <3>1. Step(r, "rules", "write") /\ Carries(r) /\ UNCHANGED <<rows, mirrored, crossed>>
      BY <1>17, <2>2 DEF Rules
    <3>2. /\ \A s \in Attempts \ {r} :
               at'[s] = at[s] /\ before'[s] = before[s] /\ wish'[s] = wish[s]
          /\ at[r] = "rules" /\ at'[r] = "write"
          /\ before'[r] = before[r] /\ wish'[r] = wish[r]
      BY <3>1, OthersKept DEF Ended
    <3>3. ~crossed => before[r] = password BY <3>2 DEF ReuseInv, Choosing
    <3> QED BY <3>1, <3>2, <3>3, <2>2, ChoosingKept DEF Ended
  <2> QED BY <2>1, <2>2
<1>18. ASSUME NEW r \in Attempts, Write(r) PROVE Choosing' /\ NoQuickReuse'
  BY <1>18, WritesPassword
<1>19. CASE LockEnds \/ (\E k \in Captchas : Send(k) \/ CodeExpires(k)) \/ UNCHANGED guardVars
  <2>1. UNCHANGED <<at, locals, rows, mirrored, crossed>>
    BY <1>19 DEF LockEnds, Send, CodeExpires, guardVars, locals, rows
  <2> QED
    BY <2>1 DEF ReuseInv, Choosing, NoQuickReuse, HistoryFollows, Recent, locals, rows
<1> QED BY <1>1, <1>2, <1>3, <1>4, <1>5, <1>6, <1>7, <1>8, <1>9, <1>10, <1>11, <1>12,
      <1>13, <1>14, <1>15, <1>16, <1>17, <1>18, <1>19 DEF GuardNext

\* No password has been set at the start, and every step keeps it.
LEMMA ReuseInvHolds == GuardSpec => []ReuseInv
<1>1. GuardInit => ReuseInv
  <2> SUFFICES ASSUME GuardInit PROVE ReuseInv OBVIOUS
  <2>1. \A r \in Attempts : at[r] \in Ended /\ at[r] \notin {"rules", "write"}
    BY DEF GuardInit, Ended
  <2>2. past = <<>> /\ hist = <<>> BY DEF GuardInit
  <2>3. HistoryFollows /\ NoQuickReuse BY <2>2 DEF HistoryFollows, NoQuickReuse
  <2> QED BY GuardTypesInit, <2>1, <2>3 DEF ReuseInv, Choosing
<1>2. ReuseInv /\ [GuardNext]_guardVars => ReuseInv'
  BY GuardTypesKept, ReuseKept DEF ReuseInv
<1> QED BY <1>1, <1>2, PTL DEF GuardSpec

\* validate_new_password (user_password_history_service.py): as long as changes
\* do not overlap, no password comes again before as many others as the check
\* counts, whatever that number is and whichever password the history gets.
THEOREM NoQuickReuseHolds == GuardSpec => []NoQuickReuse
<1>1. ReuseInv => NoQuickReuse BY DEF ReuseInv
<1> QED BY ReuseInvHolds, <1>1, PTL

-----------------------------------------------------------------------------
(* SocialLogin: states and bindings.                                       *)

\* What a request carries at each step.
Keyed == {"state", "drop"}
Tied == {"state", "drop", "login", "mail", "create", "join", "lock", "bound", "taken", "insert",
         "unbind", "unbound"}
Owned == {"create", "join", "lock", "bound", "taken", "insert", "unbind", "unbound", "clear",
          "erase"}

SocialTypes ==
  /\ spot \in [Calls -> Over \cup Spots]
  /\ sid \in [Calls -> Sids \cup {None}] /\ token \in [Calls -> States \cup {None}]
  /\ who \in [Calls -> Accounts \cup {None}]
  /\ states \in [States -> {"none", "login", "gone"} \cup Accounts]
  /\ users \subseteq Accounts /\ bindings \subseteq [row : Bindings, by : Calls]
  /\ marked \in [Calls -> SUBSET [row : Bindings, by : Calls]]
  /\ \A r \in Calls : marked[r] \subseteq bindings
  /\ spentBy \in [States -> SUBSET Calls] /\ mixed \in BOOLEAN

\* Every request holds what its step is about: a key, a social account, a user.
Equipped ==
  \A r \in Calls :
    /\ spot[r] \in Keyed => token[r] \in States
    /\ spot[r] \in Tied => sid[r] \in Sids
    /\ spot[r] \in Owned => who[r] \in Accounts

NoneOverlapped == \A r, q \in Busy : r = q
OneUser == \A b, c \in bindings : b.row.sid = c.row.sid => b = c
Unbound ==
  \A r \in Calls : spot[r] \in {"mail", "create", "join", "insert"} => OfSid(sid[r]) = {}

\* While no two requests overlapped: one at a time, no two bindings of one social
\* account, and no binding of the account that a request is about to bind.
InOrder == ~mixed => NoneOverlapped /\ OneUser /\ Unbound

\* A state that was handed over is gone, and whoever is about to delete it is one
\* of those it was handed to.
Spent ==
  \A k \in States : spentBy[k] # {} =>
    /\ states[k] = "gone"
    /\ \A r \in Calls : spot[r] = "drop" /\ token[r] = k => r \in spentBy[k]

SocialInv == SocialTypes /\ Equipped /\ InOrder /\ Spent

\* The types, one case for each step.
LEMMA SocialTypesKept == SocialInv /\ [SocialNext]_socialVars => SocialTypes'
<1> SUFFICES ASSUME SocialInv, [SocialNext]_socialVars PROVE SocialTypes' OBVIOUS
<1> USE DEF SocialInv, SocialTypes, Equipped, Keyed, Tied, Owned, Over, Spots, Accounts,
   Bindings, tables
<1>1. ASSUME NEW k \in States, Issue(k) PROVE SocialTypes'
  BY <1>1 DEF Issue
<1>2. ASSUME NEW k \in States, Lapse(k) PROVE SocialTypes'
  BY <1>2 DEF Lapse
<1>3. ASSUME NEW r \in Calls, Call(r) PROVE SocialTypes'
  BY <1>3 DEF Call, At
<1>4. ASSUME NEW r \in Calls, ReadState(r) PROVE SocialTypes'
  BY <1>4, SocialLoginAssumption DEF ReadState, At, Holds
<1>5. ASSUME NEW r \in Calls, DropState(r) PROVE SocialTypes'
  BY <1>5 DEF DropState, At, Holds
<1>6. ASSUME NEW r \in Calls, FindSid(r) PROVE SocialTypes'
  BY <1>6 DEF FindSid, At, Holds, OfSid
<1>7. ASSUME NEW r \in Calls, FindMail(r) PROVE SocialTypes'
  BY <1>7, SocialLoginAssumption DEF FindMail, At, Holds
<1>8. ASSUME NEW r \in Calls, CreateUser(r) PROVE SocialTypes'
  BY <1>8 DEF CreateUser, At, Holds, NewRow
<1>9. ASSUME NEW r \in Calls, LockUser(r) PROVE SocialTypes'
  BY <1>9 DEF LockUser, At, Holds
<1>10. ASSUME NEW r \in Calls, JoinUser(r) PROVE SocialTypes'
  BY <1>10 DEF JoinUser, At, Holds, NewRow
<1>11. ASSUME NEW r \in Calls, InsertBinding(r) PROVE SocialTypes'
  BY <1>11 DEF InsertBinding, At, Holds, NewRow
<1>12. ASSUME NEW r \in Calls, CheckBound(r) PROVE SocialTypes'
  BY <1>12 DEF CheckBound, At, Holds
<1>13. ASSUME NEW r \in Calls, CheckTaken(r) PROVE SocialTypes'
  BY <1>13 DEF CheckTaken, At, Holds, OfSid
<1>14. ASSUME NEW r \in Calls, CheckUnbind(r) PROVE SocialTypes'
  BY <1>14 DEF CheckUnbind, At, Holds
<1>15. ASSUME NEW r \in Calls, DeleteBinding(r) PROVE SocialTypes'
  BY <1>15 DEF DeleteBinding, At, Holds, OnSource, OfUser
<1>16. ASSUME NEW r \in Calls, ClearBindings(r) PROVE SocialTypes'
  BY <1>16 DEF ClearBindings, At, Holds, OfUser
<1>17. ASSUME NEW r \in Calls, EraseUser(r) PROVE SocialTypes'
  BY <1>17 DEF EraseUser, At, Holds
<1>18. ASSUME NEW r \in Calls, Fail(r) PROVE SocialTypes'
  BY <1>18 DEF Fail, At, Holds
<1>19. CASE UNCHANGED socialVars BY <1>19 DEF socialVars
<1> QED
  BY <1>1, <1>2, <1>3, <1>4, <1>5, <1>6, <1>7, <1>8, <1>9, <1>10, <1>11, <1>12, <1>13,
      <1>14, <1>15, <1>16, <1>17, <1>18, <1>19 DEF SocialNext

\* What a request holds is there when the next step needs it.
LEMMA CarriesKept == SocialInv /\ [SocialNext]_socialVars => Equipped'
<1> SUFFICES ASSUME SocialInv, [SocialNext]_socialVars PROVE Equipped' OBVIOUS
<1> USE DEF SocialInv, SocialTypes, Equipped, Keyed, Tied, Owned, Over, Spots, Accounts,
   Bindings, tables
<1>1. ASSUME NEW k \in States, Issue(k) PROVE Equipped'
  BY <1>1 DEF Issue
<1>2. ASSUME NEW k \in States, Lapse(k) PROVE Equipped'
  BY <1>2 DEF Lapse
<1>3. ASSUME NEW r \in Calls, Call(r) PROVE Equipped'
  BY <1>3 DEF Call, At
<1>4. ASSUME NEW r \in Calls, ReadState(r) PROVE Equipped'
  BY <1>4, SocialLoginAssumption DEF ReadState, At, Holds
<1>5. ASSUME NEW r \in Calls, DropState(r) PROVE Equipped'
  BY <1>5 DEF DropState, At, Holds
<1>6. ASSUME NEW r \in Calls, FindSid(r) PROVE Equipped'
  BY <1>6 DEF FindSid, At, Holds, OfSid
<1>7. ASSUME NEW r \in Calls, FindMail(r) PROVE Equipped'
  BY <1>7, SocialLoginAssumption DEF FindMail, At, Holds
<1>8. ASSUME NEW r \in Calls, CreateUser(r) PROVE Equipped'
  BY <1>8 DEF CreateUser, At, Holds, NewRow
<1>9. ASSUME NEW r \in Calls, LockUser(r) PROVE Equipped'
  BY <1>9 DEF LockUser, At, Holds
<1>10. ASSUME NEW r \in Calls, JoinUser(r) PROVE Equipped'
  BY <1>10 DEF JoinUser, At, Holds, NewRow
<1>11. ASSUME NEW r \in Calls, InsertBinding(r) PROVE Equipped'
  BY <1>11 DEF InsertBinding, At, Holds, NewRow
<1>12. ASSUME NEW r \in Calls, CheckBound(r) PROVE Equipped'
  BY <1>12 DEF CheckBound, At, Holds
<1>13. ASSUME NEW r \in Calls, CheckTaken(r) PROVE Equipped'
  BY <1>13 DEF CheckTaken, At, Holds, OfSid
<1>14. ASSUME NEW r \in Calls, CheckUnbind(r) PROVE Equipped'
  BY <1>14 DEF CheckUnbind, At, Holds
<1>15. ASSUME NEW r \in Calls, DeleteBinding(r) PROVE Equipped'
  BY <1>15 DEF DeleteBinding, At, Holds, OnSource, OfUser
<1>16. ASSUME NEW r \in Calls, ClearBindings(r) PROVE Equipped'
  BY <1>16 DEF ClearBindings, At, Holds, OfUser
<1>17. ASSUME NEW r \in Calls, EraseUser(r) PROVE Equipped'
  BY <1>17 DEF EraseUser, At, Holds
<1>18. ASSUME NEW r \in Calls, Fail(r) PROVE Equipped'
  BY <1>18 DEF Fail, At, Holds
<1>19. CASE UNCHANGED socialVars BY <1>19 DEF socialVars
<1> QED
  BY <1>1, <1>2, <1>3, <1>4, <1>5, <1>6, <1>7, <1>8, <1>9, <1>10, <1>11, <1>12, <1>13,
      <1>14, <1>15, <1>16, <1>17, <1>18, <1>19 DEF SocialNext

\* Without an overlap, what FindSid and CheckTaken read still holds at the
\* insert.
LEMMA InOrderKept == SocialInv /\ [SocialNext]_socialVars => InOrder'
<1> SUFFICES ASSUME SocialInv, [SocialNext]_socialVars PROVE InOrder' OBVIOUS
<1> USE DEF SocialInv, SocialTypes, InOrder, NoneOverlapped, OneUser, Unbound, Equipped,
   Tied, Owned, Over, Spots, Busy, OfSid, Bindings, tables
<1>1. ASSUME NEW k \in States, Issue(k) PROVE InOrder'
  BY <1>1 DEF Issue
<1>2. ASSUME NEW k \in States, Lapse(k) PROVE InOrder'
  BY <1>2 DEF Lapse
<1>3. ASSUME NEW r \in Calls, Call(r) PROVE InOrder'
  <2>1. mixed' \/ (~mixed /\ \A q \in Calls : spot[q] \in Over)
    BY <1>3 DEF Call, At
  <2>2. (mixed \/ NoneOverlapped)' BY <1>3, <2>1 DEF Call, At
  <2>3. (mixed \/ OneUser)' BY <1>3, <2>1 DEF Call, At
  <2>4. (mixed \/ Unbound)' BY <1>3, <2>1 DEF Call, At
  <2> QED BY <2>2, <2>3, <2>4 DEF InOrder
<1>4. ASSUME NEW r \in Calls, ReadState(r) PROVE InOrder'
  BY <1>4, SocialLoginAssumption DEF ReadState, At, Holds
<1>5. ASSUME NEW r \in Calls, DropState(r) PROVE InOrder'
  BY <1>5 DEF DropState, At, Holds
<1>6. ASSUME NEW r \in Calls, FindSid(r) PROVE InOrder'
  BY <1>6 DEF FindSid, At, Holds, OfSid
<1>7. ASSUME NEW r \in Calls, FindMail(r) PROVE InOrder'
  BY <1>7, SocialLoginAssumption DEF FindMail, At, Holds
<1>8. ASSUME NEW r \in Calls, CreateUser(r) PROVE InOrder'
  BY <1>8 DEF CreateUser, At, Holds, NewRow
<1>9. ASSUME NEW r \in Calls, LockUser(r) PROVE InOrder'
  BY <1>9 DEF LockUser, At, Holds
<1>10. ASSUME NEW r \in Calls, JoinUser(r) PROVE InOrder'
  BY <1>10 DEF JoinUser, At, Holds, NewRow
<1>11. ASSUME NEW r \in Calls, InsertBinding(r) PROVE InOrder'
  BY <1>11 DEF InsertBinding, At, Holds, NewRow
<1>12. ASSUME NEW r \in Calls, CheckBound(r) PROVE InOrder'
  BY <1>12 DEF CheckBound, At, Holds
<1>13. ASSUME NEW r \in Calls, CheckTaken(r) PROVE InOrder'
  BY <1>13 DEF CheckTaken, At, Holds, OfSid
<1>14. ASSUME NEW r \in Calls, CheckUnbind(r) PROVE InOrder'
  BY <1>14 DEF CheckUnbind, At, Holds
<1>15. ASSUME NEW r \in Calls, DeleteBinding(r) PROVE InOrder'
  BY <1>15 DEF DeleteBinding, At, Holds, OnSource, OfUser
<1>16. ASSUME NEW r \in Calls, ClearBindings(r) PROVE InOrder'
  BY <1>16 DEF ClearBindings, At, Holds, OfUser
<1>17. ASSUME NEW r \in Calls, EraseUser(r) PROVE InOrder'
  BY <1>17 DEF EraseUser, At, Holds
<1>18. ASSUME NEW r \in Calls, Fail(r) PROVE InOrder'
  BY <1>18 DEF Fail, At, Holds
<1>19. CASE UNCHANGED socialVars BY <1>19 DEF socialVars
<1> QED
  BY <1>1, <1>2, <1>3, <1>4, <1>5, <1>6, <1>7, <1>8, <1>9, <1>10, <1>11, <1>12, <1>13,
      <1>14, <1>15, <1>16, <1>17, <1>18, <1>19 DEF SocialNext

\* No step brings a spent state back.
LEMMA SpentKept == SocialInv /\ [SocialNext]_socialVars => Spent'
<1> SUFFICES ASSUME SocialInv, [SocialNext]_socialVars PROVE Spent' OBVIOUS
<1> USE DEF SocialInv, SocialTypes, Spent, Equipped, Keyed, Over, Spots, tables
<1>1. ASSUME NEW k \in States, Issue(k) PROVE Spent'
  BY <1>1 DEF Issue
<1>2. ASSUME NEW k \in States, Lapse(k) PROVE Spent'
  BY <1>2 DEF Lapse
<1>3. ASSUME NEW r \in Calls, Call(r) PROVE Spent'
  BY <1>3 DEF Call, At
<1>4. ASSUME NEW r \in Calls, ReadState(r) PROVE Spent'
  BY <1>4, SocialLoginAssumption DEF ReadState, At, Holds
<1>5. ASSUME NEW r \in Calls, DropState(r) PROVE Spent'
  BY <1>5 DEF DropState, At, Holds
<1>6. ASSUME NEW r \in Calls, FindSid(r) PROVE Spent'
  BY <1>6 DEF FindSid, At, Holds, OfSid
<1>7. ASSUME NEW r \in Calls, FindMail(r) PROVE Spent'
  BY <1>7, SocialLoginAssumption DEF FindMail, At, Holds
<1>8. ASSUME NEW r \in Calls, CreateUser(r) PROVE Spent'
  BY <1>8 DEF CreateUser, At, Holds, NewRow
<1>9. ASSUME NEW r \in Calls, LockUser(r) PROVE Spent'
  BY <1>9 DEF LockUser, At, Holds
<1>10. ASSUME NEW r \in Calls, JoinUser(r) PROVE Spent'
  BY <1>10 DEF JoinUser, At, Holds, NewRow
<1>11. ASSUME NEW r \in Calls, InsertBinding(r) PROVE Spent'
  BY <1>11 DEF InsertBinding, At, Holds, NewRow
<1>12. ASSUME NEW r \in Calls, CheckBound(r) PROVE Spent'
  BY <1>12 DEF CheckBound, At, Holds
<1>13. ASSUME NEW r \in Calls, CheckTaken(r) PROVE Spent'
  BY <1>13 DEF CheckTaken, At, Holds, OfSid
<1>14. ASSUME NEW r \in Calls, CheckUnbind(r) PROVE Spent'
  BY <1>14 DEF CheckUnbind, At, Holds
<1>15. ASSUME NEW r \in Calls, DeleteBinding(r) PROVE Spent'
  BY <1>15 DEF DeleteBinding, At, Holds, OnSource, OfUser
<1>16. ASSUME NEW r \in Calls, ClearBindings(r) PROVE Spent'
  BY <1>16 DEF ClearBindings, At, Holds, OfUser
<1>17. ASSUME NEW r \in Calls, EraseUser(r) PROVE Spent'
  BY <1>17 DEF EraseUser, At, Holds
<1>18. ASSUME NEW r \in Calls, Fail(r) PROVE Spent'
  BY <1>18 DEF Fail, At, Holds
<1>19. CASE UNCHANGED socialVars BY <1>19 DEF socialVars
<1> QED
  BY <1>1, <1>2, <1>3, <1>4, <1>5, <1>6, <1>7, <1>8, <1>9, <1>10, <1>11, <1>12, <1>13,
      <1>14, <1>15, <1>16, <1>17, <1>18, <1>19 DEF SocialNext

\* Every step keeps all of it.
LEMMA SocialInvHolds == SocialSpec => []SocialInv
<1>1. SocialInit => SocialTypes
  BY SocialLoginAssumption DEF SocialInit, SocialTypes, Over, Accounts
<1>2. SocialInit => Equipped /\ InOrder /\ Spent
  BY DEF SocialInit, Equipped, Keyed, Tied, Owned, InOrder, NoneOverlapped, OneUser,
     Unbound, Busy, Over, Spent
<1>3. SocialInv /\ [SocialNext]_socialVars => SocialInv'
  BY SocialTypesKept, CarriesKept, InOrderKept, SpentKept DEF SocialInv
<1> QED BY <1>1, <1>2, <1>3, PTL DEF SocialSpec, SocialInv

\* oauth2_service.py: the state of the social login keeps its types, for any
\* number of requests, of states and of accounts; what a deletion has marked are
\* bindings that are there.
THEOREM SocialTypesHold == SocialSpec => []SocialTypeOK
<1>1. SocialInv => SocialTypeOK
  <2> SUFFICES ASSUME SocialInv PROVE SocialTypeOK OBVIOUS
  <2>1. marked \in [Calls -> SUBSET bindings] BY DEF SocialInv, SocialTypes
  <2> QED BY <2>1 DEF SocialInv, SocialTypes, SocialTypeOK
<1> QED BY SocialInvHolds, <1>1, PTL

\* user_social and create_with_login (oauth2_service.py): as long as no two
\* requests overlap, no social account is bound twice, for any number of requests
\* and of accounts.
THEOREM SocialAccountsBoundHolds == SocialSpec => []SocialAccountsBound
<1>1. SocialInv => SocialAccountsBound
  BY DEF SocialInv, SocialTypes, InOrder, OneUser, OfSid, SocialAccountsBound
<1> QED BY SocialInvHolds, <1>1, PTL

\* The state key of a login is deleted before it is used: nobody reads a state
\* that an earlier request has used up, unless both had read it before it was
\* deleted.
THEOREM StateSpentHolds == SocialSpec => [][StateSpent]_socialVars
<1>1. SocialInv /\ [SocialNext]_socialVars => [StateSpent]_socialVars
  BY DEF SocialInv, Equipped, Keyed, Spent, StateSpent
<1> QED BY SocialInvHolds, <1>1, PTL DEF SocialSpec

-----------------------------------------------------------------------------
(* Roles: the rights of a request, and the records they are judged by.     *)

Changes == RoleChanges \cup UserChanges \cup {"deluser"}

\* A request on its way: what it asks for, what it has read, what it is about to
\* change.
Visit == [step : VisitSteps, gate : Gates, by : People \cup {NoRecord},
          me : Record \cup {NoRecord}, op : Changes \cup {"none"}, on : People \cup {NoRecord},
          roles : SUBSET Roles, val : BOOLEAN, keys : SUBSET People]

RightsTypes ==
  /\ role \in [Roles -> {"none", "on", "off", "gone"}]
  /\ account \in [People -> Account] /\ links \subseteq People \X Roles
  /\ record \in [People -> Record \cup {NoRecord}]
  /\ visit \in [Visits -> Visit]
  /\ crowded \in BOOLEAN /\ erased \in BOOLEAN

\* What a request knows at each step.
Asking == {"load", "fill", "handle"}
RowWriting == {"write", "links", "drop", "commit"}
VisitKnows ==
  \A v \in Visits :
    /\ visit[v].step \notin RowWriting => visit[v].op = "none" /\ visit[v].roles = {}
    /\ visit[v].step \in Asking => visit[v].by \in People
    /\ visit[v].step = "fill" => visit[v].me \in Record
    /\ visit[v].step \in RowWriting => visit[v].op # "none"
    /\ visit[v].op \in UserChanges \cup {"deluser"} => visit[v].on \in People
    /\ visit[v].step = "links" => visit[v].op \in RoleChanges \ {"newrole"}
    /\ visit[v].step = "drop" =>
         \/ visit[v].op \in RoleChanges \ {"newrole"}
         \/ visit[v].op \in Flags \cup {"edituser"} /\ visit[v].keys = {visit[v].on}

\* Rows that a request creates are its own, and nothing refers to them before it
\* commits.
RolesTheirOwn ==
  /\ \A k \in links : role[k[2]] # "none"
  /\ \A v \in Visits : visit[v].op = "newrole" => \A r \in visit[v].roles :
       /\ role[r] = "none"
       /\ \A q \in Visits \ {v} : visit[q].op = "newrole" => r \notin visit[q].roles
UsersTheirOwn ==
  /\ \A u \in People : account[u] = Never =>
       record[u] = NoRecord /\ \A v \in Visits : visit[v].step = "fill" => visit[v].by # u
  /\ \A v \in Visits : visit[v].op = "adduser" =>
       /\ account[visit[v].on] = Never
       /\ \A q \in Visits \ {v} : visit[q].op \in UserChanges \cup {"deluser"}
            => visit[q].on # visit[v].on

\* This record says what the tables say of user u.
Tells(me, u) ==
  /\ me.super = account[u].super /\ me.staff = account[u].staff
  /\ me.roles = Linked(u) /\ Loadable(u)
\* A record that says it was not read next to a change.
Relied(u) == account[u].here /\ record[u] # NoRecord /\ ~record[u].blurred

RecordsTell == \A u \in People : Relied(u) => Tells(record[u], u)

\* A record loaded by a request that has yet to save it tells it as well.
LoadsTell ==
  \A v \in Visits, u \in People :
    visit[v].step = "fill" /\ visit[v].by = u /\ account[u].here /\ ~visit[v].me.blurred =>
      Tells(visit[v].me, u)

\* Before a change commits, nobody relies on what it makes wrong.
RoleDropped ==
  \A v \in Visits : visit[v].op \in RoleChanges \ {"newrole"} =>
    \A u \in People : (\E r \in visit[v].roles : <<u, r>> \in links) =>
      /\ visit[v].step = "drop" => u \in visit[v].keys \/ ~Relied(u)
      /\ visit[v].step = "commit" => ~Relied(u)
UserDropped ==
  \A v \in Visits, u \in People :
    visit[v].op \in Flags \cup {"edituser"} /\ visit[v].step = "commit" /\ visit[v].on = u =>
      ~Relied(u)

\* Who does not overlap with anyone is judged by what the tables say.
Sharp ==
  ~crowded =>
    /\ \A v, q \in UnderWay : v = q
    /\ \A u \in People : record[u] # NoRecord => ~record[u].blurred
    /\ \A v \in Visits : visit[v].step = "fill" => ~visit[v].me.blurred
OneRemains ==
  ~crowded /\ ~erased =>
    /\ \E u \in People : Administers(u)
    /\ \A v \in Visits, u \in People :
         /\ visit[v].step \in Asking /\ visit[v].by = u => account[u].here
         /\ visit[v].step = "handle" /\ visit[v].gate = "super" /\ visit[v].by = u =>
              Administers(u)
         /\ visit[v].op \in Flags /\ visit[v].on = u => \E x \in People \ {u} : Administers(x)

RightsInv ==
  /\ RightsTypes /\ VisitKnows /\ RolesTheirOwn /\ UsersTheirOwn /\ RecordsTell /\ LoadsTell
  /\ RoleDropped /\ UserDropped /\ Sharp /\ OneRemains

\* Only request v moves, and stays a request.
VisitMoves(v) == visit' \in [Visits -> Visit] /\ \A q \in Visits \ {v} : visit'[q] = visit[q]
SameRights == UNCHANGED <<role, account, links, erased>>

\* A request that has not begun is a request.
LEMMA NoVisitTyped == NoVisit \in Visit
BY DEF NoVisit, Visit, VisitSteps, Gates, Changes

\* What Turns does to the requests.
LEMMA Turned ==
  ASSUME RightsTypes, NEW v \in Visits, NEW step, NEW w \in Visit, Turns(v, step, w)
  PROVE  /\ visit[v].step = step /\ VisitMoves(v)
         /\ visit'[v] = IF w.step \in {"refused", "done"} THEN [NoVisit EXCEPT !.step = w.step]
                        ELSE w
<1>1. [NoVisit EXCEPT !.step = w.step] \in Visit BY NoVisitTyped DEF Visit
<1> QED BY <1>1 DEF Turns, RightsTypes, VisitMoves

\* What the tables say of a user depends on nothing else.
LEMMA Tables ==
  ASSUME UNCHANGED <<role, account, links>>, NEW u \in People
  PROVE  /\ Linked(u)' = Linked(u) /\ (Loadable(u)' <=> Loadable(u))
         /\ (Administers(u)' <=> Administers(u))
BY DEF Linked, Loadable, Enabled, Existing, Administers

\* A request with a cached record is judged by it; one without loads it.
LEMMA VisitArrived ==
  ASSUME RightsInv, NEW v \in Visits, NEW gate \in Gates, NEW p \in People, Arrive(v, gate, p)
  PROVE  RightsInv'
<1>1. /\ visit[v].step = "new" /\ VisitMoves(v) /\ SameRights /\ UNCHANGED record
      /\ account[p].here /\ crowded' = (crowded \/ UnderWay # {})
      /\ visit'[v].op = "none" /\ visit'[v].roles = {}
      /\ visit'[v].step \in {"load", "handle", "refused"}
      /\ visit'[v].step # "refused" => visit'[v].by = p
      /\ visit'[v].step = "handle" =>
           /\ record[p] # NoRecord
           /\ visit'[v].gate = "super" => record[p].super /\ record[p].staff
  <2> DEFINE w == [NoVisit EXCEPT !.gate = gate, !.by = p, !.me = record[p]]
             x == IF record[p] = NoRecord THEN [w EXCEPT !.step = "load"] ELSE Judged(w)
  <2>1. w \in Visit /\ w.gate = gate /\ w.by = p /\ w.me = record[p] /\ w.op = "none" /\ w.roles = {}
    BY NoVisitTyped DEF RightsInv, RightsTypes, Visit, NoVisit
  <2> HIDE DEF w
  <2>2. /\ x \in Visit /\ x.gate = gate /\ x.by = p /\ x.op = "none" /\ x.roles = {}
        /\ x.step \in {"load", "handle", "refused"}
        /\ x.step = "handle" =>
             record[p] # NoRecord /\ (gate = "super" => record[p].super /\ record[p].staff)
    BY <2>1 DEF Judged, Admits, Gates, Visit, VisitSteps
  <2>3. account[p].here /\ Turns(v, "new", x) /\ crowded' = (crowded \/ UnderWay # {})
        /\ UNCHANGED <<rightsTables, record, erased>>
    BY DEF Arrive, w
  <2> HIDE DEF x
  <2>4. visit[v].step = "new" /\ VisitMoves(v)
        /\ visit'[v] = IF x.step \in {"refused", "done"} THEN [NoVisit EXCEPT !.step = x.step]
                       ELSE x
    BY <2>2, <2>3, Turned DEF RightsInv
  <2> QED BY <2>2, <2>3, <2>4 DEF rightsTables, SameRights, NoVisit
<1>2. RightsTypes'
  BY <1>1 DEF RightsInv, RightsTypes, VisitMoves, SameRights, Visit, Changes
<1>3. VisitKnows'
  BY <1>1 DEF RightsInv, RightsTypes, VisitMoves, SameRights, VisitKnows, RowWriting,
     Asking, Visit, VisitSteps, RoleChanges, UserChanges, Flags
<1>4. RolesTheirOwn'
  BY <1>1 DEF RightsInv, RightsTypes, VisitMoves, SameRights, VisitKnows, RowWriting,
     Asking, RolesTheirOwn
<1>5. UsersTheirOwn'
  BY <1>1 DEF RightsInv, RightsTypes, VisitMoves, SameRights, VisitKnows, RowWriting,
     Asking, UsersTheirOwn, UserChanges, Flags
<1>6. RecordsTell'
  <2> SUFFICES ASSUME NEW u \in People, Relied(u)' PROVE Tells(record[u], u)'
    BY DEF RecordsTell
  <2>1. Linked(u)' = Linked(u) /\ (Loadable(u)' <=> Loadable(u))
    BY <1>1, Tables DEF SameRights
  <2> QED
    BY <1>1, <2>1 DEF RightsInv, RightsTypes, VisitMoves, SameRights, VisitKnows,
       RowWriting, Asking, RecordsTell, LoadsTell, Relied, Tells
<1>7. LoadsTell'
  <2> SUFFICES ASSUME NEW q \in Visits, NEW u \in People, visit'[q].step = "fill",
                      visit'[q].by = u, account'[u].here, ~visit'[q].me.blurred
               PROVE  Tells(visit[q].me, u)'
    BY DEF LoadsTell
  <2>1. Linked(u)' = Linked(u) /\ (Loadable(u)' <=> Loadable(u))
    BY <1>1, Tables DEF SameRights
  <2> QED
    BY <1>1, <2>1 DEF RightsInv, RightsTypes, VisitMoves, SameRights, VisitKnows,
       RowWriting, Asking, LoadsTell, Tells
<1>8. RoleDropped'
  BY <1>1 DEF RightsInv, RightsTypes, VisitMoves, SameRights, VisitKnows, RowWriting,
     Asking, RoleDropped, Relied, RoleChanges, Changing, UnderWay, Closed
<1>9. UserDropped'
  BY <1>1 DEF RightsInv, RightsTypes, VisitMoves, SameRights, VisitKnows, RowWriting,
     Asking, UserDropped, Relied, Flags, UserChanges, Changing, UnderWay, Closed
<1>10. Sharp'
  <2>1. crowded' \/ (~crowded /\ \A q \in Visits : visit[q].step \in Closed)
    BY <1>1 DEF UnderWay
  <2>2. visit'[v].step # "fill" BY <1>1
  <2> QED
    BY <1>1, <2>1, <2>2 DEF RightsInv, RightsTypes, VisitMoves, SameRights, VisitKnows,
       RowWriting, Asking, Sharp, UnderWay, Closed
<1>11. OneRemains'
  <2>1. \A u \in People : Loadable(u) => account[u].active BY DEF Loadable
  <2> QED
    BY <1>1, <2>1 DEF RightsInv, RightsTypes, VisitMoves, SameRights, VisitKnows,
       RowWriting, Asking, OneRemains, Sharp, UnderWay, Closed, RecordsTell, LoadsTell,
             Relied, Tells, Flags, Administers
<1> QED BY <1>2, <1>3, <1>4, <1>5, <1>6, <1>7, <1>8, <1>9, <1>10, <1>11 DEF RightsInv

\* What LoadRecord reads is what the tables say, and it is marked when a change
\* is under way.
LEMMA Loaded ==
  ASSUME RightsInv, NEW v \in Visits, LoadRecord(v)
  PROVE  RightsInv'
<1>1. /\ visit[v].step = "load" /\ VisitMoves(v) /\ SameRights
      /\ UNCHANGED <<record, crowded>>
      /\ visit'[v].op = "none" /\ visit'[v].roles = {}
      /\ \/ visit'[v].step = "refused"
         \/ /\ visit'[v].step = "fill" /\ visit'[v].by = visit[v].by
            /\ Loadable(visit[v].by) /\ visit'[v].me \in Record
            /\ visit'[v].me.super = account[visit[v].by].super
            /\ visit'[v].me.staff = account[visit[v].by].staff
            /\ visit'[v].me.roles = Linked(visit[v].by)
            /\ visit'[v].me.blurred = (Changing # {})
  <2> DEFINE u == visit[v].by
             w == [visit[v] EXCEPT !.me = Rights(u), !.step = "fill"]
             x == [visit[v] EXCEPT !.step = "refused"]
  <2>1. visit[v].step = "load" /\ u \in People /\ visit[v].op = "none" /\ visit[v].roles = {}
    BY DEF LoadRecord, RightsInv, VisitKnows, Asking, RowWriting
  <2>2. Rights(u) \in Record
    BY <2>1 DEF RightsInv, RightsTypes, Rights, Record, Account, Linked, Existing
  <2>3. /\ w \in Visit /\ w.step = "fill" /\ w.by = u /\ w.me = Rights(u) /\ w.op = "none"
        /\ w.roles = {}
        /\ x \in Visit /\ x.step = "refused"
    BY <2>1, <2>2 DEF RightsInv, RightsTypes, Visit, VisitSteps
  <2>4. /\ IF Loadable(u) THEN Turns(v, "load", w) ELSE Turns(v, "load", x)
        /\ NoHistory /\ UNCHANGED <<rightsTables, record>>
    BY DEF LoadRecord, GoesTo
  <2> HIDE DEF w, x, u
  <2>5. CASE Loadable(u)
    <3>1. VisitMoves(v) /\ visit'[v] = w BY <2>3, <2>4, <2>5, Turned DEF RightsInv
    <3> QED
      BY <2>1, <2>2, <2>3, <2>4, <2>5, <3>1 DEF rightsTables, SameRights, NoHistory, u,
         Rights
  <2>6. CASE ~Loadable(u)
    <3>1. VisitMoves(v) /\ visit'[v] = [NoVisit EXCEPT !.step = "refused"]
      BY <2>3, <2>4, <2>6, Turned DEF RightsInv
    <3> QED BY <2>1, <2>4, <3>1 DEF rightsTables, SameRights, NoHistory, NoVisit
  <2> QED BY <2>5, <2>6
<1>2. RightsTypes'
  BY <1>1 DEF RightsInv, RightsTypes, VisitMoves, SameRights, Visit, Changes
<1>3. VisitKnows'
  BY <1>1 DEF RightsInv, RightsTypes, VisitMoves, SameRights, VisitKnows, RowWriting,
     Asking, Visit, VisitSteps, RoleChanges, UserChanges, Flags
<1>4. RolesTheirOwn'
  BY <1>1 DEF RightsInv, RightsTypes, VisitMoves, SameRights, VisitKnows, RowWriting,
     Asking, RolesTheirOwn
<1>5. UsersTheirOwn'
  <2>1. account[visit[v].by] # Never \/ visit'[v].step # "fill"
    BY <1>1 DEF Loadable, Never
  <2> QED
    BY <1>1, <2>1 DEF RightsInv, RightsTypes, VisitMoves, SameRights, VisitKnows,
       RowWriting, Asking, UsersTheirOwn, UserChanges, Flags
<1>6. RecordsTell'
  <2> SUFFICES ASSUME NEW u \in People, Relied(u)' PROVE Tells(record[u], u)'
    BY DEF RecordsTell
  <2>1. Linked(u)' = Linked(u) /\ (Loadable(u)' <=> Loadable(u))
    BY <1>1, Tables DEF SameRights
  <2> QED
    BY <1>1, <2>1 DEF RightsInv, RightsTypes, VisitMoves, SameRights, VisitKnows,
       RowWriting, Asking, RecordsTell, LoadsTell, Relied, Tells
<1>7. LoadsTell'
  <2> SUFFICES ASSUME NEW q \in Visits, NEW u \in People, visit'[q].step = "fill",
                      visit'[q].by = u, account'[u].here, ~visit'[q].me.blurred
               PROVE  Tells(visit[q].me, u)'
    BY DEF LoadsTell
  <2>1. Linked(u)' = Linked(u) /\ (Loadable(u)' <=> Loadable(u))
    BY <1>1, Tables DEF SameRights
  <2>2. CASE q = v
    <3>1. visit[v].by = u /\ Loadable(u) /\ visit'[v].me.roles = Linked(u) BY <1>1, <2>2
    <3> QED BY <1>1, <2>1, <2>2, <3>1 DEF SameRights, Tells
  <2>3. CASE q # v
    BY <1>1, <2>1, <2>3 DEF RightsInv, RightsTypes, VisitMoves, SameRights, VisitKnows,
       RowWriting, Asking, LoadsTell, Tells
  <2> QED BY <2>2, <2>3
<1>8. RoleDropped'
  BY <1>1 DEF RightsInv, RightsTypes, VisitMoves, SameRights, VisitKnows, RowWriting,
     Asking, RoleDropped, Relied, RoleChanges, Changing, UnderWay, Closed
<1>9. UserDropped'
  BY <1>1 DEF RightsInv, RightsTypes, VisitMoves, SameRights, VisitKnows, RowWriting,
     Asking, UserDropped, Relied, Flags, UserChanges, Changing, UnderWay, Closed
<1>10. Sharp'
  <2>1. crowded \/ Changing = {}
    BY <1>1 DEF RightsInv, RightsTypes, VisitMoves, SameRights, VisitKnows, RowWriting,
       Asking, Sharp, UnderWay, Closed, Changing
  <2>2. crowded \/ ~(visit'[v].step = "fill" /\ visit'[v].me.blurred) BY <1>1, <2>1
  <2> QED
    BY <1>1, <2>2 DEF RightsInv, RightsTypes, VisitMoves, SameRights, VisitKnows,
       RowWriting, Asking, Sharp, UnderWay, Closed
<1>11. OneRemains'
  <2>1. \A u \in People : Loadable(u) => account[u].active BY DEF Loadable
  <2> QED
    BY <1>1, <2>1 DEF RightsInv, RightsTypes, VisitMoves, SameRights, VisitKnows,
       RowWriting, Asking, OneRemains, Sharp, UnderWay, Closed, RecordsTell, LoadsTell,
             Relied, Tells, Flags, Administers
<1> QED BY <1>2, <1>3, <1>4, <1>5, <1>6, <1>7, <1>8, <1>9, <1>10, <1>11 DEF RightsInv

\* The record that FillRecord saves tells what was loaded, or is marked.
LEMMA Filled ==
  ASSUME RightsInv, NEW v \in Visits, FillRecord(v)
  PROVE  RightsInv'
<1>1. /\ visit[v].step = "fill" /\ VisitMoves(v) /\ SameRights /\ UNCHANGED crowded
      /\ visit'[v].op = "none" /\ visit'[v].roles = {}
      /\ visit'[v].step \in {"handle", "refused"}
      /\ visit'[v].step = "handle" =>
           /\ visit'[v].by = visit[v].by
           /\ visit'[v].gate = "super" => visit[v].me.super /\ visit[v].me.staff
      /\ record' \in [People -> Record \cup {NoRecord}]
      /\ \A u \in People \ {visit[v].by} : record'[u] = record[u]
      /\ record'[visit[v].by].super = visit[v].me.super
      /\ record'[visit[v].by].staff = visit[v].me.staff
      /\ record'[visit[v].by].roles = visit[v].me.roles
      /\ record'[visit[v].by].blurred = (visit[v].me.blurred \/ Changing # {})
  <2> DEFINE w == visit[v]
             x == Judged(w)
             z == [w.me EXCEPT !.blurred = @ \/ Changing # {}]
  <2>1. /\ w.step = "fill" /\ w.by \in People
        /\ w.op = "none" /\ w.roles = {} /\ w.me \in Record
        /\ w \in Visit
    BY DEF FillRecord, Turns, RightsInv, VisitKnows, Asking, RowWriting, RightsTypes
  <2>2. /\ x \in Visit /\ x.gate = w.gate /\ x.by = w.by /\ x.op = "none" /\ x.roles = {}
        /\ x.step \in {"handle", "refused"}
        /\ x.step = "handle" /\ w.gate = "super" => w.me.super /\ w.me.staff
    BY <2>1 DEF Judged, Admits, Gates, Visit, VisitSteps
  <2>3. /\ z \in Record /\ z.super = w.me.super /\ z.staff = w.me.staff
        /\ z.roles = w.me.roles
        /\ z.blurred = (w.me.blurred \/ Changing # {})
    BY <2>1 DEF Record
  <2>4. /\ Turns(v, "fill", x) /\ record' = [record EXCEPT ![w.by] = z]
        /\ NoHistory /\ UNCHANGED rightsTables
    BY DEF FillRecord
  <2> HIDE DEF x, z
  <2>5. VisitMoves(v)
        /\ visit'[v] = IF x.step \in {"refused", "done"} THEN [NoVisit EXCEPT !.step = x.step]
                       ELSE x
    BY <2>2, <2>4, Turned DEF RightsInv
  <2>6. /\ record' \in [People -> Record \cup {NoRecord}] /\ record'[w.by] = z
        /\ \A u \in People \ {w.by} : record'[u] = record[u]
    BY <2>1, <2>3, <2>4 DEF RightsInv, RightsTypes
  <2> QED
    BY <2>1, <2>2, <2>3, <2>4, <2>5, <2>6 DEF rightsTables, SameRights, NoHistory, NoVisit
<1>2. RightsTypes'
  BY <1>1 DEF RightsInv, RightsTypes, VisitMoves, SameRights, Visit, Changes
<1>3. VisitKnows'
  BY <1>1 DEF RightsInv, RightsTypes, VisitMoves, SameRights, VisitKnows, RowWriting,
     Asking, Visit, VisitSteps, RoleChanges, UserChanges, Flags
<1>4. RolesTheirOwn'
  BY <1>1 DEF RightsInv, RightsTypes, VisitMoves, SameRights, VisitKnows, RowWriting,
     Asking, RolesTheirOwn
<1>5. UsersTheirOwn'
  BY <1>1 DEF RightsInv, RightsTypes, VisitMoves, SameRights, VisitKnows, RowWriting,
     Asking, UsersTheirOwn, UserChanges, Flags
<1>6. RecordsTell'
  <2> SUFFICES ASSUME NEW u \in People, Relied(u)' PROVE Tells(record[u], u)'
    BY DEF RecordsTell
  <2>1. Linked(u)' = Linked(u) /\ (Loadable(u)' <=> Loadable(u))
    BY <1>1, Tables DEF SameRights
  <2>2. CASE u = visit[v].by
    <3>1. Tells(visit[v].me, u)
      BY <1>1, <2>2 DEF RightsInv, RightsTypes, VisitMoves, SameRights, VisitKnows,
         RowWriting, Asking, LoadsTell, Relied
    <3> QED BY <1>1, <2>1, <2>2, <3>1 DEF SameRights, Tells
  <2>3. CASE u # visit[v].by
    BY <1>1, <2>1, <2>3 DEF RightsInv, RightsTypes, VisitMoves, SameRights, VisitKnows,
       RowWriting, Asking, RecordsTell, Relied, Tells
  <2> QED BY <2>2, <2>3
<1>7. LoadsTell'
  <2> SUFFICES ASSUME NEW q \in Visits, NEW u \in People, visit'[q].step = "fill",
                      visit'[q].by = u, account'[u].here, ~visit'[q].me.blurred
               PROVE  Tells(visit[q].me, u)'
    BY DEF LoadsTell
  <2>1. Linked(u)' = Linked(u) /\ (Loadable(u)' <=> Loadable(u))
    BY <1>1, Tables DEF SameRights
  <2> QED
    BY <1>1, <2>1 DEF RightsInv, RightsTypes, VisitMoves, SameRights, VisitKnows,
       RowWriting, Asking, LoadsTell, Tells
<1>8. RoleDropped'
  <2>1. ASSUME Changing # {}, NEW u \in People, Relied(u)' PROVE Relied(u)
    BY <1>1, <2>1 DEF SameRights, Relied
  <2>2. \A q \in Visits : visit[q].step \in {"drop", "commit"} => Changing # {}
    BY DEF RightsInv, RightsTypes, VisitMoves, SameRights, VisitKnows, RowWriting,
       Asking, Changing, UnderWay, Closed
  <2> SUFFICES ASSUME NEW q \in Visits, visit'[q].op \in RoleChanges \ {"newrole"},
                      NEW u \in People,
                      \E r \in visit'[q].roles : <<u, r>> \in links'
               PROVE  /\ visit'[q].step = "drop" => u \in visit'[q].keys \/ ~Relied(u)'
                      /\ visit'[q].step = "commit" => ~Relied(u)'
    BY DEF RoleDropped
  <2>3. q # v /\ visit'[q] = visit[q] BY <1>1 DEF VisitMoves, RoleChanges
  <2> QED BY <1>1, <2>1, <2>2, <2>3 DEF RightsInv, RoleDropped, SameRights
<1>9. UserDropped'
  <2>1. ASSUME Changing # {}, NEW u \in People, Relied(u)' PROVE Relied(u)
    BY <1>1, <2>1 DEF SameRights, Relied
  <2>2. \A q \in Visits : visit[q].step \in {"drop", "commit"} => Changing # {}
    BY DEF RightsInv, RightsTypes, VisitMoves, SameRights, VisitKnows, RowWriting,
       Asking, Changing, UnderWay, Closed
  <2> SUFFICES ASSUME NEW q \in Visits, NEW u \in People,
                      visit'[q].op \in Flags \cup {"edituser"}, visit'[q].step = "commit",
                      visit'[q].on = u
               PROVE  ~Relied(u)'
    BY DEF UserDropped
  <2>3. q # v /\ visit'[q] = visit[q] BY <1>1 DEF VisitMoves, Flags
  <2> QED BY <1>1, <2>1, <2>2, <2>3 DEF RightsInv, UserDropped
<1>10. Sharp'
  BY <1>1 DEF RightsInv, RightsTypes, VisitMoves, SameRights, VisitKnows, RowWriting,
     Asking, Sharp, UnderWay, Closed, Changing, Visit, VisitSteps
<1>11. OneRemains'
  <2>1. \A u \in People : Loadable(u) => account[u].active BY DEF Loadable
  <2> QED
    BY <1>1, <2>1 DEF RightsInv, RightsTypes, VisitMoves, SameRights, VisitKnows,
       RowWriting, Asking, OneRemains, Sharp, UnderWay, Closed, RecordsTell, LoadsTell,
             Relied, Tells, Flags, Administers
<1> QED BY <1>2, <1>3, <1>4, <1>5, <1>6, <1>7, <1>8, <1>9, <1>10, <1>11 DEF RightsInv

\* A request that only reads ends.
LEMMA VisitShown ==
  ASSUME RightsInv, NEW v \in Visits, ShowRights(v)
  PROVE  RightsInv'
<1>1. /\ visit[v].step = "handle" /\ VisitMoves(v) /\ SameRights
      /\ UNCHANGED <<record, crowded>>
      /\ visit'[v].op = "none" /\ visit'[v].roles = {} /\ visit'[v].step = "done"
  <2> DEFINE x == [visit[v] EXCEPT !.step = "done"]
  <2>1. x \in Visit /\ x.step = "done"
    BY DEF RightsInv, RightsTypes, Visit, VisitSteps
  <2>2. Turns(v, "handle", x) /\ NoHistory /\ UNCHANGED <<rightsTables, record>>
    BY DEF ShowRights, GoesTo
  <2> HIDE DEF x
  <2>3. visit[v].step = "handle" /\ VisitMoves(v) /\ visit'[v] = [NoVisit EXCEPT !.step = "done"]
    BY <2>1, <2>2, Turned DEF RightsInv
  <2> QED BY <2>2, <2>3 DEF rightsTables, SameRights, NoHistory, NoVisit
<1>2. RightsTypes'
  BY <1>1 DEF RightsInv, RightsTypes, VisitMoves, SameRights, Visit, Changes
<1>3. VisitKnows'
  BY <1>1 DEF RightsInv, RightsTypes, VisitMoves, SameRights, VisitKnows, RowWriting,
     Asking, Visit, VisitSteps, RoleChanges, UserChanges, Flags
<1>4. RolesTheirOwn'
  BY <1>1 DEF RightsInv, RightsTypes, VisitMoves, SameRights, VisitKnows, RowWriting,
     Asking, RolesTheirOwn
<1>5. UsersTheirOwn'
  BY <1>1 DEF RightsInv, RightsTypes, VisitMoves, SameRights, VisitKnows, RowWriting,
     Asking, UsersTheirOwn, UserChanges, Flags
<1>6. RecordsTell'
  <2> SUFFICES ASSUME NEW u \in People, Relied(u)' PROVE Tells(record[u], u)'
    BY DEF RecordsTell
  <2>1. Linked(u)' = Linked(u) /\ (Loadable(u)' <=> Loadable(u))
    BY <1>1, Tables DEF SameRights
  <2> QED
    BY <1>1, <2>1 DEF RightsInv, RightsTypes, VisitMoves, SameRights, VisitKnows,
       RowWriting, Asking, RecordsTell, LoadsTell, Relied, Tells
<1>7. LoadsTell'
  <2> SUFFICES ASSUME NEW q \in Visits, NEW u \in People, visit'[q].step = "fill",
                      visit'[q].by = u, account'[u].here, ~visit'[q].me.blurred
               PROVE  Tells(visit[q].me, u)'
    BY DEF LoadsTell
  <2>1. Linked(u)' = Linked(u) /\ (Loadable(u)' <=> Loadable(u))
    BY <1>1, Tables DEF SameRights
  <2> QED
    BY <1>1, <2>1 DEF RightsInv, RightsTypes, VisitMoves, SameRights, VisitKnows,
       RowWriting, Asking, LoadsTell, Tells
<1>8. RoleDropped'
  BY <1>1 DEF RightsInv, RightsTypes, VisitMoves, SameRights, VisitKnows, RowWriting,
     Asking, RoleDropped, Relied, RoleChanges, Changing, UnderWay, Closed
<1>9. UserDropped'
  BY <1>1 DEF RightsInv, RightsTypes, VisitMoves, SameRights, VisitKnows, RowWriting,
     Asking, UserDropped, Relied, Flags, UserChanges, Changing, UnderWay, Closed
<1>10. Sharp'
  BY <1>1 DEF RightsInv, RightsTypes, VisitMoves, SameRights, VisitKnows, RowWriting,
     Asking, Sharp, UnderWay, Closed, Changing, Visit, VisitSteps
<1>11. OneRemains'
  <2>1. \A u \in People : Loadable(u) => account[u].active BY DEF Loadable
  <2> QED
    BY <1>1, <2>1 DEF RightsInv, RightsTypes, VisitMoves, SameRights, VisitKnows,
       RowWriting, Asking, OneRemains, Sharp, UnderWay, Closed, RecordsTell, LoadsTell,
             Relied, Tells, Flags, Administers
<1> QED BY <1>2, <1>3, <1>4, <1>5, <1>6, <1>7, <1>8, <1>9, <1>10, <1>11 DEF RightsInv

\* A request that fails before its commit changes no table.
LEMMA Broken ==
  ASSUME RightsInv, NEW v \in Visits, BreakOff(v)
  PROVE  RightsInv'
<1>1. /\ v \in UnderWay /\ VisitMoves(v) /\ SameRights /\ UNCHANGED <<record, crowded>>
      /\ visit'[v].op = "none" /\ visit'[v].roles = {} /\ visit'[v].step = "refused"
  <2> DEFINE x == [visit[v] EXCEPT !.step = "refused"]
  <2>1. x \in Visit /\ x.step = "refused"
    BY DEF RightsInv, RightsTypes, Visit, VisitSteps
  <2>2. Turns(v, visit[v].step, x) /\ NoHistory /\ UNCHANGED <<rightsTables, record>> /\ v \in UnderWay
    BY DEF BreakOff, GoesTo
  <2> HIDE DEF x
  <2>3. VisitMoves(v) /\ visit'[v] = [NoVisit EXCEPT !.step = "refused"]
    BY <2>1, <2>2, Turned DEF RightsInv
  <2> QED BY <2>2, <2>3 DEF rightsTables, SameRights, NoHistory, NoVisit
<1>2. RightsTypes'
  BY <1>1 DEF RightsInv, RightsTypes, VisitMoves, SameRights, Visit, Changes
<1>3. VisitKnows'
  BY <1>1 DEF RightsInv, RightsTypes, VisitMoves, SameRights, VisitKnows, RowWriting,
     Asking, Visit, VisitSteps, RoleChanges, UserChanges, Flags
<1>4. RolesTheirOwn'
  BY <1>1 DEF RightsInv, RightsTypes, VisitMoves, SameRights, VisitKnows, RowWriting,
     Asking, RolesTheirOwn
<1>5. UsersTheirOwn'
  BY <1>1 DEF RightsInv, RightsTypes, VisitMoves, SameRights, VisitKnows, RowWriting,
     Asking, UsersTheirOwn, UserChanges, Flags
<1>6. RecordsTell'
  <2> SUFFICES ASSUME NEW u \in People, Relied(u)' PROVE Tells(record[u], u)'
    BY DEF RecordsTell
  <2>1. Linked(u)' = Linked(u) /\ (Loadable(u)' <=> Loadable(u))
    BY <1>1, Tables DEF SameRights
  <2> QED
    BY <1>1, <2>1 DEF RightsInv, RightsTypes, VisitMoves, SameRights, VisitKnows,
       RowWriting, Asking, RecordsTell, LoadsTell, Relied, Tells
<1>7. LoadsTell'
  <2> SUFFICES ASSUME NEW q \in Visits, NEW u \in People, visit'[q].step = "fill",
                      visit'[q].by = u, account'[u].here, ~visit'[q].me.blurred
               PROVE  Tells(visit[q].me, u)'
    BY DEF LoadsTell
  <2>1. Linked(u)' = Linked(u) /\ (Loadable(u)' <=> Loadable(u))
    BY <1>1, Tables DEF SameRights
  <2> QED
    BY <1>1, <2>1 DEF RightsInv, RightsTypes, VisitMoves, SameRights, VisitKnows,
       RowWriting, Asking, LoadsTell, Tells
<1>8. RoleDropped'
  BY <1>1 DEF RightsInv, RightsTypes, VisitMoves, SameRights, VisitKnows, RowWriting,
     Asking, RoleDropped, Relied, RoleChanges, Changing, UnderWay, Closed
<1>9. UserDropped'
  BY <1>1 DEF RightsInv, RightsTypes, VisitMoves, SameRights, VisitKnows, RowWriting,
     Asking, UserDropped, Relied, Flags, UserChanges, Changing, UnderWay, Closed
<1>10. Sharp'
  BY <1>1 DEF RightsInv, RightsTypes, VisitMoves, SameRights, VisitKnows, RowWriting,
     Asking, Sharp, UnderWay, Closed, Changing, Visit, VisitSteps
<1>11. OneRemains'
  <2>1. \A u \in People : Loadable(u) => account[u].active BY DEF Loadable
  <2> QED
    BY <1>1, <2>1 DEF RightsInv, RightsTypes, VisitMoves, SameRights, VisitKnows,
       RowWriting, Asking, OneRemains, Sharp, UnderWay, Closed, RecordsTell, LoadsTell,
             Relied, Tells, Flags, Administers
<1> QED BY <1>2, <1>3, <1>4, <1>5, <1>6, <1>7, <1>8, <1>9, <1>10, <1>11 DEF RightsInv

\* A change that was admitted has new rows of its own, and leaves the superuser
\* who asked for it.
LEMMA Checked ==
  ASSUME RightsInv, NEW v \in Visits, NEW op \in Changes, NEW p \in People \cup {NoRecord},
         NEW rs \in SUBSET Roles,
         op = "newrole" => \A r \in rs : Fresh(r), op = "adduser" => Unborn(p),
         op \in UserChanges \cup {"deluser"} => p \in People, CheckRequest(v, op, p, rs)
  PROVE  RightsInv'
<1>1. /\ visit[v].step = "handle" /\ VisitMoves(v) /\ SameRights
      /\ UNCHANGED <<record, crowded>>
      /\ visit'[v].op = op /\ visit'[v].roles = rs /\ visit'[v].on = p
      /\ visit'[v].step = "write"
      /\ op \in Flags => visit[v].gate = "super" /\ p # visit[v].by /\ account[p].here
      /\ op \in {"edituser", "deluser"} => account[p].here
      /\ op # "none"
  <2> DEFINE x == [NoVisit EXCEPT !.step = "write", !.op = op, !.on = p, !.roles = rs,
                                  !.val = op \in Flags /\ ~account[p][op]]
  <2>1. x \in Visit /\ x.step = "write" /\ x.op = op /\ x.on = p /\ x.roles = rs
    BY NoVisitTyped DEF Visit, VisitSteps, NoVisit
  <2>2. /\ Turns(v, "handle", x) /\ NoHistory /\ UNCHANGED <<rightsTables, record>>
        /\ op \in Behind(visit[v].gate) /\ Accepts(v, op, p, rs)
    BY DEF CheckRequest
  <2> HIDE DEF x
  <2>3. visit[v].step = "handle" /\ VisitMoves(v) /\ visit'[v] = x
    BY <2>1, <2>2, Turned DEF RightsInv
  <2>4. /\ op \in Flags => account[p].here /\ p # visit[v].by
        /\ op \in {"edituser", "deluser"} => account[p].here
    BY <2>2 DEF Accepts, Flags
  <2>5. op \in Flags => visit[v].gate = "super"
    BY <2>2 DEF Behind, Flags, RoleChanges, RightsInv, RightsTypes, Visit, Gates
  <2>6. op # "none" BY DEF Changes, RoleChanges, UserChanges, Flags
  <2> QED BY <2>1, <2>2, <2>3, <2>4, <2>5, <2>6 DEF rightsTables, SameRights, NoHistory
<1>2. RightsTypes'
  BY <1>1 DEF RightsInv, RightsTypes, VisitMoves, SameRights, Visit, Changes
<1>3. VisitKnows'
  BY <1>1 DEF RightsInv, RightsTypes, VisitMoves, SameRights, VisitKnows, RowWriting,
     Asking, Visit, VisitSteps, RoleChanges, UserChanges, Flags
<1>4. RolesTheirOwn'
  <2>1. op = "newrole" => \A r \in rs : role[r] = "none" /\ \A q \in Visits : r \notin visit[q].roles
    BY DEF RightsInv, RightsTypes, VisitMoves, SameRights, VisitKnows, RowWriting,
       Asking, Fresh, UnderWay, Closed
  <2> QED
    BY <1>1, <2>1 DEF RightsInv, RightsTypes, VisitMoves, SameRights, VisitKnows,
       RowWriting, Asking, RolesTheirOwn
<1>5. UsersTheirOwn'
  <2>1. op \in Flags \cup {"edituser", "deluser"} => account[p] # Never BY <1>1 DEF Never
  <2>2. op = "adduser" =>
          account[p] = Never /\ \A q \in Visits : visit[q].step \in RowWriting
            => visit[q].on # p
    BY DEF Unborn, UnderWay, Closed, RowWriting
  <2>3. \A u \in People : account'[u] = Never =>
          record'[u] = NoRecord /\ \A q \in Visits : visit'[q].step = "fill" => visit'[q].by # u
    BY <1>1 DEF RightsInv, RightsTypes, VisitMoves, SameRights, VisitKnows, RowWriting,
       Asking, UsersTheirOwn
  <2>4. \A q \in Visits : visit[q].op \in UserChanges \cup {"deluser"} => visit[q].step \in RowWriting
    BY DEF RightsInv, VisitKnows, UserChanges, Flags
  <2>5. ASSUME NEW q \in Visits, visit'[q].op = "adduser"
        PROVE  /\ account'[visit'[q].on] = Never
               /\ \A c \in Visits \ {q} : visit'[c].op \in UserChanges \cup {"deluser"} =>
                    visit'[c].on # visit'[q].on
    <3>1. CASE q = v BY <1>1, <2>2, <2>4, <2>5, <3>1 DEF VisitMoves, SameRights
    <3>2. CASE q # v
      <4>1. visit'[q] = visit[q] /\ account[visit[q].on] = Never
        BY <1>1, <2>5, <3>2 DEF RightsInv, VisitMoves, UsersTheirOwn
      <4>2. op \in UserChanges \cup {"deluser"} => p # visit[q].on
        <5>1. "adduser" \in UserChanges BY DEF UserChanges
        <5>2. CASE op = "adduser" BY <2>2, <2>4, <2>5, <4>1, <5>1, <5>2
        <5>3. CASE op # "adduser" BY <2>1, <4>1, <5>3 DEF UserChanges
        <5> QED BY <5>2, <5>3
      <4> QED
        BY <1>1, <2>5, <3>2, <4>1, <4>2 DEF RightsInv, VisitMoves, SameRights,
           UsersTheirOwn
    <3> QED BY <3>1, <3>2
  <2> QED BY <2>3, <2>5 DEF UsersTheirOwn
<1>6. RecordsTell'
  <2> SUFFICES ASSUME NEW u \in People, Relied(u)' PROVE Tells(record[u], u)'
    BY DEF RecordsTell
  <2>1. Linked(u)' = Linked(u) /\ (Loadable(u)' <=> Loadable(u))
    BY <1>1, Tables DEF SameRights
  <2> QED
    BY <1>1, <2>1 DEF RightsInv, RightsTypes, VisitMoves, SameRights, VisitKnows,
       RowWriting, Asking, RecordsTell, LoadsTell, Relied, Tells
<1>7. LoadsTell'
  <2> SUFFICES ASSUME NEW q \in Visits, NEW u \in People, visit'[q].step = "fill",
                      visit'[q].by = u, account'[u].here, ~visit'[q].me.blurred
               PROVE  Tells(visit[q].me, u)'
    BY DEF LoadsTell
  <2>1. Linked(u)' = Linked(u) /\ (Loadable(u)' <=> Loadable(u))
    BY <1>1, Tables DEF SameRights
  <2> QED
    BY <1>1, <2>1 DEF RightsInv, RightsTypes, VisitMoves, SameRights, VisitKnows,
       RowWriting, Asking, LoadsTell, Tells
<1>8. RoleDropped'
  BY <1>1 DEF RightsInv, RightsTypes, VisitMoves, SameRights, VisitKnows, RowWriting,
     Asking, RoleDropped, Relied, RoleChanges, Changing, UnderWay, Closed
<1>9. UserDropped'
  BY <1>1 DEF RightsInv, RightsTypes, VisitMoves, SameRights, VisitKnows, RowWriting,
     Asking, UserDropped, Relied, Flags, UserChanges, Changing, UnderWay, Closed
<1>10. Sharp'
  <2>1. \A q \in Visits : q \in UnderWay' <=> q \in UnderWay
    BY <1>1 DEF VisitMoves, UnderWay, Closed
  <2>2. \A q \in Visits : visit'[q].step = "fill" => visit'[q] = visit[q]
    BY <1>1 DEF VisitMoves
  <2>3. UnderWay' = UnderWay BY <2>1 DEF UnderWay
  <2> QED BY <1>1, <2>2, <2>3 DEF RightsInv, Sharp, SameRights
<1>11. OneRemains'
  <2>1. \A u \in People : Loadable(u) => account[u].active BY DEF Loadable
  <2> QED
    BY <1>1, <2>1 DEF RightsInv, RightsTypes, VisitMoves, SameRights, VisitKnows,
       RowWriting, Asking, OneRemains, Sharp, UnderWay, Closed, RecordsTell, LoadsTell,
             Relied, Tells, Flags, Administers
<1> QED BY <1>2, <1>3, <1>4, <1>5, <1>6, <1>7, <1>8, <1>9, <1>10, <1>11 DEF RightsInv

\* An update goes on to the records it must drop.
LEMMA RowWritten ==
  ASSUME RightsInv, NEW v \in Visits, WriteRow(v)
  PROVE  RightsInv'
<1>1. /\ visit[v].step = "write" /\ VisitMoves(v) /\ SameRights
      /\ UNCHANGED <<record, crowded>>
      /\ visit'[v].op = visit[v].op /\ visit'[v].roles = visit[v].roles
      /\ visit'[v].on = visit[v].on
      /\ \/ visit'[v].step = "links" /\ visit[v].op \in RoleChanges \ {"newrole"}
         \/ /\ visit'[v].step = "drop" /\ visit[v].op \in Flags \cup {"edituser"}
            /\ visit'[v].keys = {visit[v].on}
         \/ visit'[v].step = "commit" /\ visit[v].op \in {"newrole", "adduser", "deluser"}
  <2> DEFINE w == visit[v]
             x == CASE w.op \in RoleChanges \ {"newrole"}  -> [w EXCEPT !.step = "links"]
                    [] w.op \in Flags \cup {"edituser"} -> [w EXCEPT !.step = "drop", !.keys = {w.on}]
                    [] OTHER                            -> [w EXCEPT !.step = "commit"]
  <2>1. Turns(v, "write", x) /\ NoHistory /\ UNCHANGED <<rightsTables, record>>
    BY DEF WriteRow
  <2>2. w \in Visit /\ w.step = "write" /\ w.op \in Changes
        /\ (w.op \in UserChanges \cup {"deluser"} => w.on \in People)
    BY <2>1 DEF Turns, RightsInv, RightsTypes, VisitKnows, RowWriting, Visit
  <2> HIDE DEF w
  <2>3. /\ x \in Visit /\ x.op = w.op /\ x.roles = w.roles /\ x.on = w.on
        /\ \/ x.step = "links" /\ w.op \in RoleChanges \ {"newrole"}
           \/ x.step = "drop" /\ w.op \in Flags \cup {"edituser"} /\ x.keys = {w.on}
           \/ x.step = "commit" /\ w.op \in {"newrole", "adduser", "deluser"}
    BY <2>2 DEF Visit, VisitSteps, Changes, RoleChanges, UserChanges, Flags
  <2> HIDE DEF x
  <2>4. x \in Visit /\ x.step \notin {"refused", "done"} BY <2>3
  <2>5. VisitMoves(v) /\ visit'[v] = IF x.step \in {"refused", "done"}
                                THEN [NoVisit EXCEPT !.step = x.step] ELSE x
    BY <2>1, <2>4, Turned DEF RightsInv
  <2>6. visit'[v] = x BY <2>4, <2>5
  <2> QED BY <2>1, <2>2, <2>3, <2>5, <2>6 DEF rightsTables, SameRights, NoHistory, w
<1>2. RightsTypes'
  BY <1>1 DEF RightsInv, RightsTypes, VisitMoves, SameRights, Visit, Changes
<1>3. VisitKnows'
  BY <1>1 DEF RightsInv, RightsTypes, VisitMoves, SameRights, VisitKnows, RowWriting,
     Asking, Visit, VisitSteps, RoleChanges, UserChanges, Flags
<1>4. RolesTheirOwn'
  BY <1>1 DEF RightsInv, RightsTypes, VisitMoves, SameRights, VisitKnows, RowWriting,
     Asking, RolesTheirOwn
<1>5. UsersTheirOwn'
  BY <1>1 DEF RightsInv, RightsTypes, VisitMoves, SameRights, VisitKnows, RowWriting,
     Asking, UsersTheirOwn, UserChanges, Flags
<1>6. RecordsTell'
  <2> SUFFICES ASSUME NEW u \in People, Relied(u)' PROVE Tells(record[u], u)'
    BY DEF RecordsTell
  <2>1. Linked(u)' = Linked(u) /\ (Loadable(u)' <=> Loadable(u))
    BY <1>1, Tables DEF SameRights
  <2> QED
    BY <1>1, <2>1 DEF RightsInv, RightsTypes, VisitMoves, SameRights, VisitKnows,
       RowWriting, Asking, RecordsTell, LoadsTell, Relied, Tells
<1>7. LoadsTell'
  <2> SUFFICES ASSUME NEW q \in Visits, NEW u \in People, visit'[q].step = "fill",
                      visit'[q].by = u, account'[u].here, ~visit'[q].me.blurred
               PROVE  Tells(visit[q].me, u)'
    BY DEF LoadsTell
  <2>1. Linked(u)' = Linked(u) /\ (Loadable(u)' <=> Loadable(u))
    BY <1>1, Tables DEF SameRights
  <2> QED
    BY <1>1, <2>1 DEF RightsInv, RightsTypes, VisitMoves, SameRights, VisitKnows,
       RowWriting, Asking, LoadsTell, Tells
<1>8. RoleDropped'
  <2>1. visit'[v].op \in RoleChanges \ {"newrole"} => visit'[v].step = "links"
    BY <1>1 DEF RoleChanges, Flags
  <2> QED
    BY <1>1, <2>1 DEF RightsInv, RightsTypes, VisitMoves, SameRights, VisitKnows,
       RowWriting, Asking, RoleDropped, Relied
<1>9. UserDropped'
  BY <1>1 DEF RightsInv, RightsTypes, VisitMoves, SameRights, VisitKnows, RowWriting,
     Asking, UserDropped, Relied, Flags, UserChanges, Changing, UnderWay, Closed
<1>10. Sharp'
  BY <1>1 DEF RightsInv, RightsTypes, VisitMoves, SameRights, VisitKnows, RowWriting,
     Asking, Sharp, UnderWay, Closed, Changing, Visit, VisitSteps
<1>11. OneRemains'
  <2>1. \A u \in People : Loadable(u) => account[u].active BY DEF Loadable
  <2> QED
    BY <1>1, <2>1 DEF RightsInv, RightsTypes, VisitMoves, SameRights, VisitKnows,
       RowWriting, Asking, OneRemains, Sharp, UnderWay, Closed, RecordsTell, LoadsTell,
             Relied, Tells, Flags, Administers
<1> QED BY <1>2, <1>3, <1>4, <1>5, <1>6, <1>7, <1>8, <1>9, <1>10, <1>11 DEF RightsInv

\* FindLinked finds every user whose record the change makes wrong.
LEMMA LinkedFound ==
  ASSUME RightsInv, NEW v \in Visits, FindLinked(v)
  PROVE  RightsInv'
<1>1. /\ visit[v].step = "links" /\ VisitMoves(v) /\ SameRights
      /\ UNCHANGED <<record, crowded>>
      /\ visit'[v].op = visit[v].op /\ visit'[v].roles = visit[v].roles
      /\ visit'[v].on = visit[v].on
      /\ visit'[v].step = "drop"
      /\ visit'[v].keys = {u \in People : \E r \in visit[v].roles : <<u, r>> \in links}
  <2> DEFINE w == visit[v]
             x == [w EXCEPT !.step = "drop",
                            !.keys = {u \in People : \E r \in w.roles : <<u, r>> \in links}]
  <2>1. Turns(v, "links", x) /\ NoHistory /\ UNCHANGED <<rightsTables, record>>
    BY DEF FindLinked
  <2>2. /\ x \in Visit /\ x.op = w.op /\ x.roles = w.roles /\ x.on = w.on /\ x.step = "drop"
        /\ x.keys = {u \in People : \E r \in w.roles : <<u, r>> \in links}
    BY DEF RightsInv, RightsTypes, Visit, VisitSteps
  <2> HIDE DEF x
  <2>3. visit[v].step = "links" /\ VisitMoves(v) /\ visit'[v] = x
    BY <2>1, <2>2, Turned DEF RightsInv
  <2> QED BY <2>1, <2>2, <2>3 DEF rightsTables, SameRights, NoHistory
<1>2. RightsTypes'
  BY <1>1 DEF RightsInv, RightsTypes, VisitMoves, SameRights, Visit, Changes
<1>3. VisitKnows'
  BY <1>1 DEF RightsInv, RightsTypes, VisitMoves, SameRights, VisitKnows, RowWriting,
     Asking, Visit, VisitSteps, RoleChanges, UserChanges, Flags
<1>4. RolesTheirOwn'
  BY <1>1 DEF RightsInv, RightsTypes, VisitMoves, SameRights, VisitKnows, RowWriting,
     Asking, RolesTheirOwn
<1>5. UsersTheirOwn'
  BY <1>1 DEF RightsInv, RightsTypes, VisitMoves, SameRights, VisitKnows, RowWriting,
     Asking, UsersTheirOwn, UserChanges, Flags
<1>6. RecordsTell'
  <2> SUFFICES ASSUME NEW u \in People, Relied(u)' PROVE Tells(record[u], u)'
    BY DEF RecordsTell
  <2>1. Linked(u)' = Linked(u) /\ (Loadable(u)' <=> Loadable(u))
    BY <1>1, Tables DEF SameRights
  <2> QED
    BY <1>1, <2>1 DEF RightsInv, RightsTypes, VisitMoves, SameRights, VisitKnows,
       RowWriting, Asking, RecordsTell, LoadsTell, Relied, Tells
<1>7. LoadsTell'
  <2> SUFFICES ASSUME NEW q \in Visits, NEW u \in People, visit'[q].step = "fill",
                      visit'[q].by = u, account'[u].here, ~visit'[q].me.blurred
               PROVE  Tells(visit[q].me, u)'
    BY DEF LoadsTell
  <2>1. Linked(u)' = Linked(u) /\ (Loadable(u)' <=> Loadable(u))
    BY <1>1, Tables DEF SameRights
  <2> QED
    BY <1>1, <2>1 DEF RightsInv, RightsTypes, VisitMoves, SameRights, VisitKnows,
       RowWriting, Asking, LoadsTell, Tells
<1>8. RoleDropped'
  BY <1>1 DEF RightsInv, RightsTypes, VisitMoves, SameRights, VisitKnows, RowWriting,
     Asking, RoleDropped, Relied, RoleChanges, Changing, UnderWay, Closed
<1>9. UserDropped'
  BY <1>1 DEF RightsInv, RightsTypes, VisitMoves, SameRights, VisitKnows, RowWriting,
     Asking, UserDropped, Relied, Flags, UserChanges, Changing, UnderWay, Closed
<1>10. Sharp'
  <2>1. \A q \in Visits : q \in UnderWay' <=> q \in UnderWay
    BY <1>1 DEF VisitMoves, UnderWay, Closed
  <2>2. \A q \in Visits : visit'[q].step = "fill" => visit'[q] = visit[q]
    BY <1>1 DEF VisitMoves
  <2>3. UnderWay' = UnderWay BY <2>1 DEF UnderWay
  <2> QED BY <1>1, <2>2, <2>3 DEF RightsInv, Sharp, SameRights
<1>11. OneRemains'
  <2>1. \A u \in People : Loadable(u) => account[u].active BY DEF Loadable
  <2> QED
    BY <1>1, <2>1 DEF RightsInv, RightsTypes, VisitMoves, SameRights, VisitKnows,
       RowWriting, Asking, OneRemains, Sharp, UnderWay, Closed, RecordsTell, LoadsTell,
             Relied, Tells, Flags, Administers
<1> QED BY <1>2, <1>3, <1>4, <1>5, <1>6, <1>7, <1>8, <1>9, <1>10, <1>11 DEF RightsInv

\* After DropRecords nobody relies on what the commit will make wrong.
LEMMA Dropped ==
  ASSUME RightsInv, NEW v \in Visits, DropRecords(v)
  PROVE  RightsInv'
<1>1. /\ visit[v].step = "drop" /\ VisitMoves(v) /\ SameRights /\ UNCHANGED crowded
      /\ visit'[v].op = visit[v].op /\ visit'[v].roles = visit[v].roles
      /\ visit'[v].on = visit[v].on
      /\ visit'[v].step = "commit"
      /\ record' = [u \in People |-> IF u \in visit[v].keys THEN NoRecord ELSE record[u]]
  <2> DEFINE w == visit[v]
             x == [w EXCEPT !.step = "commit"]
  <2>1. /\ Turns(v, "drop", x) /\ NoHistory /\ UNCHANGED rightsTables
        /\ record' = [u \in People |-> IF u \in visit[v].keys THEN NoRecord ELSE record[u]]
    BY DEF DropRecords, GoesTo
  <2>2. x \in Visit /\ x.op = w.op /\ x.roles = w.roles /\ x.on = w.on /\ x.step = "commit"
    BY DEF RightsInv, RightsTypes, Visit, VisitSteps
  <2> HIDE DEF x
  <2>3. visit[v].step = "drop" /\ VisitMoves(v) /\ visit'[v] = x
    BY <2>1, <2>2, Turned DEF RightsInv
  <2> QED BY <2>1, <2>2, <2>3 DEF rightsTables, SameRights, NoHistory
<1>2. RightsTypes'
  BY <1>1 DEF RightsInv, RightsTypes, VisitMoves, SameRights, Visit, Changes
<1>3. VisitKnows'
  BY <1>1 DEF RightsInv, RightsTypes, VisitMoves, SameRights, VisitKnows, RowWriting,
     Asking, Visit, VisitSteps, RoleChanges, UserChanges, Flags
<1>4. RolesTheirOwn'
  BY <1>1 DEF RightsInv, RightsTypes, VisitMoves, SameRights, VisitKnows, RowWriting,
     Asking, RolesTheirOwn
<1>5. UsersTheirOwn'
  BY <1>1 DEF RightsInv, RightsTypes, VisitMoves, SameRights, VisitKnows, RowWriting,
     Asking, UsersTheirOwn, UserChanges, Flags
<1>6. RecordsTell'
  <2> SUFFICES ASSUME NEW u \in People, Relied(u)' PROVE Tells(record[u], u)'
    BY DEF RecordsTell
  <2>1. Linked(u)' = Linked(u) /\ (Loadable(u)' <=> Loadable(u))
    BY <1>1, Tables DEF SameRights
  <2>2. record'[u] = record[u] BY <1>1 DEF Relied, RightsInv, RightsTypes
  <2> QED
    BY <1>1, <2>1, <2>2 DEF RightsInv, RightsTypes, VisitMoves, SameRights, VisitKnows,
       RowWriting, Asking, RecordsTell, Relied, Tells
<1>7. LoadsTell'
  <2> SUFFICES ASSUME NEW q \in Visits, NEW u \in People, visit'[q].step = "fill",
                      visit'[q].by = u, account'[u].here, ~visit'[q].me.blurred
               PROVE  Tells(visit[q].me, u)'
    BY DEF LoadsTell
  <2>1. Linked(u)' = Linked(u) /\ (Loadable(u)' <=> Loadable(u))
    BY <1>1, Tables DEF SameRights
  <2> QED
    BY <1>1, <2>1 DEF RightsInv, RightsTypes, VisitMoves, SameRights, VisitKnows,
       RowWriting, Asking, LoadsTell, Tells
<1>8. RoleDropped'
  BY <1>1 DEF RightsInv, RightsTypes, VisitMoves, SameRights, VisitKnows, RowWriting,
     Asking, RoleDropped, Relied, RoleChanges, Changing, UnderWay, Closed
<1>9. UserDropped'
  <2>1. ASSUME NEW u \in People, Relied(u)' PROVE Relied(u) /\ u \notin visit[v].keys
    BY <1>1, <2>1 DEF RightsInv, RightsTypes, VisitMoves, SameRights, VisitKnows,
       RowWriting, Asking, Relied
  <2>2. visit[v].op \in Flags \cup {"edituser"} => visit[v].keys = {visit[v].on}
    BY <1>1 DEF RightsInv, RightsTypes, VisitMoves, SameRights, VisitKnows, RowWriting,
       Asking, RoleChanges, Flags
  <2> QED BY <1>1, <2>1, <2>2 DEF RightsInv, VisitMoves, UserDropped
<1>10. Sharp'
  BY <1>1 DEF RightsInv, RightsTypes, VisitMoves, SameRights, VisitKnows, RowWriting,
     Asking, Sharp, UnderWay, Closed, Changing, Visit, VisitSteps
<1>11. OneRemains'
  <2>1. \A u \in People : Loadable(u) => account[u].active BY DEF Loadable
  <2> QED
    BY <1>1, <2>1 DEF RightsInv, RightsTypes, VisitMoves, SameRights, VisitKnows,
       RowWriting, Asking, OneRemains, Sharp, UnderWay, Closed, RecordsTell, LoadsTell,
             Relied, Tells, Flags, Administers
<1> QED BY <1>2, <1>3, <1>4, <1>5, <1>6, <1>7, <1>8, <1>9, <1>10, <1>11 DEF RightsInv

\* A record that expires is relied on by nobody.
LEMMA Expired ==
  ASSUME RightsInv, NEW p \in People, RecordExpires(p)
  PROVE  RightsInv'
<1>1. /\ UNCHANGED visit /\ SameRights /\ UNCHANGED crowded
      /\ record' = [record EXCEPT ![p] = NoRecord]
  BY DEF RecordExpires, NoHistory, rightsTables, SameRights
<1>2. RightsTypes'
  BY <1>1 DEF RightsInv, RightsTypes, VisitMoves, SameRights, Visit, Changes
<1>3. VisitKnows'
  BY <1>1 DEF RightsInv, RightsTypes, VisitMoves, SameRights, VisitKnows, RowWriting,
     Asking, Visit, VisitSteps, RoleChanges, UserChanges, Flags
<1>4. RolesTheirOwn'
  BY <1>1 DEF RightsInv, RightsTypes, VisitMoves, SameRights, VisitKnows, RowWriting,
     Asking, RolesTheirOwn
<1>5. UsersTheirOwn'
  BY <1>1 DEF RightsInv, RightsTypes, VisitMoves, SameRights, VisitKnows, RowWriting,
     Asking, UsersTheirOwn, UserChanges, Flags
<1>6. RecordsTell'
  <2> SUFFICES ASSUME NEW u \in People, Relied(u)' PROVE Tells(record[u], u)'
    BY DEF RecordsTell
  <2>1. Linked(u)' = Linked(u) /\ (Loadable(u)' <=> Loadable(u))
    BY <1>1, Tables DEF SameRights
  <2>2. record'[u] = record[u] BY <1>1 DEF Relied, RightsInv, RightsTypes
  <2> QED
    BY <1>1, <2>1, <2>2 DEF RightsInv, RightsTypes, VisitMoves, SameRights, VisitKnows,
       RowWriting, Asking, RecordsTell, Relied, Tells
<1>7. LoadsTell'
  <2> SUFFICES ASSUME NEW q \in Visits, NEW u \in People, visit'[q].step = "fill",
                      visit'[q].by = u, account'[u].here, ~visit'[q].me.blurred
               PROVE  Tells(visit[q].me, u)'
    BY DEF LoadsTell
  <2>1. Linked(u)' = Linked(u) /\ (Loadable(u)' <=> Loadable(u))
    BY <1>1, Tables DEF SameRights
  <2> QED
    BY <1>1, <2>1 DEF RightsInv, RightsTypes, VisitMoves, SameRights, VisitKnows,
       RowWriting, Asking, LoadsTell, Tells
<1>8. RoleDropped'
  BY <1>1 DEF RightsInv, RightsTypes, VisitMoves, SameRights, VisitKnows, RowWriting,
     Asking, RoleDropped, Relied, RoleChanges, Changing, UnderWay, Closed
<1>9. UserDropped'
  BY <1>1 DEF RightsInv, RightsTypes, VisitMoves, SameRights, VisitKnows, RowWriting,
     Asking, UserDropped, Relied, Flags, UserChanges, Changing, UnderWay, Closed
<1>10. Sharp'
  BY <1>1 DEF RightsInv, RightsTypes, VisitMoves, SameRights, VisitKnows, RowWriting,
     Asking, Sharp, UnderWay, Closed, Changing, Visit, VisitSteps
<1>11. OneRemains'
  <2>1. \A u \in People : Loadable(u) => account[u].active BY DEF Loadable
  <2> QED
    BY <1>1, <2>1 DEF RightsInv, RightsTypes, VisitMoves, SameRights, VisitKnows,
       RowWriting, Asking, OneRemains, Sharp, UnderWay, Closed, RecordsTell, LoadsTell,
             Relied, Tells, Flags, Administers
<1> QED BY <1>2, <1>3, <1>4, <1>5, <1>6, <1>7, <1>8, <1>9, <1>10, <1>11 DEF RightsInv

\* What a commit changes.
LEMMA CommitChanges ==
  ASSUME RightsInv, NEW v \in Visits, CommitVisit(v)
  PROVE  /\ visit[v].step = "commit" /\ UNCHANGED <<record, crowded>>
         /\ visit' \in [Visits -> Visit]
         /\ visit'[v].step = "done" /\ visit'[v].op = "none" /\ visit'[v].roles = {}
         /\ \A q \in Visits \ {v} : visit[q].step # "fill" => visit'[q] = visit[q]
         /\ \A q \in Visits \ {v} : visit[q].step = "fill" =>
              /\ visit'[q].step = "fill" /\ visit'[q].by = visit[q].by
              /\ visit'[q].op = "none"
              /\ visit'[q].roles = {} /\ visit'[q].me \in Record /\ visit'[q].me.blurred
         /\ role' \in [Roles -> {"none", "on", "off", "gone"}]
         /\ \A r \in Roles : role'[r] # role[r] =>
              /\ r \in visit[v].roles /\ visit[v].op \in RoleChanges /\ role'[r] # "none"
              /\ visit[v].op # "newrole" => role[r] # "none"
         /\ account' \in [People -> Account]
         /\ visit[v].op \notin Flags \cup {"adduser", "deluser"} => account' = account
         /\ \A x \in People : x # visit[v].on => account'[x] = account[x]
         /\ visit[v].op \in Flags =>
              account'[visit[v].on].here = account[visit[v].on].here
         /\ visit[v].op = "deluser" => ~account'[visit[v].on].here
         /\ \A x \in People : account'[x] = Never => account[x] = Never
         /\ links' \subseteq People \X Roles
         /\ \A r \in Roles, x \in People :
              x # visit[v].on => (<<x, r>> \in links' <=> <<x, r>> \in links)
         /\ visit[v].op \in RoleChanges \cup Flags => links' = links
         /\ \A k \in links' : k \in links \/ role[k[2]] # "none"
         /\ erased' = (erased \/ visit[v].op = "deluser")
<1> DEFINE w == visit[v]
           u == w.on
           alive == w.roles \cap Existing
           gone == [NoVisit EXCEPT !.step = "done"]
<1>1. /\ w \in Visit /\ w.step = "commit" /\ w.op \in Changes
      /\ u \in People \cup {NoRecord}
      /\ w.roles \subseteq Roles /\ w.val \in BOOLEAN
      /\ (w.op \in UserChanges \cup {"deluser"} => u \in People)
  BY DEF CommitVisit, RightsInv, RightsTypes, VisitKnows, RowWriting, Visit
<1>2. gone \in Visit /\ gone.step = "done" /\ gone.op = "none" /\ gone.roles = {}
  BY NoVisitTyped DEF Visit, VisitSteps, NoVisit
<1>3. /\ visit' \in [Visits -> Visit] /\ visit'[v] = gone
      /\ \A q \in Visits \ {v} : visit[q].step # "fill" => visit'[q] = visit[q]
      /\ \A q \in Visits \ {v} : visit[q].step = "fill" =>
              /\ visit'[q].step = "fill" /\ visit'[q].by = visit[q].by
              /\ visit'[q].op = "none"
              /\ visit'[q].roles = {} /\ visit'[q].me \in Record /\ visit'[q].me.blurred
  <2>1. visit' = [q \in Visits |->
           IF q = v THEN gone
           ELSE IF visit[q].step = "fill" THEN [visit[q] EXCEPT !.me.blurred = TRUE]
                ELSE visit[q]]
    BY DEF CommitVisit
  <2>2. ASSUME NEW q \in Visits, visit[q].step = "fill"
        PROVE  LET z == [visit[q] EXCEPT !.me.blurred = TRUE]
               IN  /\ z \in Visit /\ z.step = "fill" /\ z.by = visit[q].by /\ z.op = "none"
                   /\ z.roles = {} /\ z.me \in Record /\ z.me.blurred
    <3>1. /\ visit[q] \in Visit /\ visit[q].me \in Record /\ visit[q].op = "none"
          /\ visit[q].roles = {}
      BY <2>2 DEF RightsInv, RightsTypes, VisitKnows, RowWriting
    <3>2. [visit[q].me EXCEPT !.blurred = TRUE] \in Record
      BY <3>1 DEF Record
    <3> QED BY <2>2, <3>1, <3>2 DEF Visit, Record
  <2> HIDE DEF gone
  <2> QED BY <1>2, <2>1, <2>2 DEF RightsInv, RightsTypes
<1>4. /\ role' \in [Roles -> {"none", "on", "off", "gone"}]
      /\ \A r \in Roles : role'[r] # role[r] =>
           /\ r \in w.roles /\ w.op \in RoleChanges /\ role'[r] # "none"
           /\ w.op # "newrole" => role[r] # "none"
  <2> PICK new \in {"on", "off"} : role' =
           CASE w.op = "newrole"   -> [r \in Roles |-> IF r \in w.roles THEN new ELSE role[r]]
             [] w.op = "enable"    -> [r \in Roles |-> IF r \in alive THEN "on" ELSE role[r]]
             [] w.op = "disable"   -> [r \in Roles |-> IF r \in alive THEN "off" ELSE role[r]]
             [] w.op = "droproles" -> [r \in Roles |-> IF r \in alive THEN "gone" ELSE role[r]]
             [] OTHER              -> role
    BY DEF CommitVisit
  <2>1. \A r \in alive : r \in w.roles /\ role[r] # "none" BY DEF Existing
  <2>2. role \in [Roles -> {"none", "on", "off", "gone"}] BY DEF RightsInv, RightsTypes
  <2> HIDE DEF w, alive
  <2> QED BY <2>1, <2>2 DEF RoleChanges
<1>5. account' = CASE w.op \in Flags /\ account[u].here -> [account EXCEPT ![u][w.op] = w.val]
                   [] w.op = "adduser"  -> [account EXCEPT ![u] = [here |-> TRUE, super |-> FALSE,
                                                                   staff |-> FALSE, active |-> TRUE]]
                   [] w.op = "deluser"  -> [account EXCEPT ![u] = Deleted]
                   [] OTHER             -> account
  BY DEF CommitVisit
<1>6. account \in [People -> Account] BY DEF RightsInv, RightsTypes
<1>7. CASE w.op \in Flags /\ account[u].here
  <2>1. account' = [account EXCEPT ![u][w.op] = w.val] BY <1>5, <1>7 DEF Flags
  <2>2. u \in People BY <1>1, <1>7 DEF UserChanges
  <2>3. account' = [account EXCEPT ![u] = [account[u] EXCEPT ![w.op] = w.val]]
    BY <2>1
  <2>4. /\ [account[u] EXCEPT ![w.op] = w.val] \in Account
        /\ [account[u] EXCEPT ![w.op] = w.val].here = account[u].here
    <3> HIDE DEF w, u
    <3>1. CASE w.op = "super" BY <1>1, <1>6, <2>2, <3>1 DEF Account, w
    <3>2. CASE w.op = "staff" BY <1>1, <1>6, <2>2, <3>2 DEF Account, w
    <3>3. CASE w.op = "active" BY <1>1, <1>6, <2>2, <3>3 DEF Account, w
    <3> QED BY <1>7, <3>1, <3>2, <3>3 DEF Flags
  <2>5. /\ account' \in [People -> Account] /\ account'[u].here
        /\ \A x \in People \ {u} : account'[x] = account[x]
    BY <1>6, <1>7, <2>2, <2>3, <2>4
  <2>6. links' = links /\ erased' = (erased \/ w.op = "deluser") /\ UNCHANGED <<record, crowded>>
    BY <1>7 DEF CommitVisit, Flags
  <2>7. w.op # "deluser" /\ w.op \notin {"adduser", "deluser"} BY <1>7 DEF Flags
  <2> QED
    BY <1>1, <1>2, <1>3, <1>4, <1>7, <2>2, <2>5, <2>6, <2>7 DEF Never, RightsInv,
       RightsTypes
<1>8. CASE ~(w.op \in Flags /\ account[u].here)
  <2>1. /\ account' \in [People -> Account]
        /\ w.op \notin {"adduser", "deluser"} => account' = account
        /\ \A x \in People : x # u => account'[x] = account[x]
        /\ w.op = "deluser" => ~account'[u].here
        /\ \A x \in People : account'[x] = Never => account[x] = Never
    <3>1. w.op \in {"adduser", "deluser"} => u \in People BY <1>1 DEF UserChanges
    <3>2. Deleted \in Account /\ ~Deleted.here /\ Deleted.active /\ ~Never.active
      BY DEF Deleted, Never, Account
    <3> HIDE DEF w, u
    <3>3. CASE w.op = "adduser"
      <4>1. /\ u \in People
            /\ account' = [account EXCEPT ![u] = [here |-> TRUE, super |-> FALSE,
                                                 staff |-> FALSE, active |-> TRUE]]
        BY <1>5, <1>8, <3>1, <3>3
      <4> QED BY <1>6, <3>3, <4>1 DEF Account, Never
    <3>4. CASE w.op = "deluser"
      <4>1. u \in People /\ account' = [account EXCEPT ![u] = Deleted]
        BY <1>5, <1>8, <3>1, <3>4
      <4> HIDE DEF Account
      <4> QED BY <1>6, <3>2, <3>4, <4>1
    <3>5. CASE w.op \notin {"adduser", "deluser"}
      <4>1. account' = account BY <1>5, <1>8, <3>5
      <4> QED BY <1>6, <3>5, <4>1
    <3> QED BY <3>3, <3>4, <3>5
  <2>2. /\ links' = IF w.op \in {"adduser", "edituser", "deluser"}
                    THEN {k \in links : k[1] # u} \cup (IF w.op = "deluser" THEN {} ELSE {u} \X alive)
                    ELSE links
        /\ erased' = (erased \/ w.op = "deluser") /\ UNCHANGED <<record, crowded>>
    BY DEF CommitVisit
  <2>3. /\ links' \subseteq People \X Roles
        /\ \A r \in Roles, x \in People : x # u => (<<x, r>> \in links' <=> <<x, r>> \in links)
        /\ w.op \in RoleChanges \cup Flags => links' = links
        /\ \A k \in links' : k \in links \/ role[k[2]] # "none"
    <3>1. w.op \in {"adduser", "edituser", "deluser"} => u \in People
      BY <1>1 DEF UserChanges
    <3>2. links \subseteq People \X Roles /\ alive \subseteq Roles /\ \A r \in alive : role[r] # "none"
      BY DEF RightsInv, RightsTypes, Existing
    <3> HIDE DEF w, u, alive
    <3>3. CASE w.op \in {"adduser", "edituser", "deluser"}
      <4>1. /\ links' = {k \in links : k[1] # u} \cup (IF w.op = "deluser" THEN {} ELSE {u} \X alive)
            /\ w.op \notin RoleChanges \cup Flags
        BY <2>2, <3>3 DEF RoleChanges, Flags
      <4> QED BY <3>1, <3>2, <3>3, <4>1
    <3>4. CASE w.op \notin {"adduser", "edituser", "deluser"}
      <4>1. links' = links BY <2>2, <3>4
      <4> QED BY <3>2, <4>1
    <3> QED BY <3>3, <3>4
  <2>4. /\ w.op \notin Flags \cup {"adduser", "deluser"} => account' = account
        /\ w.op \in Flags => account'[u].here = account[u].here
    BY <2>1 DEF Flags
  <2>5. UNCHANGED <<record, crowded>> /\ erased' = (erased \/ w.op = "deluser") BY <2>2
  <2> HIDE DEF gone, alive
  <2> QED BY <1>1, <1>2, <1>3, <1>4, <2>1, <2>3, <2>4, <2>5
<1> QED BY <1>7, <1>8

\* Whoever is still judged by a record that is relied on, the commit is not about.
LEMMA CommitSpares ==
  ASSUME RightsInv, NEW v \in Visits, CommitVisit(v), NEW x \in People, Relied(x)'
  PROVE  /\ Relied(x) /\ account'[x] = account[x] /\ record'[x] = record[x]
         /\ visit[v].op \in UserChanges \cup {"deluser"} => x # visit[v].on
         /\ Linked(x)' = Linked(x) /\ (Loadable(x)' <=> Loadable(x))
<1> DEFINE w == visit[v]
<1>1. /\ w.op \in Changes /\ w.step = "commit" /\ record' = record
  BY CommitChanges DEF RightsInv, RightsTypes, VisitKnows, RowWriting, Visit
<1>2. w.op \in UserChanges \cup {"deluser"} => x # w.on
  <2> SUFFICES ASSUME w.op \in UserChanges \cup {"deluser"}, x = w.on PROVE FALSE OBVIOUS
  <2>1. CASE w.op \in Flags
    BY <1>1, <2>1, CommitChanges DEF RightsInv, UserDropped, Relied
  <2>2. CASE w.op = "edituser"
    <3>1. account' = account BY <2>2, CommitChanges DEF Flags
    <3> QED BY <1>1, <2>2, <3>1 DEF RightsInv, UserDropped, Relied
  <2>3. CASE w.op = "adduser"
    BY <1>1, <2>3 DEF RightsInv, UsersTheirOwn, Relied
  <2>4. CASE w.op = "deluser" BY <2>4, CommitChanges DEF Relied
  <2> QED BY <2>1, <2>2, <2>3, <2>4 DEF UserChanges
<1>3. account'[x] = account[x]
  <2>1. CASE w.op \in UserChanges \cup {"deluser"} BY <1>2, <2>1, CommitChanges
  <2>2. CASE w.op \in RoleChanges
    <3>1. account' = account BY <2>2, CommitChanges DEF RoleChanges, Flags
    <3> QED BY <3>1
  <2> QED BY <1>1, <2>1, <2>2 DEF Changes
<1>4. Relied(x) BY <1>1, <1>3 DEF Relied
<1>5. \A r \in Roles : <<x, r>> \in links' <=> <<x, r>> \in links
  <2>1. CASE w.op \in UserChanges \cup {"deluser"} BY <1>2, <2>1, CommitChanges
  <2>2. CASE w.op \in RoleChanges BY <2>2, CommitChanges
  <2> QED BY <1>1, <2>1, <2>2 DEF Changes
<1>6. \A r \in Roles : <<x, r>> \in links => role'[r] = role[r]
  <2> SUFFICES ASSUME NEW r \in Roles, <<x, r>> \in links, role'[r] # role[r] PROVE FALSE
    OBVIOUS
  <2>1. r \in w.roles /\ w.op \in RoleChanges BY CommitChanges
  <2>2. w.op = "newrole" \/ w.op \in RoleChanges \ {"newrole"} BY <2>1
  <2>3. w.op # "newrole"
    <3>1. w.op = "newrole" => role[r] = "none" BY <2>1 DEF RightsInv, RolesTheirOwn
    <3>2. role[<<x, r>>[2]] # "none" BY DEF RightsInv, RolesTheirOwn
    <3> QED BY <3>1, <3>2
  <2> QED BY <1>1, <1>4, <2>1, <2>2, <2>3 DEF RightsInv, RoleDropped
<1>7. Linked(x)' = Linked(x) BY <1>5, <1>6 DEF Linked, Existing
<1>8. Loadable(x)' <=> Loadable(x)
  <2>1. Enabled(x)' = Enabled(x) BY <1>6, <1>7 DEF Enabled, Linked, Existing
  <2> QED BY <1>3, <1>7, <2>1 DEF Loadable
<1> QED BY <1>1, <1>2, <1>3, <1>4, <1>7, <1>8

\* A commit keeps all of it: the records it makes wrong are not relied on.
LEMMA Committed ==
  ASSUME RightsInv, NEW v \in Visits, CommitVisit(v)
  PROVE  RightsInv'
<1>0. /\ visit[v].op \in Changes /\ visit[v].step = "commit" /\ v \in UnderWay
      /\ visit \in [Visits -> Visit]
  BY CommitChanges DEF RightsInv, RightsTypes, VisitKnows, RowWriting, Visit, UnderWay,
     Closed
<1>1. RightsTypes'
  <2>1. crowded' \in BOOLEAN /\ erased' \in BOOLEAN /\ record' \in [People -> Record \cup {NoRecord}]
    BY CommitChanges DEF RightsInv, RightsTypes
  <2> QED BY <2>1, CommitChanges DEF RightsTypes
<1>2. VisitKnows'
  BY CommitChanges DEF RightsInv, VisitKnows, RowWriting, Asking, RoleChanges,
     UserChanges, Flags
<1>3. RolesTheirOwn'
  <2>1. \A k \in links' : role'[k[2]] # "none"
    <3> SUFFICES ASSUME NEW k \in links' PROVE role'[k[2]] # "none" OBVIOUS
    <3>1. k[2] \in Roles BY CommitChanges
    <3>2. role[k[2]] # "none" BY CommitChanges DEF RightsInv, RolesTheirOwn
    <3> QED BY <3>1, <3>2, CommitChanges
  <2>2. ASSUME NEW q \in Visits, visit'[q].op = "newrole", NEW r \in visit'[q].roles
        PROVE  /\ role'[r] = "none"
               /\ \A c \in Visits \ {q} : visit'[c].op = "newrole" => r \notin visit'[c].roles
    <3>1. q # v /\ visit'[q] = visit[q] BY <2>2, CommitChanges
    <3>2. role[r] = "none" /\ r \in Roles
      BY <1>0, <2>2, <3>1 DEF RightsInv, RolesTheirOwn, Visit
    <3>3. role'[r] # role[r] => visit[v].op = "newrole" /\ r \in visit[v].roles
      BY <3>2, CommitChanges
    <3>4. \A c \in Visits : visit'[c].op = "newrole" => visit'[c] = visit[c]
      BY CommitChanges
    <3> QED BY <2>2, <3>1, <3>2, <3>3, <3>4 DEF RightsInv, RolesTheirOwn
  <2> QED BY <2>1, <2>2 DEF RolesTheirOwn
<1>4. UsersTheirOwn'
  <2>1. \A u \in People : account'[u] = Never =>
          record'[u] = NoRecord /\ \A q \in Visits : visit'[q].step = "fill" => visit'[q].by # u
    <3>1. \A q \in Visits : visit'[q].step = "fill" =>
            visit[q].step = "fill" /\ visit'[q].by = visit[q].by
      BY CommitChanges
    <3> QED BY <3>1, CommitChanges DEF RightsInv, UsersTheirOwn
  <2>2. ASSUME NEW q \in Visits, visit'[q].op = "adduser"
        PROVE  /\ account'[visit'[q].on] = Never
               /\ \A c \in Visits \ {q} : visit'[c].op \in UserChanges \cup {"deluser"} =>
                    visit'[c].on # visit'[q].on
    <3>1. q # v /\ visit'[q] = visit[q] BY <2>2, CommitChanges
    <3>2. \A c \in Visits : visit'[c].op \in UserChanges \cup {"deluser"} => visit'[c] = visit[c]
      BY CommitChanges DEF UserChanges, Flags
    <3>3. visit[q].on \in People /\ account[visit[q].on] = Never
      BY <2>2, <3>1 DEF RightsInv, VisitKnows, UsersTheirOwn, UserChanges
    <3>4. visit[v].op \in UserChanges \cup {"deluser"} => visit[v].on # visit[q].on
      BY <2>2, <3>1 DEF RightsInv, UsersTheirOwn
    <3>5. account'[visit[q].on] = account[visit[q].on]
      BY <3>3, <3>4, CommitChanges DEF UserChanges
    <3> QED BY <2>2, <3>1, <3>2, <3>3, <3>5 DEF RightsInv, UsersTheirOwn
  <2> QED BY <2>1, <2>2 DEF UsersTheirOwn
<1>5. RecordsTell'
  <2> SUFFICES ASSUME NEW u \in People, Relied(u)' PROVE Tells(record[u], u)'
    BY DEF RecordsTell
  <2>1. /\ Relied(u) /\ account'[u] = account[u] /\ record'[u] = record[u]
        /\ Linked(u)' = Linked(u) /\ (Loadable(u)' <=> Loadable(u))
    BY CommitSpares
  <2> QED BY <2>1 DEF RightsInv, RecordsTell, Tells
<1>6. LoadsTell' BY CommitChanges DEF LoadsTell
<1>7. RoleDropped'
  <2> SUFFICES ASSUME NEW q \in Visits, visit'[q].op \in RoleChanges \ {"newrole"},
                      NEW u \in People,
                      \E r \in visit'[q].roles : <<u, r>> \in links', Relied(u)'
               PROVE  /\ visit'[q].step = "drop" => u \in visit'[q].keys
                      /\ visit'[q].step # "commit"
    BY DEF RoleDropped
  <2>1. q # v /\ visit'[q] = visit[q] BY CommitChanges DEF RoleChanges
  <2>2. Relied(u) /\ (visit[v].op \in UserChanges \cup {"deluser"} => u # visit[v].on)
    BY CommitSpares
  <2>3. \A r \in Roles : <<u, r>> \in links' => <<u, r>> \in links
    BY <1>0, <2>2, CommitChanges DEF Changes
  <2>4. visit[q].roles \subseteq Roles BY <1>0 DEF Visit
  <2> QED BY <2>1, <2>2, <2>3, <2>4 DEF RightsInv, RoleDropped
<1>8. UserDropped'
  <2> SUFFICES ASSUME NEW q \in Visits, NEW u \in People,
                      visit'[q].op \in Flags \cup {"edituser"}, visit'[q].step = "commit",
                      visit'[q].on = u, Relied(u)'
               PROVE  FALSE
    BY DEF UserDropped
  <2>1. q # v /\ visit'[q] = visit[q] BY CommitChanges DEF Flags
  <2>2. Relied(u) BY CommitSpares
  <2> QED BY <2>1, <2>2 DEF RightsInv, UserDropped
<1>9. Sharp'
  <2> SUFFICES ASSUME ~crowded
               PROVE  /\ \A c, q \in UnderWay' : c = q
                      /\ \A u \in People : record'[u] # NoRecord => ~record'[u].blurred
                      /\ \A q \in Visits : visit'[q].step = "fill" => ~visit'[q].me.blurred
    BY CommitChanges DEF Sharp
  <2>1. \A q \in Visits : visit[q].step \in Closed \/ q = v
    BY <1>0 DEF RightsInv, Sharp, UnderWay
  <2>2. \A q \in Visits : visit'[q].step \in Closed
    BY <2>1, CommitChanges DEF Closed
  <2> QED BY <2>2, CommitChanges DEF RightsInv, Sharp, UnderWay, Closed
<1>10. OneRemains'
  <2> SUFFICES ASSUME ~crowded, ~erased, visit[v].op # "deluser" PROVE OneRemains'
    BY CommitChanges DEF OneRemains
  <2>1. \A q \in Visits : visit[q].step \in Closed \/ q = v
    BY <1>0 DEF RightsInv, Sharp, UnderWay
  <2>2. \A q \in Visits : visit'[q].step \in Closed /\ visit'[q].op = "none"
    BY <2>1, CommitChanges DEF Closed, RightsInv, VisitKnows, RowWriting
  <2>3. \E u \in People : Administers(u) /\ account'[u] = account[u]
    <3>1. CASE visit[v].op \in Flags
      <4>1. visit[v].on \in People BY <3>1 DEF RightsInv, VisitKnows, UserChanges
      <4> QED BY <3>1, <4>1, CommitChanges DEF RightsInv, OneRemains
    <3>2. CASE visit[v].op = "adduser"
      <4>1. PICK u \in People : Administers(u) BY DEF RightsInv, OneRemains
      <4>2. u # visit[v].on
        BY <3>2, <4>1 DEF RightsInv, UsersTheirOwn, Administers, Never
      <4> QED BY <4>1, <4>2, CommitChanges
    <3>3. CASE visit[v].op \notin Flags \cup {"adduser"}
      <4>1. account' = account BY <3>3, CommitChanges
      <4> QED BY <4>1 DEF RightsInv, OneRemains
    <3> QED BY <3>1, <3>2, <3>3
  <2>4. \E u \in People : account'[u].here /\ account'[u].active /\ account'[u].super
                          /\ account'[u].staff
    BY <2>3 DEF Administers
  <2> QED BY <2>2, <2>4 DEF OneRemains, Administers, Closed, Asking, Flags
<1> QED BY <1>1, <1>2, <1>3, <1>4, <1>5, <1>6, <1>7, <1>8, <1>9, <1>10 DEF RightsInv

\* No step breaks it.
LEMMA RightsInvKept == RightsInv /\ [RolesNext]_roleVars => RightsInv'
<1> SUFFICES ASSUME RightsInv, [RolesNext]_roleVars PROVE RightsInv' OBVIOUS
<1>1. CASE \E v \in Visits, gate \in Gates, u \in People : Arrive(v, gate, u)
  BY <1>1, VisitArrived
<1>2. CASE \E v \in Visits : LoadRecord(v) BY <1>2, Loaded
<1>3. CASE \E v \in Visits : FillRecord(v) BY <1>3, Filled
<1>4. CASE \E v \in Visits : ShowRights(v) BY <1>4, VisitShown
<1>5. ASSUME NEW v \in Visits, NEW r \in Roles,
             \/ Fresh(r) /\ CheckRequest(v, "newrole", NoRecord, {r})
             \/ \E op \in {"enable", "disable"} : CheckRequest(v, op, NoRecord, {r})
      PROVE  RightsInv'
  <2>1. {r} \in SUBSET Roles /\ {"newrole", "enable", "disable"} \subseteq Changes
    BY DEF Changes, RoleChanges
  <2>2. {"newrole", "enable", "disable"} \cap (UserChanges \cup {"deluser"}) = {}
    BY DEF UserChanges, Flags
  <2> QED BY <1>5, <2>1, <2>2, Checked DEF UserChanges
<1>6. ASSUME NEW v \in Visits, NEW rs \in SUBSET Roles, CheckRequest(v, "droproles", NoRecord, rs)
      PROVE  RightsInv'
  <2>1. "droproles" \in Changes /\ "droproles" \notin UserChanges \cup {"deluser"}
    BY DEF Changes, RoleChanges, UserChanges, Flags
  <2> QED BY <1>6, <2>1, Checked
<1>7. ASSUME NEW v \in Visits, NEW u \in People, NEW op \in Flags \cup {"deluser"},
             CheckRequest(v, op, u, {})
      PROVE  RightsInv'
  <2>1. op \in Changes /\ op # "newrole" /\ op # "adduser" /\ {} \in SUBSET Roles
    BY DEF Changes, UserChanges, Flags
  <2> QED BY <1>7, <2>1, Checked
<1>8. ASSUME NEW v \in Visits, NEW u \in People, NEW rs \in SUBSET Roles \ {{}},
             \/ CheckRequest(v, "edituser", u, rs)
             \/ Unborn(u) /\ CheckRequest(v, "adduser", u, rs)
      PROVE  RightsInv'
  <2>1. "edituser" \in Changes /\ "adduser" \in Changes /\ rs \in SUBSET Roles
    BY DEF Changes, UserChanges
  <2> QED BY <1>8, <2>1, Checked
<1>9. CASE \E v \in Visits : WriteRow(v) BY <1>9, RowWritten
<1>10. CASE \E v \in Visits : FindLinked(v) BY <1>10, LinkedFound
<1>11. CASE \E v \in Visits : DropRecords(v) BY <1>11, Dropped
<1>12. CASE \E v \in Visits : CommitVisit(v) BY <1>12, Committed
<1>13. CASE \E v \in Visits : BreakOff(v) BY <1>13, Broken
<1>14. CASE \E u \in People : RecordExpires(u) BY <1>14, Expired
<1>15. CASE UNCHANGED roleVars
  <2> USE <1>15 DEF roleVars
  <2>1. RightsTypes' /\ VisitKnows' /\ RolesTheirOwn' /\ UsersTheirOwn'
    BY DEF RightsInv, RightsTypes, VisitKnows, RolesTheirOwn, UsersTheirOwn
  <2>2. RecordsTell'
    BY DEF RightsInv, RecordsTell, Relied, Tells, Linked, Loadable, Enabled, Existing
  <2>3. LoadsTell' BY DEF RightsInv, LoadsTell, Tells, Linked, Loadable, Enabled, Existing
  <2>4. RoleDropped' /\ UserDropped' BY DEF RightsInv, RoleDropped, UserDropped, Relied
  <2>5. Sharp' /\ OneRemains' BY DEF RightsInv, Sharp, OneRemains, UnderWay, Administers
  <2> QED BY <2>1, <2>2, <2>3, <2>4, <2>5 DEF RightsInv
<1> QED
  BY <1>1, <1>2, <1>3, <1>4, <1>5, <1>6, <1>7, <1>8, <1>9, <1>10, <1>11, <1>12, <1>13,
      <1>14, <1>15 DEF RolesNext

\* It holds at the start, with an administrator, and every step keeps it.
LEMMA RightsInvHolds == RolesSpec => []RightsInv
<1>1. RolesInit => RightsInv
  <2> SUFFICES ASSUME RolesInit PROVE RightsInv OBVIOUS
  <2>1. /\ visit = [v \in Visits |-> NoVisit] /\ NoVisit \in Visit /\ NoVisit.step = "new"
        /\ NoVisit.op = "none" /\ NoVisit.roles = {}
    BY NoVisitTyped DEF RolesInit, NoVisit
  <2>2. \A v \in Visits : visit[v].step = "new" /\ visit[v].op = "none" /\ visit[v].roles = {}
    BY <2>1
  <2>3. RightsTypes
    <3>1. links \subseteq People \X Roles BY DEF RolesInit
    <3>2. role \in [Roles -> {"none", "on", "off", "gone"}] BY DEF RolesInit
    <3> QED BY <2>1, <3>1, <3>2 DEF RolesInit, RightsTypes
  <2>4. VisitKnows BY <2>2 DEF VisitKnows, RowWriting, Asking, UserChanges, Flags
  <2>5. RolesTheirOwn BY <2>2 DEF RolesInit, RolesTheirOwn
  <2>6. UsersTheirOwn /\ RecordsTell /\ LoadsTell /\ RoleDropped /\ UserDropped /\ Sharp
    BY <2>2 DEF RolesInit, UsersTheirOwn, RecordsTell, LoadsTell, RoleDropped,
       UserDropped, Sharp,
       Relied, UnderWay, Closed, RoleChanges, Flags
  <2>7. OneRemains BY <2>2 DEF RolesInit, OneRemains, Asking, Flags
  <2> QED BY <2>3, <2>4, <2>5, <2>6, <2>7 DEF RightsInv
<1> QED BY <1>1, RightsInvKept, PTL DEF RolesSpec

\* The tables, records and requests of Roles keep their types, for any number of
\* users, roles and requests.
THEOREM RolesTypesHold == RolesSpec => []RolesTypeOK
<1>1. RightsInv => RolesTypeOK
  <2> SUFFICES ASSUME RightsInv PROVE RolesTypeOK OBVIOUS
  <2>1. Changes \cup {"none"} \subseteq {"none"} \cup UNION {Behind(g) : g \in Gates}
    <3>1. Behind("role") = RoleChanges \cup {"deluser"} /\ Behind("super") = UserChanges
          /\ {"role", "super"} \subseteq Gates
      BY DEF Behind, Gates
    <3> QED BY <3>1 DEF Changes
  <2> QED BY <2>1 DEF RightsInv, RightsTypes, Visit, RolesTypeOK
<1> QED BY RightsInvHolds, <1>1, PTL

\* role_service.py, user_service.py and jwt.py: for any number of users, roles
\* and requests, a cached record says what the tables say of its user, however
\* requests overlap and wherever they are cut off, unless it was read or saved
\* while a change was under way; and requests that do not overlap leave a
\* superuser, unless somebody deletes users.
THEOREM RightsKeptHolds == RolesSpec => []RightsKept
<1>1. RightsInv => RightsKept
  <2> SUFFICES ASSUME RightsInv PROVE RightsKept OBVIOUS
  <2>1. RecordsTrue BY DEF RightsInv, RecordsTell, Relied, Tells, RecordsTrue
  <2>2. SuperuserRemains BY DEF RightsInv, OneRemains, SuperuserRemains
  <2> QED BY <2>1, <2>2 DEF RightsKept
<1> QED BY RightsInvHolds, <1>1, PTL
=============================================================================
