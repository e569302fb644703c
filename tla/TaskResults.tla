------------------------------ MODULE TaskResults ------------------------------
(***************************************************************************)
(* The row that shows the state of one Celery task: its attempts store     *)
(* their states there, each try in a transaction of its own that fails when *)
(* the row came or went meanwhile (app/task/database.py), while            *)
(* administrators and the daily clean-up delete rows (result_service.py).  *)
(* The worker itself is Celery: it stores STARTED and then the outcome; a  *)
(* retry sends the message of the next attempt before it stores RETRY.     *)
(***************************************************************************)
EXTENDS Naturals, FiniteSets

CONSTANTS
  Runs,   \* the attempts of the task are 1..Runs: its retries are bounded
  Tries,       \* how often a store is tried (Celery's retry decorator)
  MaxTrouble,  \* bound on deletions and failures of the database
  NoResult     \* no row

ASSUME TaskResultsAssumption ==
  Runs \in Nat \ {0} /\ Tries \in Nat \ {0} /\ MaxTrouble \in Nat

VARIABLES
  result,   \* the row: whose state it shows, and which
  attempt,  \* attempt[n]: its step, the state it is storing, whether it found the
            \* row, and the tries that failed
  trouble,  \* history: deletions of the row and failures of the database
  late,     \* history: an attempt began before the one before it had stored its last state
  dead      \* history: a worker died

resultVars == <<result, attempt, trouble, late, dead>>

Order == 1..Runs
Outcomes == {"SUCCESS", "FAILURE", "RETRY"}
Shows == [of : Order, state : {"STARTED"} \cup Outcomes]
ASSUME NoResultShowsNothing == NoResult \notin Shows
NoAttempt == [step |-> "none", state |-> "STARTED", found |-> FALSE, failed |-> 0]

ResultTypeOK ==
  /\ result \in Shows \cup {NoResult}
  /\ attempt \in [Order -> [step : {"none", "sent", "find", "write", "works", "over"},
                            state : {"STARTED"} \cup Outcomes, found : BOOLEAN, failed : 0..Tries]]
  /\ trouble \in 0..MaxTrouble /\ late \in BOOLEAN /\ dead \in BOOLEAN

ResultInit ==
  /\ result = NoResult
  /\ attempt = [n \in Order |-> IF n = 1 THEN [NoAttempt EXCEPT !.step = "sent"] ELSE NoAttempt]
  /\ trouble = 0 /\ late = FALSE /\ dead = FALSE

AttemptIs(n, w) == attempt' = [attempt EXCEPT ![n] = w]
Stores(n, state) == [NoAttempt EXCEPT !.step = "find", !.state = state]

\* A worker takes the message and stores STARTED (task_track_started).
StartAttempt(n) ==
  /\ attempt[n].step = "sent" /\ AttemptIs(n, Stores(n, "STARTED"))
  /\ late' = (late \/ (n > 1 /\ attempt[n - 1].step # "over"))
  /\ UNCHANGED <<result, trouble, dead>>

\* The task ends; SQLAlchemyError retries it, until max_retries.
EndAttempt(n, outcome) ==
  /\ attempt[n].step = "works" /\ (outcome = "RETRY" => n < Runs)
  /\ attempt' = [q \in Order |->
       IF q = n THEN Stores(n, outcome)
       ELSE IF q = n + 1 /\ outcome = "RETRY" THEN [attempt[q] EXCEPT !.step = "sent"] ELSE attempt[q]]
  /\ UNCHANGED <<result, trouble, late, dead>>

\* _store_result looks for the row ...
FindResult(n) ==
  /\ attempt[n].step = "find"
  /\ AttemptIs(n, [attempt[n] EXCEPT !.step = "write", !.found = result # NoResult])
  /\ UNCHANGED <<result, trouble, late, dead>>

\* The try failed: once more, or the worker gives up.
TryAgain(w) ==
  [w EXCEPT !.failed = @ + 1, !.found = FALSE,
            !.step = IF w.failed + 1 >= Tries THEN "over" ELSE "find"]

Stored(w) ==
  IF w.state = "STARTED" THEN [NoAttempt EXCEPT !.step = "works"]
  ELSE [w EXCEPT !.step = "over", !.found = FALSE, !.failed = 0]

\* ... and inserts or updates it and commits: task_id is unique, and an UPDATE that
\* finds no row fails.
WriteResult(n) ==
  LET w == attempt[n]
      fits == w.found = (result # NoResult)
  IN  /\ w.step = "write"
      /\ AttemptIs(n, IF fits THEN Stored(w) ELSE TryAgain(w))
      /\ result' = IF fits THEN [of |-> n, state |-> w.state] ELSE result
      /\ UNCHANGED <<trouble, late, dead>>

DatabaseFails(n) ==
  /\ attempt[n].step \in {"find", "write"} /\ trouble < MaxTrouble
  /\ AttemptIs(n, TryAgain(attempt[n])) /\ trouble' = trouble + 1
  /\ UNCHANGED <<result, late, dead>>

\* An administrator deletes the row (by the id of a list), forget does, or the
\* clean-up because date_done is too long ago.
DeleteResult ==
  /\ result # NoResult /\ trouble < MaxTrouble
  /\ result' = NoResult /\ trouble' = trouble + 1
  /\ UNCHANGED <<attempt, late, dead>>

\* The message was acknowledged before the task began: nobody repeats it.
WorkerDies(n) ==
  /\ attempt[n].step \in {"find", "write", "works"}
  /\ AttemptIs(n, [NoAttempt EXCEPT !.step = "over"]) /\ dead' = TRUE
  /\ UNCHANGED <<result, trouble, late>>

ResultNext ==
  \/ \E n \in Order :
       \/ StartAttempt(n) \/ FindResult(n) \/ WriteResult(n) \/ DatabaseFails(n) \/ WorkerDies(n)
       \/ \E outcome \in Outcomes : EndAttempt(n, outcome)
  \/ DeleteResult

ResultSpec == ResultInit /\ [][ResultNext]_resultVars

-----------------------------------------------------------------------------

Made == {n \in Order : attempt[n].step # "none"}
Last == CHOOSE n \in Made : \A q \in Made : q <= n
AtRest == \A n \in Made : attempt[n].step = "over"

\* When all attempts are over the row shows the outcome of the last one, or has
\* been deleted, although deletions and failures strike the stores: unless a worker
\* died, the database failed too often, or an attempt overtook the end of the
\* one before it.
ResultShown ==
  AtRest /\ ~dead /\ ~late /\ trouble < Tries =>
    \/ result = [of |-> Last, state |-> attempt[Last].state]
    \/ result = NoResult /\ trouble > 0

\* The row never goes back to an earlier attempt, unless one was overtaken.
NeverBack ==
  ~late => result = NoResult \/ \A n \in Made : n < result.of => attempt[n].step = "over"

ResultsKept == ResultShown /\ NeverBack

=============================================================================
