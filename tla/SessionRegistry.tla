--------------------------- MODULE SessionRegistry ---------------------------
(***************************************************************************)
(* What the token store promises of a session, whatever requests overlap:  *)
(* its access token becomes valid once, its refresh token becomes valid    *)
(* once and not before the access token did, and neither is valid again    *)
(* after it ended.  Several may end at a time (a prefix deletion), one     *)
(* begins at a time.                                                       *)
(***************************************************************************)
CONSTANT Sessions

VARIABLES
  access,   \* access[s]: the life of the access token of s
  grant     \* grant[s]: the life of the refresh token of s

vars == <<access, grant>>

Life == [Sessions -> {"new", "live", "over"}]

Init ==
  /\ access = [s \in Sessions |-> "new"]
  /\ grant = [s \in Sessions |-> "new"]

Open(s) ==
  /\ access[s] = "new"
  /\ access' = [access EXCEPT ![s] = "live"]
  /\ UNCHANGED grant

Grant(s) ==
  /\ access[s] # "new" /\ grant[s] = "new"
  /\ grant' = [grant EXCEPT ![s] = "live"]
  /\ UNCHANGED access

\* The live tokens of the sessions in S end.
Close(S) ==
  /\ access' = [s \in Sessions |-> IF s \in S /\ access[s] = "live"
                                   THEN "over" ELSE access[s]]
  /\ UNCHANGED grant

Withdraw(S) ==
  /\ grant' = [s \in Sessions |-> IF s \in S /\ grant[s] = "live"
                                  THEN "over" ELSE grant[s]]
  /\ UNCHANGED access

Next ==
  \/ \E s \in Sessions : Open(s) \/ Grant(s)
  \/ \E S \in SUBSET Sessions : Close(S) \/ Withdraw(S)

Spec == Init /\ [][Next]_vars

=============================================================================
