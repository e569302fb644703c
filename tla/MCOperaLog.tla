------------------------------ MODULE MCOperaLog ------------------------------
(* Instances of OperaLog for TLC. *)
EXTENDS OperaLog, TLC

CONSTANTS c1, c2, c3, c4

\* Callers differ only in their kinds: one order of the kinds stands for all.
Rank(k) == CASE k = "api" -> 1 [] k = "clear" -> 2 [] k = "plain" -> 3 [] OTHER -> 4
MCInit ==
  LogInit /\ Rank(kind[c1]) <= Rank(kind[c2]) /\ Rank(kind[c2]) <= Rank(kind[c3])
MCSpec == MCInit /\ [][LogNext]_logVars /\ LogFairness

=============================================================================
