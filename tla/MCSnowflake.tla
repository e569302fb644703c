----------------------------- MODULE MCSnowflake -----------------------------
(* Instances of Snowflake for TLC. *)
EXTENDS Snowflake, TLC

CONSTANTS p1, p2

Symmetric == Permutations(Procs)

=============================================================================
