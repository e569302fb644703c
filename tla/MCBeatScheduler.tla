--------------------------- MODULE MCBeatScheduler ---------------------------
(* Instances of BeatScheduler for TLC. *)
EXTENDS BeatScheduler, TLC

CONSTANTS b1, b2, a1, a2, t1, t2

=============================================================================
