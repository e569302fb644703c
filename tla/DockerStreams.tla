---------------------------- MODULE DockerStreams ----------------------------
(***************************************************************************)
(* The two websockets of plugin/docker/api/v1/containers.py: one pushes    *)
(* the log of a container, read anew every second and cut at the number of *)
(* lines counted before, the other its statistics.  Each is a loop that    *)
(* waits 0.1 s for a message of the client and then pushes.                *)
(***************************************************************************)
EXTENDS Integers, Sequences

CONSTANTS
  Sockets,   \* websockets
  MaxLines,  \* bound: lines the container writes
  Cap,       \* 10000, the lines get_container_logs reads at most
  Tails      \* values of tail that clients send

ASSUME DockerStreamsAssumption == MaxLines \in Nat /\ Cap \in Nat \ {0} /\ Tails \subseteq Nat

VARIABLES
  written,   \* lines in the log of the container, numbered from 1
  endsOpen,  \* the last line read does not end with a newline (a choice of the library)
  socket,    \* socket[s]: the step of its loop
  stats,     \* sockets that push statistics
  pushing,   \* pushing[s]: is_pushing
  loops,     \* loops[s]: loop_count, 2 for more than one
  counted,   \* counted[s]: last_log_count
  tail,      \* tail[s]: tail_lines
  got,       \* history: the lines the client got since it said start
  cut        \* history: some read did not return the whole log

streamVars == <<written, endsOpen, socket, stats, pushing, loops, counted, tail, got, cut>>

Entries == 0 .. MaxLines  \* 0: what follows the last newline

StreamTypeOK ==
  /\ written \in 0 .. MaxLines /\ endsOpen \in BOOLEAN /\ stats \subseteq Sockets
  /\ socket \in [Sockets -> {"receive", "push", "closed"}]
  /\ pushing \in [Sockets -> BOOLEAN] /\ loops \in [Sockets -> 0 .. 2]
  /\ counted \in [Sockets -> 0 .. MaxLines + 1] /\ tail \in [Sockets -> Tails]
  /\ got \in [Sockets -> Seq(Entries)] /\ cut \in [Sockets -> BOOLEAN]

StreamInit ==
  /\ written \in 0 .. MaxLines /\ endsOpen \in BOOLEAN /\ stats \in {{}, Sockets}
  /\ socket = [s \in Sockets |-> "receive"] /\ pushing = [s \in Sockets |-> FALSE]
  /\ loops = [s \in Sockets |-> 0] /\ counted = [s \in Sockets |-> 0]
  /\ \E n \in Tails : tail = [s \in Sockets |-> n]
  /\ got = [s \in Sockets |-> <<>>] /\ cut = [s \in Sockets |-> FALSE]

\* get_container_logs: the last lines, split; a final newline adds an entry.
Limit(n) == IF n = 0 \/ n > Cap THEN Cap ELSE n
Missing(n) == IF written > Limit(n) THEN written - Limit(n) ELSE 0
Fetched(n) ==
  LET lines == [i \in 1 .. written - Missing(n) |-> Missing(n) + i]
  IN  IF written = 0 \/ endsOpen THEN lines ELSE Append(lines, 0)

\* What is sent, without the empty entry that is no line.
Lines(entries) ==
  IF entries # <<>> /\ entries[Len(entries)] = 0 THEN SubSeq(entries, 1, Len(entries) - 1)
  ELSE entries

InLoop(s, from, to) == socket[s] = from /\ socket' = [socket EXCEPT ![s] = to]

-----------------------------------------------------------------------------

WriteLine ==
  /\ written < MaxLines /\ written' = written + 1
  /\ UNCHANGED <<endsOpen, socket, stats, pushing, loops, counted, tail, got, cut>>

\* {'action': 'start'}, of no effect while it pushes.
ReceiveStart(s, n) ==
  /\ InLoop(s, "receive", "push") /\ pushing' = [pushing EXCEPT ![s] = TRUE]
  /\ IF pushing[s] THEN UNCHANGED <<loops, counted, tail, got, cut>>
     ELSE /\ loops' = [loops EXCEPT ![s] = 0] /\ counted' = [counted EXCEPT ![s] = 0]
          /\ tail' = [tail EXCEPT ![s] = n]
          /\ got' = [got EXCEPT ![s] = <<>>] /\ cut' = [cut EXCEPT ![s] = FALSE]
  /\ UNCHANGED <<written, endsOpen, stats>>

ReceiveStop(s) ==
  /\ InLoop(s, "receive", "push") /\ pushing' = [pushing EXCEPT ![s] = FALSE]
  /\ UNCHANGED <<written, endsOpen, stats, loops, counted, tail, got, cut>>

\* No message in time, one that is not understood, or one that is not JSON.
ReceiveNothing(s) ==
  /\ InLoop(s, "receive", "push")
  /\ UNCHANGED <<written, endsOpen, stats, pushing, loops, counted, tail, got, cut>>

Wait(s) ==
  /\ ~pushing[s] /\ InLoop(s, "push", "receive")
  /\ UNCHANGED <<written, endsOpen, stats, pushing, loops, counted, tail, got, cut>>

Turn(s) ==
  /\ pushing[s] /\ InLoop(s, "push", "receive")
  /\ loops' = [loops EXCEPT ![s] = IF @ = 2 THEN 2 ELSE @ + 1]

\* The first turn sends the last tail lines ...
PushFirst(s) ==
  /\ s \notin stats /\ loops[s] = 0 /\ Turn(s)
  /\ got' = [got EXCEPT ![s] = @ \o Lines(Fetched(tail[s]))]
  /\ counted' = [counted EXCEPT ![s] = Len(Fetched(tail[s]))]
  /\ cut' = [cut EXCEPT ![s] = @ \/ Missing(tail[s]) > 0]
  /\ UNCHANGED <<written, endsOpen, stats, pushing, tail>>

\* Mutant: the lines sent are counted, not the lines read.
PushNewCountsSent(s) ==
  /\ s \notin stats /\ loops[s] > 0 /\ Turn(s)
  /\ LET all == Fetched(0)
         new == SubSeq(all, counted[s] + 1, Len(all))
     IN  /\ got' = [got EXCEPT ![s] = @ \o Lines(new)]
         /\ counted' = [counted EXCEPT ![s] = IF Len(all) > @ THEN Len(new) ELSE @]
  /\ cut' = [cut EXCEPT ![s] = @ \/ Missing(0) > 0]
  /\ UNCHANGED <<written, endsOpen, stats, pushing, tail>>

\* ... and every later one reads the log again, up to Cap lines, and sends what
\* is beyond the lines counted last time.
PushNew(s) ==
  /\ s \notin stats /\ loops[s] > 0 /\ Turn(s)
  /\ LET all == Fetched(0)
         new == SubSeq(all, counted[s] + 1, Len(all))
     IN  /\ got' = [got EXCEPT ![s] = @ \o Lines(new)]
         /\ counted' = [counted EXCEPT ![s] = IF Len(all) > @ THEN Len(all) ELSE @]
  /\ cut' = [cut EXCEPT ![s] = @ \/ Missing(0) > 0]
  /\ UNCHANGED <<written, endsOpen, stats, pushing, tail>>

\* The log or the statistics cannot be read: the client is told, and the turn
\* counts as one.
PushError(s) ==
  /\ Turn(s)
  /\ UNCHANGED <<written, endsOpen, stats, pushing, counted, tail, got, cut>>

PushStats(s) ==
  /\ s \in stats /\ Turn(s)
  /\ UNCHANGED <<written, endsOpen, stats, pushing, counted, tail, got, cut>>

\* The client is gone, found while receiving or sending.
Disconnect(s) ==
  /\ \E from \in {"receive", "push"} : InLoop(s, from, "closed")
  /\ UNCHANGED <<written, endsOpen, stats, pushing, loops, counted, tail, got, cut>>

StreamNext ==
  \/ WriteLine
  \/ \E s \in Sockets :
       \/ \E n \in Tails : ReceiveStart(s, n)
       \/ ReceiveStop(s) \/ ReceiveNothing(s) \/ Wait(s)
       \/ PushFirst(s) \/ PushNew(s) \/ PushError(s) \/ PushStats(s) \/ Disconnect(s)

StreamSpec == StreamInit /\ [][StreamNext]_streamVars

-----------------------------------------------------------------------------
(* Properties.                                                              *)

\* What a client gets is the log from some line on, every line once and in
\* order, as long as every read returned the whole log and the library does not
\* end what it returns with a newline: failed reads, stops and restarts of the
\* stream and lines written meanwhile do not matter.
LinesOnceInOrder ==
  \A s \in Sockets : endsOpen /\ ~cut[s] =>
    /\ \A i \in 2 .. Len(got[s]) : got[s][i] = got[s][i - 1] + 1
    /\ got[s] # <<>> => got[s][1] = 1 /\ Len(got[s]) = counted[s]

=============================================================================
