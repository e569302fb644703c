----------------------------- MODULE MCSessions -----------------------------
(* Instances of Sessions for TLC. *)
EXTENDS Sessions, TLC

CONSTANTS u1, u2, s1, s2, s3, r1, r2, r3

\* One user, whose prefix covers his own keys.
MCCoversOne == u1 :> {u1}

\* Two users, neither of whose prefixes covers the other's keys.
MCCoversTwo == u1 :> {u1} @@ u2 :> {u2}

\* Fair behaviours in which every user may have several sessions: no login ends
\* another, which a question about the cache does not need.
MCInit == Init /\ \A u \in Users : row[u].multi
MCSeveralSessions == MCInit /\ [][Next]_vars /\ Fairness

Symmetric == Permutations(Requests) \cup Permutations(Sessions)

=============================================================================
