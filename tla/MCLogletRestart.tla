-------------------------- MODULE MCLogletRestart ---------------------------
(* A loglet on three log servers in two zones, n1 alone in the first, with  *)
(* replication {zone: 2}: a write quorum has a node of either zone, and an  *)
(* f-majority is the whole of one zone.  One append is in flight, one       *)
(* finder seals and repairs, the other one looks at the sealed loglet after *)
(* a log server restarted.                                                  *)
EXTENDS ReplicatedLoglet

CONSTANTS n1, n2, n3, c1, c2

ZoneWriteQuorums == {{n1, n2}, {n1, n3}}
ZoneFMajorities == {{n1}, {n2, n3}}
ZoneSpread == {{n1, n3}}

\* the search is directed at the scenario: c1 hears n1 and n2 and repairs, n3
\* is sealed after that, c2 hears n2 and n3 only, and only then does the
\* appender hear of its stores
Scenario ==
    /\ phase[c2] \in {"idle", "gather"} /\ known[c2][n1] = Unknown /\ clientTail[c2] = OLDEST
    /\ phase[c1] \in {"idle", "gather", "repair"} /\ known[c1][n3] = Unknown
    /\ sealed[n3] => clientSealed[c1]
    /\ clientSealed[c2] \/ \A n \in Node : attr[OLDEST][n] = "none" /\ ~watchSealed[n]
=============================================================================
