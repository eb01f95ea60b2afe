----------------------------- MODULE LogServer ------------------------------
(***************************************************************************)
(* What a log server promises to the users of one loglet, without the      *)
(* worker, the writer queue and the waiters of LogletWorker: writes are    *)
(* atomic, durable and without holes, a store is acknowledged when it is   *)
(* durable or known to be committed elsewhere, and the seal ends both the  *)
(* writes and the acknowledgements of the sequencer.  Only the known       *)
(* global tail may go back, when the server restarts.                      *)
(***************************************************************************)
EXTENDS Naturals

CONSTANT MaxOffset      \* bound on the offsets of the loglet

Offset == 1 .. MaxOffset

TailOffset == 1 .. MaxOffset + 1

VARIABLES
    stored,         \* records that were ever durable, trimmed or not
    localTail, sealed,
    globalTail,     \* the known global tail
    committed,      \* the highest tail the server was ever told: true of the loglet
    acked           \* stores of the sequencer that were answered Ok

vars == <<stored, localTail, sealed, globalTail, committed, acked>>

Init ==
    /\ stored = {} /\ localTail = 1 /\ sealed = FALSE
    /\ globalTail = 1 /\ committed = 1
    /\ acked = {}

\* a request carries the tail t
Told(t) ==
    /\ globalTail' = IF t > globalTail THEN t ELSE globalTail
    /\ committed' = IF t > committed THEN t ELSE committed

\* a request that only carries a tail, or an Ok that does not wait for a write
Answer ==
    /\ \E t \in TailOffset : Told(t)
    /\ acked' = acked \/ \E o \in Offset : acked' = acked \cup {o}
    /\ sealed => acked' = acked
    /\ \A o \in acked' \ acked : o < localTail \/ o < globalTail'
    /\ UNCHANGED <<stored, localTail, sealed>>

\* answers to the stores that were waiting for a tail
Release ==
    /\ ~sealed
    /\ acked' \in SUBSET Offset /\ acked \subseteq acked'
    /\ \A o \in acked' \ acked : o < localTail \/ o < globalTail
    /\ UNCHANGED <<stored, localTail, sealed, globalTail, committed>>

\* W is written at once and perhaps with it the seal; S are the records of the
\* sequencer among them, which are answered Ok in the same step
Write ==
    /\ \E W \in SUBSET Offset, S \in SUBSET Offset :
         /\ S \subseteq W
         /\ sealed => S = {}
         /\ stored' = stored \cup W
         /\ acked' = acked \cup S
    /\ localTail' \in TailOffset /\ localTail' >= localTail
    /\ sealed' \in BOOLEAN /\ sealed => sealed'
    /\ \A o \in stored' : o < localTail'
    /\ \A o \in Offset : o < localTail' => o \in stored' \/ o < committed
    /\ UNCHANGED <<globalTail, committed>>

Restart ==
    /\ globalTail' \in TailOffset /\ globalTail' <= committed
    /\ UNCHANGED <<stored, localTail, sealed, committed, acked>>

Next == Answer \/ Release \/ Write \/ Restart

Spec == Init /\ [][Next]_vars
=============================================================================
