---------------------------- MODULE LogletWorker ----------------------------
(***************************************************************************)
(* A log server's part of one loglet: the LogletWorker task, the           *)
(* PendingWaiters it keeps and the log store writer it sends its writes to *)
(* (crates/log-server/src/loglet_worker.rs, rocksdb_logstore/writer.rs and *)
(* load_loglet_state of rocksdb_logstore/store.rs).                        *)
(*                                                                         *)
(* The worker handles one request at a time and hands writes to the writer *)
(* through a channel.  The writer commits batches and moves the local tail *)
(* watch, of which the worker learns some time later.  Writes that cannot  *)
(* be answered yet wait for a tail.  A failed commit disables the store,   *)
(* of which the worker also learns later; a crash loses all but the disk.  *)
(*                                                                         *)
(* Abstracted:                                                             *)
(*   - a store has one record; requests come in any order, any number of   *)
(*     times, from a sequencer and from repairs, and carry any tail;       *)
(*   - a reply that is not Ok has no effect on anyone here;                *)
(*   - the loglet has one sequencer, so SequencerMismatch does not occur;  *)
(*   - requests that only carry a tail (GetLogletInfo, GetRecords,         *)
(*     GetDigest, Release) are one action;                                 *)
(*   - the graceful stop of a worker (its log store stays the same).       *)
(***************************************************************************)
EXTENDS Naturals, Sequences, FiniteSets

CONSTANTS
    MaxOffset,      \* bound on the offsets of the loglet
    MaxQueue,       \* bound on the writes on their way to the writer (its memory pool)
    Queries,        \* kinds of WaitForTail queries that are sent
    MaxTrim         \* bound on the trim points that are asked for

ASSUME WorkerAssumption ==
    /\ MaxOffset \in Nat /\ MaxQueue \in Nat /\ MaxTrim \in 0 .. MaxOffset
    /\ Queries \subseteq {"local", "global", "either"}

OLDEST == 1

INVALID == 0

Offset == OLDEST .. MaxOffset

TailOffset == OLDEST .. MaxOffset + 1

VARIABLES
    \* the log store: durable records, seal, trim point and known global tail
    records, sealed, diskTrim, diskTail,
    \* the writer task and the channel to it, and whether the store has disabled writes
    writer, queue, disabled,
    \* LogletState: the local tail watch, and whether the worker has yet to see its last change
    localTail, tailChanged, trimPoint,
    \* LogletWorker
    globalTail, globalChanged, syncedTail, stagingTail, sealEnqueued, accepting,
    \* PendingWaiters: seals that joined the one in the queue, and all that wait for a tail
    sealJoined, waiters,
    \* events that became ready after the worker's select loop had polled them
    late,
    \* history: what the server was told and what it answered
    committed, acked, sealedAt, trimmed

diskVars   == <<records, sealed, diskTrim, diskTail>>
writerVars == <<writer, queue, disabled>>
stateVars  == <<localTail, tailChanged, trimPoint>>
globalVars == <<globalTail, globalChanged, committed>>
workerVars == <<syncedTail, stagingTail, sealEnqueued, accepting>>
waitVars   == <<sealJoined, waiters>>
answerVars == <<acked, sealedAt>>

vars == <<diskVars, writerVars, stateVars, globalVars, workerVars, waitVars, late, answerVars, trimmed>>

-----------------------------------------------------------------------------

Later(a, b) == IF a >= b THEN a ELSE b

Earlier(a, b) == IF a <= b THEN a ELSE b

IsMaximum(t, S) == t \in S /\ \A u \in S : u <= t

\* what waits for the local tail, and what waits for the global tail
LocalWaiters == {w \in waiters : w.kind \in {"local", "either", "store"}}

GlobalWaiters == {w \in waiters : w.kind \in {"global", "either", "store"}}

\* mutant: the tail of a waiter is taken for its offset
Stores_of_targets(W) == {w.target : w \in {v \in W : v.kind = "store"}}

\* a latched store waits for the tail after its record
Stores(W) == {w.target - 1 : w \in {v \in W : v.kind = "store"}}

\* the channel accepts commands
Enqueueable == accepting /\ writer \in {"running", "failing"}

Init ==
    /\ records = {} /\ sealed = FALSE /\ diskTrim = INVALID /\ diskTail = OLDEST
    /\ writer = "running" /\ queue = <<>> /\ disabled = FALSE
    /\ localTail = OLDEST /\ tailChanged = TRUE /\ trimPoint = INVALID
    /\ globalTail = OLDEST /\ globalChanged = TRUE
    /\ syncedTail = OLDEST /\ stagingTail = OLDEST
    /\ sealEnqueued = FALSE /\ accepting = TRUE
    /\ sealJoined = FALSE /\ waiters = {} /\ late = {}
    /\ committed = OLDEST /\ acked = {} /\ sealedAt = {} /\ trimmed = {}

-----------------------------------------------------------------------------
(* The select loop is biased: disabled writes come before requests to the    *)
(* meta service, those before tail changes, and those before stores.  Still, *)
(* a step may be taken although an earlier event is ready, if that event     *)
(* came after the loop had polled it.                                        *)

MetaTurn ==
    /\ disabled /\ accepting => "disabled" \in late
    /\ late' = {}

GlobalTurn == MetaTurn /\ (tailChanged => "local" \in late)

DataTurn == GlobalTurn /\ ~(globalChanged /\ GlobalWaiters # {})

-----------------------------------------------------------------------------
(* Requests.  Each begins with update_global_tail. *)

UpdateGlobalTail(t) ==
    /\ globalTail' = Later(globalTail, t)
    /\ globalChanged' = (globalChanged \/ t > globalTail)
    /\ committed' = Later(committed, t)

Enqueue(kind, offset) ==
    /\ Len(queue) < MaxQueue
    /\ queue' = Append(queue, [kind |-> kind, offset |-> offset])

\* a request of which nothing is left but the tail it carries: GetLogletInfo,
\* GetRecords, GetDigest, Release, whatever is answered at once, and a store that
\* is refused (Sealed, Disabled, OutOfBounds, Sealing or, too late, Dropped)
GetLogletInfo(t) ==
    /\ MetaTurn /\ t > globalTail
    /\ UpdateGlobalTail(t)
    /\ UNCHANGED <<diskVars, writerVars, stateVars, workerVars, waitVars, answerVars, trimmed>>

\* mutant: the first offset may skip one record
NextOk_skips_one(g) == Later(stagingTail, g) + 1

\* next_ok_offset
NextOk(g) == Later(stagingTail, g)

\* the checks of process_store that both kinds of stores have to pass
Admissible(o, isRepair) ==
    /\ isRepair \/ ~sealed
    /\ accepting
    /\ o <= NextOk(globalTail')

\* the record is already durable, or on its way: latch on to the write, or,
\* if a seal is on its way, to the seal that will reject the store
DuplicateStore(o, t) ==
    /\ DataTurn /\ UpdateGlobalTail(t)
    /\ Admissible(o, FALSE)
    /\ \/ /\ localTail > o
          /\ acked' = acked \cup {o}
          /\ UNCHANGED waiters
       \/ /\ localTail <= o
          /\ stagingTail > o \/ sealEnqueued
          /\ waiters' = waiters \cup {[kind |-> "store", target |-> o + 1]}
          /\ UNCHANGED acked
    /\ UNCHANGED <<diskVars, writerVars, stateVars, workerVars, sealJoined, sealedAt, trimmed>>

\* mutant: a repair does not wait for the seal, nor a store for anything
Writable_while_sealing(o, isRepair) == isRepair \/ stagingTail <= o

\* neither a duplicate nor in the way of a seal
Writable(o, isRepair) ==
    /\ isRepair \/ (localTail <= o /\ stagingTail <= o)
    /\ sealEnqueued => sealed

ProcessStore(o, t, isRepair) ==
    /\ DataTurn /\ UpdateGlobalTail(t)
    /\ Admissible(o, isRepair) /\ Writable(o, isRepair)
    /\ \/ /\ Enqueueable
          /\ Enqueue(IF isRepair THEN "repair" ELSE "store", o)
          /\ stagingTail' = Later(stagingTail, o + 1)
          /\ UNCHANGED accepting
       \/ /\ ~Enqueueable
          /\ accepting' = FALSE
          /\ UNCHANGED <<queue, stagingTail>>
    /\ UNCHANGED <<diskVars, writer, disabled, stateVars, syncedTail, sealEnqueued, waitVars,
                   answerVars, trimmed>>

ProcessSeal(t) ==
    /\ MetaTurn /\ UpdateGlobalTail(t)
    /\ \/ /\ sealed
          /\ sealEnqueued' = FALSE
          /\ sealedAt' = sealedAt \cup {localTail}
          /\ UNCHANGED <<queue, sealJoined>>
       \/ /\ ~sealed /\ sealEnqueued
          /\ sealJoined' = TRUE
          /\ UNCHANGED <<queue, sealEnqueued, sealedAt>>
       \/ /\ ~sealed /\ ~sealEnqueued
          /\ sealEnqueued' = Enqueueable
          /\ IF Enqueueable THEN Enqueue("seal", INVALID) ELSE UNCHANGED queue
          /\ UNCHANGED <<sealedAt, sealJoined>>
    /\ UNCHANGED <<diskVars, writer, disabled, stateVars, syncedTail, stagingTail, accepting,
                   waiters, acked, trimmed>>

\* the sender of a trim has clipped it to below the tail that the request carries
ProcessTrim(p, t) ==
    LET clipped == Earlier(p, localTail - 1)
    IN  /\ p < t
        /\ MetaTurn /\ UpdateGlobalTail(t)
        /\ trimPoint < clipped
        /\ trimPoint' = clipped
        /\ IF Enqueueable THEN Enqueue("trim", clipped) ELSE UNCHANGED queue
        /\ UNCHANGED <<diskVars, writer, disabled, localTail, tailChanged, workerVars, waitVars,
                       answerVars, trimmed>>

\* process_wait_for_tail, when the answer has to wait
WaitForTail(kind, target, t) ==
    /\ MetaTurn /\ UpdateGlobalTail(t)
    /\ ~sealed
    /\ kind # "global" => localTail < target
    /\ kind # "local" => globalTail' < target
    /\ waiters' = waiters \cup {[kind |-> kind, target |-> target]}
    /\ UNCHANGED <<diskVars, writerVars, stateVars, workerVars, sealJoined, answerVars, trimmed>>

-----------------------------------------------------------------------------
(* Events of the worker's select loop *)

\* mutant: whoever waits for the tail when the loglet gets sealed is told Ok
OnLocalTailChange_acks_all ==
    /\ MetaTurn /\ tailChanged /\ tailChanged' = FALSE
    /\ waiters' = {} /\ acked' = acked \cup Stores(LocalWaiters)
    /\ sealEnqueued' = (sealEnqueued /\ ~sealed)
    /\ sealJoined' = (sealJoined /\ ~sealed)
    /\ UNCHANGED <<diskVars, writerVars, localTail, trimPoint, globalVars, syncedTail, stagingTail,
                   accepting, sealedAt, trimmed>>

\* on_local_tail_change of the worker and of PendingWaiters
OnLocalTailChange ==
    LET resolved == {w \in LocalWaiters : w.target <= localTail}
    IN  /\ MetaTurn /\ tailChanged /\ tailChanged' = FALSE
        /\ \/ /\ sealed
              /\ sealEnqueued' = FALSE
              /\ stagingTail' = IF sealEnqueued THEN localTail ELSE stagingTail
              /\ sealJoined' = FALSE /\ waiters' = {}
              /\ sealedAt' = IF sealJoined THEN sealedAt \cup {localTail} ELSE sealedAt
              /\ UNCHANGED acked
           \/ /\ ~sealed
              /\ waiters' = waiters \ resolved
              /\ acked' = acked \cup Stores(resolved)
              /\ UNCHANGED <<sealEnqueued, stagingTail, sealJoined, sealedAt>>
        /\ UNCHANGED <<diskVars, writerVars, localTail, trimPoint, globalVars, syncedTail, accepting,
                       trimmed>>

OnGlobalTailChange ==
    LET resolved == {w \in GlobalWaiters : w.target <= globalTail}
    IN  /\ GlobalTurn /\ globalChanged /\ GlobalWaiters # {}
        /\ globalChanged' = FALSE
        /\ waiters' = waiters \ resolved
        /\ acked' = IF sealed THEN acked ELSE acked \cup Stores(resolved)
        /\ UNCHANGED <<diskVars, writerVars, stateVars, globalTail, committed, workerVars,
                       sealJoined, sealedAt, trimmed>>

\* mutant: the seals that joined are forgotten
OnWritesDisabled_keeps_seals ==
    /\ disabled /\ accepting /\ late' = {}
    /\ accepting' = FALSE /\ stagingTail' = localTail /\ sealEnqueued' = FALSE
    /\ UNCHANGED <<diskVars, writerVars, stateVars, globalVars, syncedTail, waitVars, answerVars,
                   trimmed>>

\* the waiters whose tail was reached are answered, then the seals and those
\* who wait for the local tail only are told that writes are disabled
OnWritesDisabled ==
    LET reached == {w \in waiters : \/ sealed
                                    \/ w \in GlobalWaiters /\ w.target <= globalTail
                                    \/ w \in LocalWaiters /\ w.target <= localTail}
    IN  /\ disabled /\ accepting /\ late' = {}
        /\ accepting' = FALSE
        /\ waiters' = {w \in waiters \ reached : w.kind # "local"}
        /\ acked' = IF sealed THEN acked ELSE acked \cup Stores(reached)
        /\ sealedAt' = IF sealJoined /\ sealed THEN sealedAt \cup {localTail} ELSE sealedAt
        /\ stagingTail' = localTail /\ sealEnqueued' = FALSE /\ sealJoined' = FALSE
        /\ UNCHANGED <<diskVars, writerVars, stateVars, globalVars, syncedTail, trimmed>>

PersistGlobalTail ==
    /\ DataTurn /\ accepting /\ globalTail > syncedTail
    /\ syncedTail' = globalTail
    /\ IF Enqueueable THEN Enqueue("sync", globalTail) ELSE UNCHANGED queue
    /\ UNCHANGED <<diskVars, writer, disabled, stateVars, globalVars, stagingTail, sealEnqueued,
                   accepting, waitVars, answerVars, trimmed>>

-----------------------------------------------------------------------------
(* The writer *)

\* commit: the first k commands become durable at once, then the watch moves,
\* then the tasks are answered
Commit(k) ==
    LET Is(i, kinds) == queue[i].kind \in kinds
        written == {queue[i].offset : i \in {j \in 1 .. k : Is(j, {"store", "repair"})}}
        cut(o, i) == \E j \in i + 1 .. k : Is(j, {"trim"}) /\ o <= queue[j].offset
        seals == \E i \in 1 .. k : Is(i, {"seal"})
        kept == {o \in Offset :
                   \/ o \in records /\ ~cut(o, 0)
                   \/ \E i \in 1 .. k : Is(i, {"store", "repair"}) /\ queue[i].offset = o /\ ~cut(o, i)}
    IN  /\ writer \in {"running", "draining"}
        /\ queue' = SubSeq(queue, k + 1, Len(queue))
        /\ records' = kept
        /\ trimmed' = trimmed \cup ((records \cup written) \ kept)
        /\ sealed' = (sealed \/ seals)
        /\ \E t \in TailOffset : /\ IsMaximum(t, {localTail} \cup {o + 1 : o \in written})
                           /\ localTail' = t
        /\ tailChanged' = (tailChanged \/ localTail' # localTail \/ sealed' # sealed)
        /\ late' = IF tailChanged' /\ ~tailChanged THEN late \cup {"local"} ELSE late
        /\ \E p \in 0 .. MaxOffset :
             /\ IsMaximum(p, {diskTrim} \cup {queue[i].offset : i \in {j \in 1 .. k : Is(j, {"trim"})}})
             /\ diskTrim' = p
        /\ \E g \in TailOffset :
             /\ IsMaximum(g, {diskTail} \cup {queue[i].offset : i \in {j \in 1 .. k : Is(j, {"sync"})}})
             /\ diskTail' = g
        /\ acked' = acked \cup {queue[i].offset : i \in {j \in 1 .. k : Is(j, {"store"})}}
        /\ sealedAt' = IF seals THEN sealedAt \cup {localTail'} ELSE sealedAt
        /\ UNCHANGED <<writer, disabled, trimPoint, globalVars, workerVars, waitVars>>

\* the write fails: writes are disabled, the tasks of the batch are dropped ...
CommitFails(k) ==
    /\ writer \in {"running", "draining"}
    /\ writer' = "failing" /\ disabled' = TRUE /\ late' = late \cup {"disabled"}
    /\ queue' = SubSeq(queue, k + 1, Len(queue))
    /\ UNCHANGED <<diskVars, stateVars, globalVars, workerVars, waitVars, answerVars, trimmed>>

\* ... and with the end of the writer all commands that are left
WriterStops ==
    /\ writer = "failing" \/ (writer = "draining" /\ queue = <<>>)
    /\ writer' = "stopped" /\ disabled' = TRUE /\ queue' = <<>>
    /\ late' = IF disabled THEN late ELSE late \cup {"disabled"}
    /\ UNCHANGED <<diskVars, stateVars, globalVars, workerVars, waitVars, answerVars, trimmed>>

\* the node shuts down: the channel is closed, what it holds is still committed
Shutdown ==
    /\ writer = "running" /\ writer' = "draining"
    /\ UNCHANGED <<diskVars, queue, disabled, stateVars, globalVars, workerVars, waitVars, late,
                   answerVars, trimmed>>

\* mutant: the trim point is ignored when the records are gone
RecoveredTail_without_trim(t) == IsMaximum(t, {OLDEST} \cup {o + 1 : o \in records})

\* the local tail that load_loglet_state finds
RecoveredTail(t) == IsMaximum(t, {OLDEST, diskTrim + 1} \cup {o + 1 : o \in records})

\* the node crashes and starts again: load_loglet_state and LogletWorker::start
Crash ==
    /\ \E t \in TailOffset : RecoveredTail(t) /\ localTail' = t /\ stagingTail' = t
    /\ globalTail' = Later(diskTail, diskTrim + 1) /\ syncedTail' = globalTail'
    /\ trimPoint' = diskTrim
    /\ writer' = "running" /\ queue' = <<>> /\ disabled' = FALSE
    /\ tailChanged' = TRUE /\ globalChanged' = TRUE
    /\ sealEnqueued' = FALSE /\ accepting' = TRUE
    /\ sealJoined' = FALSE /\ waiters' = {} /\ late' = {}
    /\ UNCHANGED <<diskVars, committed, answerVars, trimmed>>

-----------------------------------------------------------------------------

Requests ==
    \E t \in TailOffset :
        \/ GetLogletInfo(t) \/ ProcessSeal(t)
        \/ \E o \in Offset : \/ DuplicateStore(o, t)
                             \/ \E isRepair \in BOOLEAN : ProcessStore(o, t, isRepair)
        \/ \E p \in 1 .. MaxTrim : ProcessTrim(p, t)
        \/ \E q \in Queries, target \in TailOffset : WaitForTail(q, target, t)

Worker == OnLocalTailChange \/ OnGlobalTailChange \/ OnWritesDisabled \/ PersistGlobalTail

Writer ==
    \/ \E k \in 1 .. Len(queue) : Commit(k) \/ CommitFails(k)
    \/ WriterStops \/ Shutdown

Next == Requests \/ Worker \/ Writer \/ Crash

Spec == Init /\ [][Next]_vars

\* the worker and the writer are tasks of the node: their loops are polled
\* whenever an event is ready, and a write to RocksDB ends, well or badly
FairSpec ==
    /\ Spec
    /\ WF_vars(OnLocalTailChange) /\ WF_vars(OnGlobalTailChange) /\ WF_vars(OnWritesDisabled)
    /\ WF_vars(\E k \in 1 .. Len(queue) : Commit(k) \/ CommitFails(k))
    /\ WF_vars(WriterStops)

-----------------------------------------------------------------------------

Command == [kind : {"store", "repair", "seal", "trim", "sync"}, offset : 0 .. MaxOffset + 1]

Waiter == [kind : {"store", "local", "global", "either"}, target : TailOffset]

(* TypeOK: the shape of the state. *)
TypeOK ==
    /\ records \subseteq Offset /\ sealed \in BOOLEAN
    /\ diskTrim \in 0 .. MaxOffset /\ diskTail \in TailOffset
    /\ writer \in {"running", "draining", "failing", "stopped"} /\ disabled \in BOOLEAN
    /\ queue \in Seq(Command) /\ Len(queue) <= MaxQueue
    /\ localTail \in TailOffset /\ tailChanged \in BOOLEAN /\ trimPoint \in 0 .. MaxOffset
    /\ globalTail \in TailOffset /\ globalChanged \in BOOLEAN /\ syncedTail \in TailOffset
    /\ stagingTail \in TailOffset /\ sealEnqueued \in BOOLEAN /\ accepting \in BOOLEAN
    /\ sealJoined \in BOOLEAN /\ waiters \subseteq Waiter /\ late \subseteq {"disabled", "local"}
    /\ committed \in TailOffset
    /\ acked \subseteq Offset /\ sealedAt \subseteq TailOffset /\ trimmed \subseteq Offset

\* the record is on this server, was trimmed from it, or is committed elsewhere
Safe(o) == o \in records \cup trimmed \/ o < committed

(* AckedStoresSurvive: a store that was answered Ok, by the writer after    *)
(* its commit, by the worker for a duplicate, or by the worker for a store  *)
(* that was latched on to somebody else's write or to a seal, is durable    *)
(* here or known to be committed, whatever failed or crashed since.         *)
AckedStoresSurvive == \A o \in acked : Safe(o)

(* NoHoles: below the local tail that the server reports, every record is   *)
(* here or known to be committed, although stores are accepted against the  *)
(* staging tail, ahead of the disk, and against the known global tail.      *)
NoHoles == \A o \in Offset : o < localTail => Safe(o)

(* SealIsFinal: when a Seal request was answered Ok with local tail t, no   *)
(* store of the sequencer at or above t is ever answered Ok, unless it is   *)
(* known to be committed elsewhere.                                         *)
SealIsFinal == \A t \in sealedAt, o \in acked : o < t \/ o < committed

Abstract == INSTANCE LogServer WITH stored <- records \cup trimmed

(* ImplementsLogServer: the worker with its queue, its watches and its      *)
(* waiters implements the atomic log server: the seal ends the sequencer's  *)
(* writes and acknowledgements at one point, and the local tail and the     *)
(* seal survive crashes.                                                    *)
ImplementsLogServer == Abstract!Spec

(* SealsAreAnswered: a Seal request that joined the seal in the queue gets  *)
(* an answer, also when the log store fails before the seal is durable.     *)
SealsAreAnswered == sealJoined ~> ~sealJoined
=============================================================================
