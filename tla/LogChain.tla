------------------------------ MODULE LogChain ------------------------------
(***************************************************************************)
(* A log of bifrost: a chain of segments, each of them a loglet, in the    *)
(* Logs value of the metadata store.  Processes work on cached copies of   *)
(* Logs; their tasks append, find the tail, seal the chain, extend it with *)
(* a new segment and trim it, and hand their changes to the log chain      *)
(* writer of their process, which applies them with a compare-and-swap.    *)
(*                                                                         *)
(* A loglet is what Loglet (loglet.rs) promises and ReplicatedLoglet       *)
(* provides: after it was sealed, find_tail may report any sealed tail     *)
(* that covers the acknowledged appends, not always the same one, and no   *)
(* append at or above a sealed tail that was reported is acknowledged.     *)
(*                                                                         *)
(* find_tail is the consistent one (FindTailOptions::ConsistentRead).  The  *)
(* trim points of the segments are read in one step (get_trim_point).      *)
(*                                                                         *)
(* Left out: the creation of the log (add_log), permanent seals and forced *)
(* tails, which only an operator asks for, batches of records, and reads.  *)
(***************************************************************************)
EXTENDS Chains, Sequences

CONSTANTS
    Process,        \* nodes that run bifrost
    Task,           \* concurrent calls into bifrost
    Home,           \* the process of every task
    Ops,            \* the calls that are made: "extend", "seal", "tail", "trim"
    TrimRequests,   \* trim points that are asked for, each of them once
    MaxVersion,     \* bound on the versions of Logs
    MaxLsn          \* bound on the LSN after the last record

ASSUME ChainAssumption ==
    /\ Home \in [Task -> Process]
    /\ Ops \subseteq {"extend", "seal", "tail", "trim"}
    /\ MaxVersion \in Nat \ {0} /\ MaxLsn \in Nat \ {0}
    /\ TrimRequests \subseteq Nat

Index == 0 .. MaxVersion - 1

Lsn == OLDEST .. MaxLsn

Offset == OLDEST .. MaxLsn

VARIABLES
    versions,   \* Logs of the metadata store: the chain at every version
    view,       \* the version of Logs that a process has cached
    queue,      \* commands that wait for the log chain writer of a process
    task,       \* what a task is doing
    cache,      \* the loglet wrapper of a process's appender
    tail,       \* loglet of a segment index: the offset after its last acknowledged record,
    sealed,     \* whether seal() has succeeded,
    bound,      \* the lowest sealed tail that find_tail has reported,
    trimPoint,  \* and its trim point
    acked,      \* history: LSN and segment of the acknowledged records
    trims,      \* history: the trim points that were asked for
    answers     \* history: the sealed tails that find_tail has returned to its callers

chainVars == <<versions, view>>
logletVars == <<tail, sealed, bound, trimPoint>>
history == <<acked, trims, answers>>

vars == <<chainVars, queue, task, cache, logletVars, history>>

-----------------------------------------------------------------------------

Latest == Len(versions)

View(p) == versions[view[p]]

\* tail_loglet, the wrapper of the tail segment in the cached Logs
TailLoglet(p) ==
    LET last == TailBase(View(p))
    IN  [base |-> last, index |-> View(p)[last].index, marker |-> View(p)[last].marker]

NoLoglet == [base |-> INVALID, index |-> -1, marker |-> FALSE]

Idle == [op |-> "none", step |-> "idle", seg |-> -1, lsn |-> INVALID, ver |-> 0,
         loglet |-> NoLoglet]

\* bound of a loglet of which no sealed tail was reported
Unbounded == MaxLsn

Init ==
    /\ versions = <<[b \in {OLDEST} |-> Loglet(0)]>>
    /\ view = [p \in Process |-> 1]
    /\ queue = [p \in Process |-> <<>>]
    /\ task = [t \in Task |-> Idle]
    /\ cache = [p \in Process |-> [base |-> OLDEST, index |-> 0, marker |-> FALSE]]
    /\ tail = [i \in Index |-> OLDEST]
    /\ sealed = [i \in Index |-> FALSE]
    /\ bound = [i \in Index |-> Unbounded]
    /\ trimPoint = [i \in Index |-> INVALID]
    /\ acked = {} /\ trims = {} /\ answers = {}

-----------------------------------------------------------------------------
(* Metadata and the log chain writer *)

\* the metadata manager learns of a newer version of Logs
SyncMetadata(p) ==
    /\ \E v \in view[p] + 1 .. Latest : view' = [view EXCEPT ![p] = v]
    /\ UNCHANGED <<versions, queue, task, cache, logletVars, history>>

\* read_modify_write of a batch of k commands: the modification is of the cached
\* Logs, and the store takes it only if that is still the latest version
CompareAndSwap(p, k) ==
    /\ Latest < MaxVersion
    /\ view[p] = Latest
    /\ versions' = Append(versions, ApplyBatch(View(p), SubSeq(queue[p], 1, k)))

\* the commands of the batch are answered
CompleteBatch(p, k) ==
    /\ queue' = [queue EXCEPT ![p] = SubSeq(@, k + 1, Len(@))]
    /\ task' = [t \in Task |-> IF \E c \in 1 .. k : queue[p][c].task = {t}
                               THEN Idle ELSE task[t]]

\* run_inner: a batch of the commands that have come is written (here a retry
\* may take more of them than the first attempt) ...
WriteBatch(p) ==
    \E k \in 1 .. Len(queue[p]) :
        /\ CompareAndSwap(p, k)
        /\ view' = [view EXCEPT ![p] = Latest + 1]
        /\ CompleteBatch(p, k)
        /\ UNCHANGED <<cache, logletVars, history>>

\* ... or the answer of the store is lost and it will be written again ...
WriteUnacknowledged(p) ==
    \E k \in 1 .. Len(queue[p]) :
        /\ CompareAndSwap(p, k)
        /\ UNCHANGED <<view, queue, task, cache, logletVars, history>>

\* ... or the retries are exhausted
WriteFails(p) ==
    \E k \in 1 .. Len(queue[p]) :
        /\ CompleteBatch(p, k)
        /\ UNCHANGED <<chainVars, cache, logletVars, history>>

Send(t, op, seg, lsn, waiting) ==
    queue' = [queue EXCEPT ![Home[t]] =
                 Append(@, [op |-> op, seg |-> seg, lsn |-> lsn, task |-> waiting])]

-----------------------------------------------------------------------------
(* Appender *)

\* append_batch_erased: the cached loglet acknowledges an append, whatever has
\* happened to the chain since.  An appender that starts later, with the tail
\* loglet, is one that has found that segment with NewSegmentDetected.
AppendRecord(p) ==
    LET i == cache[p].index
        lsn == OffsetBy(cache[p].base, tail[i])
    IN  /\ ~cache[p].marker
        /\ tail[i] < bound[i] /\ lsn < MaxLsn
        /\ tail' = [tail EXCEPT ![i] = @ + 1]
        /\ acked' = acked \cup {[lsn |-> lsn, index |-> i]}
        /\ UNCHANGED <<chainVars, queue, task, cache, sealed, bound, trimPoint, trims, answers>>

\* the append failed, because of a seal or otherwise, and on_sealed_loglet or
\* perform_reconfiguration finds that the chain has a later segment
NewSegmentDetected(p) ==
    /\ TailLoglet(p).index > cache[p].index
    /\ cache' = [cache EXCEPT ![p] = TailLoglet(p)]
    /\ UNCHANGED <<chainVars, queue, task, logletVars, history>>

-----------------------------------------------------------------------------
(* BifrostAdmin *)

\* seal_and_auto_extend_chain and seal_and_extend_chain (of the tail segment,
\* or of the appender's), and seal (an operator's or a reader's)
StartAdmin(t) ==
    LET p == Home[t] IN
    /\ task[t] = Idle
    /\ \E op \in Ops \cap {"extend", "seal"},
          seg \in {TailIndex(View(p)), cache[p].index} :
           task' = [task EXCEPT ![t] = [Idle EXCEPT !.op = op, !.step = "seal", !.seg = seg]]
    /\ UNCHANGED <<chainVars, queue, cache, logletVars, history>>

\* seal_inner: the tail segment must still be the expected one; seal its loglet
SealLoglet(t) ==
    LET loglet == TailLoglet(Home[t]) IN
    /\ task[t].step = "seal" /\ loglet.index = task[t].seg
    /\ sealed' = IF loglet.marker THEN sealed ELSE [sealed EXCEPT ![loglet.index] = TRUE]
    /\ task' = [task EXCEPT ![t] = [@ EXCEPT !.step = "find", !.loglet = loglet]]
    /\ UNCHANGED <<chainVars, queue, cache, tail, bound, trimPoint, history>>

\* SegmentMismatch, or the loglet could not be sealed
SealFails(t) ==
    /\ task[t].step = "seal"
    /\ task' = [task EXCEPT ![t] = Idle]
    /\ UNCHANGED <<chainVars, queue, cache, logletVars, history>>

\* find_tail of a loglet reports Sealed(offset)
ReportSealed(loglet, offset) ==
    IF loglet.marker
    THEN offset = OLDEST /\ UNCHANGED bound
    ELSE /\ sealed[loglet.index]
         /\ offset >= tail[loglet.index] /\ OffsetBy(loglet.base, offset) <= MaxLsn
         /\ bound' = [bound EXCEPT ![loglet.index] = IF offset < @ THEN offset ELSE @]

\* seal_inner has the sealed tail: extend_log_chain or seal_log_chain
FoundSealed(t) ==
    /\ task[t].step = "find"
    /\ \E offset \in Offset :
          /\ ReportSealed(task[t].loglet, offset)
          /\ Send(t, task[t].op, task[t].seg, OffsetBy(task[t].loglet.base, offset), {t})
    /\ task' = [task EXCEPT ![t] = [Idle EXCEPT !.step = "wait"]]
    /\ UNCHANGED <<chainVars, cache, tail, sealed, trimPoint, history>>

\* it is not sealed yet, or find_tail failed: an extension tries again, a
\* seal fails with ChainSealIncomplete
FoundOpen(t) ==
    /\ task[t].step = "find" /\ ~task[t].loglet.marker
    /\ task' = [task EXCEPT ![t] = IF @.op = "extend"
                                   THEN [@ EXCEPT !.step = "seal", !.loglet = NoLoglet]
                                   ELSE Idle]
    /\ UNCHANGED <<chainVars, queue, cache, logletVars, history>>

-----------------------------------------------------------------------------
(* Bifrost: find_tail and trim *)

\* find_tail asks the tail loglet of the cached Logs for its tail; its retries,
\* which keep nothing of the earlier rounds, are calls of their own
FindTail(t) ==
    /\ task[t] = Idle /\ "tail" \in Ops
    /\ task' = [task EXCEPT ![t] = [Idle EXCEPT !.op = "tail", !.step = "ask",
                                                !.loglet = TailLoglet(Home[t])]]
    /\ UNCHANGED <<chainVars, queue, cache, logletVars, history>>

\* mutant: the tail of a sealed loglet is the tail of the log
TailSealed_without_chain(t) ==
    LET loglet == task[t].loglet IN
    /\ task[t].step = "ask"
    /\ \E offset \in Offset :
          /\ ReportSealed(loglet, offset)
          /\ answers' = answers \cup {[lsn |-> OffsetBy(loglet.base, offset), index |-> loglet.index]}
    /\ task' = [task EXCEPT ![t] = Idle]
    /\ UNCHANGED <<chainVars, queue, cache, tail, sealed, trimPoint, acked, trims>>

\* it is sealed: return its tail if the chain is sealed too, else seal the chain
\* (BifrostAdmin::seal) and start again
TailSealed(t) ==
    LET loglet == task[t].loglet IN
    /\ task[t].step = "ask"
    /\ \E offset \in Offset : ReportSealed(loglet, offset)
    /\ IF loglet.marker
       THEN /\ answers' = answers \cup {[lsn |-> loglet.base, index |-> loglet.index]}
            /\ task' = [task EXCEPT ![t] = Idle]
       ELSE /\ task' = [task EXCEPT ![t] = [Idle EXCEPT !.op = "seal", !.step = "seal",
                                                             !.seg = loglet.index]]
            /\ UNCHANGED answers
    /\ UNCHANGED <<chainVars, queue, cache, tail, sealed, trimPoint, acked, trims>>

\* it is open and its tail is returned, or find_tail of the loglet fails
TailOpen(t) ==
    /\ task[t].step = "ask" /\ ~task[t].loglet.marker
    /\ task' = [task EXCEPT ![t] = Idle]
    /\ UNCHANGED <<chainVars, queue, cache, logletVars, history>>

\* trim walks over the segments of the Logs that it has read
Trim(t) ==
    /\ task[t] = Idle /\ "trim" \in Ops
    /\ \E lsn \in TrimRequests \ trims :
          /\ task' = [task EXCEPT ![t] = [Idle EXCEPT !.op = "trim", !.step = "trim", !.lsn = lsn,
                                                      !.ver = view[Home[t]]]]
          /\ trims' = trims \cup {lsn}
    /\ UNCHANGED <<chainVars, queue, cache, logletVars, acked, answers>>

\* the segments it has still to visit
Remaining(t) ==
    {b \in DOMAIN versions[task[t].ver] : task[t].loglet.base < b /\ b <= task[t].lsn}

\* one segment: the trim point is clipped to the global tail this process knows of
TrimSegment(t) ==
    LET base == Min(Remaining(t))
        segment == versions[task[t].ver][base]
        i == segment.index
    IN  /\ task[t].step = "trim" /\ Remaining(t) # {}
        /\ IF segment.marker
           THEN UNCHANGED trimPoint
           ELSE \E known \in OLDEST .. tail[i] :
                   LET point == Min({IntoOffset(task[t].lsn, base), known - 1})
                   IN  trimPoint' = [trimPoint EXCEPT ![i] = Max({@, point})]
        /\ task' = [task EXCEPT ![t] = [@ EXCEPT !.loglet = [NoLoglet EXCEPT !.base = base]]]
        /\ UNCHANGED <<chainVars, queue, cache, tail, sealed, bound, history>>

\* trim of a segment fails and so does the call
TrimFails(t) ==
    /\ task[t].step = "trim"
    /\ task' = [task EXCEPT ![t] = Idle]
    /\ UNCHANGED <<chainVars, queue, cache, logletVars, history>>

\* LogTrimmed: the watchdog reads the trim point and has the chain trimmed to it
LogTrimmed(t) ==
    LET point == GetTrimPoint(View(Home[t]), trimPoint) IN
    /\ task[t].step = "trim" /\ Remaining(t) = {}
    /\ IF point # INVALID THEN Send(t, "trim", -1, point, {}) ELSE UNCHANGED queue
    /\ task' = [task EXCEPT ![t] = Idle]
    /\ UNCHANGED <<chainVars, cache, logletVars, history>>

-----------------------------------------------------------------------------

ProcessNext(p) ==
    \/ SyncMetadata(p) \/ WriteBatch(p) \/ WriteUnacknowledged(p) \/ WriteFails(p)
    \/ AppendRecord(p) \/ NewSegmentDetected(p)

TaskNext(t) ==
    \/ StartAdmin(t) \/ SealLoglet(t) \/ SealFails(t) \/ FoundSealed(t) \/ FoundOpen(t)
    \/ FindTail(t) \/ TailSealed(t) \/ TailOpen(t)
    \/ Trim(t) \/ TrimSegment(t) \/ TrimFails(t) \/ LogTrimmed(t)

Next == (\E p \in Process : ProcessNext(p)) \/ (\E t \in Task : TaskNext(t))

Spec == Init /\ [][Next]_vars

-----------------------------------------------------------------------------

IsChain(chain) ==
    /\ DOMAIN chain # {} /\ DOMAIN chain \subseteq Lsn
    /\ \A b \in DOMAIN chain : chain[b] \in [index : Index, marker : BOOLEAN]

\* The type of every variable: in particular a chain always keeps a segment
\* (trim_prefix protects the tail segment), and every LSN that a command, a
\* wrapper or a chain holds is a valid one.
TypeOK ==
    /\ Latest \in 1 .. MaxVersion /\ \A v \in 1 .. Latest : IsChain(versions[v])
    /\ view \in [Process -> 1 .. Latest]
    /\ \A p \in Process : \A c \in Range(queue[p]) : c.lsn \in Lsn /\ c.seg \in Index \cup {-1}
    /\ cache \in [Process -> [base : Lsn, index : Index, marker : BOOLEAN]]
    /\ \A t \in Task : task[t].seg \in Index \cup {-1} /\ task[t].ver \in 0 .. Latest
    /\ tail \in [Index -> Offset] /\ sealed \in [Index -> BOOLEAN]
    /\ bound \in [Index -> Offset] /\ trimPoint \in [Index -> Offset \cup {INVALID}]
    /\ acked \subseteq [lsn : Lsn, index : Index] /\ answers \subseteq [lsn : Lsn, index : Index]

\* An acknowledged record stays readable: unless a trim up to its LSN was asked
\* for, the latest chain leads from its LSN to the segment that holds it and to
\* no other, however processes with different caches raced to seal, extend
\* and trim the chain (find_segment_for_lsn, append_segment, trim_prefix).
AckedRecordsReadable ==
    \A r \in acked :
        (\A lsn \in trims : lsn < r.lsn) =>
            LET chain == versions[Latest]
                base == SegmentFor(chain, r.lsn)
            IN  base # INVALID /\ chain[base] = Loglet(r.index)

\* A sealed tail that find_tail has returned separates the log for good: what
\* earlier segments acknowledge, even later, is below it, and what later
\* segments acknowledge is not (find_tail seals the chain before it answers).
SealedAnswersSeparate ==
    \A a \in answers, r \in acked : r.index <= a.index <=> r.lsn < a.lsn

\* Once a version of Logs has a segment with an end, that segment is a loglet,
\* and every later version has it with the same end, or starts after it once it
\* is trimmed: a reader may finish a closed segment with whatever version it has
\* cached, and never gets stuck at a seal marker that is not the tail.
VersionsAgree ==
    \A v \in 1 .. Latest : \A b \in DOMAIN versions[v] :
        LET later == {c \in DOMAIN versions[v] : c > b} IN
        later # {} =>
            /\ ~versions[v][b].marker
            /\ \A w \in v + 1 .. Latest :
                  LET new == versions[w] IN
                  \/ \A c \in DOMAIN new : \E e \in later : c >= e
                  \/ /\ b \in DOMAIN new /\ new[b] = versions[v][b]
                     /\ \E e \in later \cap DOMAIN new :
                           \A c \in later \cup DOMAIN new : c <= b \/ c >= e
=============================================================================
