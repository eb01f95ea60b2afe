----------------------------- MODULE ReadStream -----------------------------
(***************************************************************************)
(* A reader of a log (bifrost/src/read_stream.rs): LogReadStream hands out *)
(* the records of the log in the order of their LSNs, across the segments  *)
(* of a chain that is sealed, extended and trimmed under it.  It works on  *)
(* what its node knows: a cached version of Logs, and for every loglet the *)
(* known global tail (TailOffsetWatch).                                    *)
(*                                                                         *)
(* A step of the reader is one round of the loop of poll_next.  A round    *)
(* that returns Pending parks the reader with the wakers that it has       *)
(* registered; it is polled again only when one of them fires.             *)
(*                                                                         *)
(* The log around it is LogChain with its races resolved: a change of the  *)
(* chain is one step on the latest version (the compare-and-swap), a       *)
(* loglet is what ReplicatedLoglet provides.  Once it is sealed, find_tail *)
(* reports a tail that covers the acknowledged appends and the tails       *)
(* reported before, but a later call may report a higher one, and the      *)
(* records below it are in the loglet all the same.                        *)
(*                                                                         *)
(* The substream (read_stream_task.rs) has the records below the known     *)
(* global tail of its node; where it fetches them from, its read-ahead and *)
(* the record cache are left out, as are filters, the end of a bounded     *)
(* stream, errors (which end the stream) and shutdown.                     *)
(***************************************************************************)
EXTENDS Chains, Sequences

CONSTANTS
    MaxLsn,             \* bound on the LSN after the last record
    MaxIndex,           \* bound on the segment indexes
    MaxTrim,            \* the highest trim point that is asked for
    OpenTailsBounded    \* whether a node that does not know of the seal keeps below the sealed tail

ASSUME ReadStreamAssumption ==
    /\ MaxLsn \in Nat \ {0} /\ MaxIndex \in Nat
    /\ MaxTrim \in Nat
    /\ OpenTailsBounded \in BOOLEAN

Index == 0 .. MaxIndex

Lsn == OLDEST .. MaxLsn

VARIABLES
    \* Logs of the metadata store, and the version that the reader's node has cached
    versions, view,
    \* loglet of a segment index: where it starts, the offset after its last acknowledged
    \* record, whether it is sealed, the lowest and the highest tail that was reported with
    \* the seal (or the tail), its trim point
    base, tail, sealed, bound, top, trimPoint,
    \* TailOffsetWatch of every loglet on the reader's node
    known, knownSealed,
    \* the reader: State, read_pointer, the wrapper of the substream, safe_known_tail,
    \* whether tail_watch has a value to yield, and the registered wakers
    state, readPointer, substream, safeKnownTail, tailChanged, wakers,
    \* history: the records that were handed out
    delivered

chainVars == <<versions, view>>
logletVars == <<base, tail, sealed, bound, top, trimPoint>>
watchVars == <<known, knownSealed>>
streamVars == <<readPointer, substream, safeKnownTail, delivered>>

vars == <<chainVars, logletVars, watchVars, streamVars, state, tailChanged, wakers>>

-----------------------------------------------------------------------------

Latest == Len(versions)

Chain == versions[Latest]

View == versions[view]

Unbounded == MaxLsn + 1

NoSubstream == [base |-> INVALID, index |-> -1, marker |-> FALSE, end |-> INVALID]

Init ==
    /\ versions = <<[b \in {OLDEST} |-> Loglet(0)]>> /\ view = 1
    /\ base = [i \in Index |-> IF i = 0 THEN OLDEST ELSE INVALID]
    /\ tail = [i \in Index |-> OLDEST] /\ top = [i \in Index |-> OLDEST]
    /\ sealed = [i \in Index |-> FALSE] /\ bound = [i \in Index |-> Unbounded]
    /\ trimPoint = [i \in Index |-> INVALID]
    /\ known = [i \in Index |-> OLDEST] /\ knownSealed = [i \in Index |-> FALSE]
    /\ state = "FindingLoglet" /\ readPointer = OLDEST /\ substream = NoSubstream
    /\ safeKnownTail = INVALID /\ tailChanged = FALSE
    /\ wakers = {} /\ delivered = {}

-----------------------------------------------------------------------------
(* The log: other processes append, seal, extend and trim *)

\* an append is acknowledged, perhaps by a loglet that is no longer the last one
AppendRecord(i) ==
    /\ base[i] # INVALID
    /\ tail[i] < bound[i] /\ OffsetBy(base[i], tail[i]) < MaxLsn
    /\ tail' = [tail EXCEPT ![i] = @ + 1]
    /\ top' = [top EXCEPT ![i] = Max({@, tail[i] + 1})]
    /\ UNCHANGED <<chainVars, base, sealed, bound, trimPoint, watchVars, streamVars,
                   state, tailChanged, wakers>>

\* seal() of the tail loglet succeeds
SealLoglet ==
    LET i == TailIndex(Chain) IN
    /\ ~sealed[i]
    /\ sealed' = [sealed EXCEPT ![i] = TRUE]
    /\ UNCHANGED <<chainVars, base, tail, bound, top, trimPoint, watchVars, streamVars,
                   state, tailChanged, wakers>>

\* find_tail of some process finds a record that was never acknowledged, and repairs it
RepairTail(i) ==
    /\ sealed[i] /\ OffsetBy(base[i], top[i]) < MaxLsn
    /\ top' = [top EXCEPT ![i] = @ + 1]
    /\ UNCHANGED <<chainVars, base, tail, sealed, bound, trimPoint, watchVars, streamVars, state,
                   tailChanged, wakers>>

\* find_tail of a loglet reports Sealed(top): nothing is acknowledged at or above it
ReportSealed(i) == bound' = [bound EXCEPT ![i] = Min({@, top[i]})]

ChangeLogs(cmd) ==
    /\ Apply(Chain, cmd) # Chain
    /\ versions' = Append(versions, Apply(Chain, cmd))

\* BifrostAdmin::seal by another process
SealChain ==
    LET i == TailIndex(Chain) IN
    /\ sealed[i] /\ ~IsSealed(Chain)
    /\ ReportSealed(i)
    /\ ChangeLogs([op |-> "seal", seg |-> i, lsn |-> OffsetBy(base[i], top[i])])
    /\ UNCHANGED <<view, base, tail, sealed, top, trimPoint, watchVars, streamVars, state,
                   tailChanged, wakers>>

\* seal_and_extend_chain: the new segment starts at the sealed tail or replaces the marker
ExtendChain ==
    LET i == TailIndex(Chain) IN
    /\ i < MaxIndex /\ sealed[i]
    /\ LET lsn == IF IsSealed(Chain) THEN TailBase(Chain) ELSE OffsetBy(base[i], top[i])
       IN  /\ ChangeLogs([op |-> "extend", seg |-> i, lsn |-> lsn])
           /\ base' = [base EXCEPT ![i + 1] = lsn]
    /\ IF IsSealed(Chain) THEN UNCHANGED bound ELSE ReportSealed(i)
    /\ UNCHANGED <<view, tail, sealed, top, trimPoint, watchVars, streamVars, state, tailChanged,
                   wakers>>

\* Loglet::trim, clipped to the global tail that the trimming process knows of
TrimLoglet(i) ==
    /\ base[i] # INVALID
    /\ \E point \in trimPoint[i] + 1 .. Min({IntoOffset(MaxTrim, base[i]), top[i] - 1}) :
          trimPoint' = [trimPoint EXCEPT ![i] = point]
    /\ UNCHANGED <<chainVars, base, tail, sealed, bound, top, watchVars, streamVars,
                   state, tailChanged, wakers>>

\* the watchdog trims the chain to the trim point of the log
TrimChain ==
    LET point == GetTrimPoint(Chain, trimPoint) IN
    /\ point # INVALID
    /\ ChangeLogs([op |-> "trim", seg |-> -1, lsn |-> point])
    /\ UNCHANGED <<view, logletVars, watchVars, streamVars, state, tailChanged,
                   wakers>>

-----------------------------------------------------------------------------
(* What the reader's node learns *)

\* a newer version of Logs arrives and wakes a reader that waits for one
SyncMetadata ==
    /\ \E v \in view + 1 .. Latest : view' = v
    /\ wakers' = IF "metadata" \in wakers THEN {} ELSE wakers
    /\ UNCHANGED <<versions, logletVars, watchVars, streamVars, state, tailChanged>>

\* tail_watch of the substream has a new value; the one of a marker never has
TailNotified(i) ==
    tailChanged' = \/ tailChanged
                   \/ /\ state = "Reading" /\ substream.end = INVALID
                      /\ substream.index = i /\ ~substream.marker

\* a higher global tail comes with a find_tail or with the header of any answer
LearnTail(i) ==
    LET limit == IF OpenTailsBounded /\ ~knownSealed[i] THEN Min({top[i], bound[i]}) ELSE top[i] IN
    /\ \E t \in known[i] + 1 .. limit : known' = [known EXCEPT ![i] = t]
    /\ TailNotified(i)
    /\ UNCHANGED <<chainVars, logletVars, knownSealed, streamVars, state, wakers>>

\* find_tail reports the seal; the periodic tail checker stops then
LearnSeal(i) ==
    /\ sealed[i] /\ ~knownSealed[i]
    /\ ReportSealed(i)
    /\ known' = [known EXCEPT ![i] = top[i]]
    /\ knownSealed' = [knownSealed EXCEPT ![i] = TRUE]
    /\ TailNotified(i)
    /\ UNCHANGED <<chainVars, base, tail, sealed, top, trimPoint, streamVars, state, wakers>>

-----------------------------------------------------------------------------
(* poll_next *)

Awake == wakers = {}

\* the round ends with Pending
Park(sources) == wakers' = sources

Continue == UNCHANGED wakers

UnchangedLog == UNCHANGED <<chainVars, logletVars, watchVars>>

\* a round begins with the latest Logs of the node
Round(s) ==
    /\ state = s /\ Awake
    /\ UnchangedLog

Substream(b) ==
    [base |-> b, index |-> View[b].index, marker |-> View[b].marker, end |-> TailLsn(View, b)]

IsTrimmed == SegmentFor(View, readPointer) = INVALID

\* State::Reading is dropped with its tail_watch
Leave(s) ==
    /\ state' = s /\ Continue
    /\ safeKnownTail' = INVALID /\ tailChanged' = FALSE

\* mutant: the gap includes the base of the next segment
DeliverTrimGap_skips_base ==
    /\ readPointer' = Min(DOMAIN View) + 1
    /\ Leave("FindingLoglet") /\ substream' = NoSubstream
    /\ UNCHANGED delivered

\* deliver_trim_gap: on to the first segment that is left
DeliverTrimGap ==
    /\ readPointer' = Min(DOMAIN View)
    /\ Leave("FindingLoglet") /\ substream' = NoSubstream
    /\ UNCHANGED delivered

\* find_loglet_for_lsn
FindLoglet ==
    /\ Round("FindingLoglet")
    /\ IF IsTrimmed THEN DeliverTrimGap
       ELSE /\ substream' = Substream(SegmentFor(View, readPointer))
            /\ state' = "CreatingSubstream" /\ Continue
            /\ UNCHANGED <<readPointer, safeKnownTail, tailChanged, delivered>>

\* mutant: the watch reports changes only, not the tail known when it is made
CreateSubstream_changes_only ==
    /\ Round("CreatingSubstream")
    /\ safeKnownTail' = substream.end
    /\ tailChanged' = FALSE
    /\ state' = "Reading" /\ Continue
    /\ UNCHANGED <<readPointer, substream, delivered>>

\* the first value of tail_watch is the tail that is known already
CreateSubstream ==
    /\ Round("CreatingSubstream")
    /\ safeKnownTail' = substream.end
    /\ tailChanged' = (substream.end = INVALID)
    /\ state' = "Reading" /\ Continue
    /\ UNCHANGED <<readPointer, substream, delivered>>

ReadTrimmed == Round("Reading") /\ IsTrimmed /\ DeliverTrimGap

PastEnd == substream.end # INVALID /\ readPointer >= substream.end

\* mutant: the substream of the old loglet is not dropped
SwitchLoglet_keeps_substream ==
    /\ Round("Reading") /\ ~IsTrimmed /\ PastEnd
    /\ Leave("FindingLoglet")
    /\ UNCHANGED <<readPointer, substream, delivered>>

SwitchLoglet ==
    /\ Round("Reading") /\ ~IsTrimmed /\ PastEnd
    /\ Leave("FindingLoglet") /\ substream' = NoSubstream
    /\ UNCHANGED <<readPointer, delivered>>

AtSafeTail ==
    /\ substream.end = INVALID
    /\ safeKnownTail = INVALID \/ readPointer >= safeKnownTail

\* chain.tail_index() > segment_index
SegmentAdded ==
    /\ Round("Reading") /\ ~IsTrimmed /\ AtSafeTail
    /\ TailIndex(View) > substream.index
    /\ Leave("AwaitingReconfiguration")
    /\ UNCHANGED <<readPointer, substream, delivered>>

WatchesTail ==
    /\ Round("Reading") /\ ~IsTrimmed /\ AtSafeTail
    /\ TailIndex(View) <= substream.index

TailPending ==
    /\ WatchesTail /\ ~tailChanged
    /\ Park({"tail", "metadata"})
    /\ UNCHANGED <<streamVars, state, tailChanged>>

\* mutant: the sealed tail is taken for the end of the segment
TailSealed_reads_on ==
    /\ WatchesTail /\ tailChanged
    /\ ~substream.marker /\ knownSealed[substream.index]
    /\ safeKnownTail' = OffsetBy(substream.base, known[substream.index])
    /\ tailChanged' = FALSE /\ Continue
    /\ UNCHANGED <<readPointer, substream, delivered, state>>

\* TailState::Sealed: the reader may not go on before the chain says where the segment ends
TailSealed ==
    /\ WatchesTail /\ tailChanged
    /\ ~substream.marker /\ knownSealed[substream.index]
    /\ Leave("AwaitingOrSealChain")
    /\ UNCHANGED <<readPointer, substream, delivered>>

\* the next entry of the substream, below the known global tail of its loglet
HasEntry ==
    /\ ~substream.marker
    /\ IntoOffset(readPointer, substream.base) < known[substream.index]

DeliverRecord ==
    /\ delivered' = delivered \cup {[lsn |-> readPointer, index |-> substream.index]}
    /\ readPointer' = readPointer + 1

\* the log server has trimmed the record (unless it was fetched before)
DeliverLogletGap ==
    LET point == trimPoint[substream.index] IN
    /\ IntoOffset(readPointer, substream.base) <= point
    /\ readPointer' = OffsetBy(substream.base, point) + 1
    /\ UNCHANGED delivered

PollSubstream ==
    IF HasEntry THEN (DeliverRecord \/ DeliverLogletGap) /\ Continue
    ELSE Park({"substream", "metadata"}) /\ UNCHANGED <<readPointer, delivered>>

\* TailState::Open: a new safe tail, and on to the substream in the same round
TailOpen ==
    /\ WatchesTail /\ tailChanged
    /\ substream.marker \/ ~knownSealed[substream.index]
    /\ safeKnownTail' = IF substream.marker THEN substream.base
                        ELSE OffsetBy(substream.base, known[substream.index])
    /\ tailChanged' = FALSE
    /\ PollSubstream
    /\ UNCHANGED <<substream, state>>

\* within the bounds of the loglet
ReadSubstream ==
    /\ Round("Reading") /\ ~IsTrimmed /\ ~PastEnd /\ ~AtSafeTail
    /\ PollSubstream
    /\ UNCHANGED <<substream, safeKnownTail, state, tailChanged>>

\* check_chain: NewSegment and TailLsnSet
Segment == View[SegmentFor(View, readPointer)]

SegmentEnd == TailLsn(View, SegmentFor(View, readPointer))

IsNewSegment == ~IsTrimmed /\ Segment # [index |-> substream.index, marker |-> substream.marker]

IsTailLsnSet == ~IsTrimmed /\ ~IsNewSegment /\ SegmentEnd # INVALID

NoChange == ~IsTrimmed /\ ~IsNewSegment /\ SegmentEnd = INVALID

\* AwaitingReconfiguration and AwaitingOrSealChain, up to NoChange
CheckChain(s) ==
    /\ Round(s)
    /\ \/ IsTrimmed /\ DeliverTrimGap
       \/ /\ IsNewSegment
          /\ Leave("FindingLoglet") /\ substream' = NoSubstream
          /\ UNCHANGED <<readPointer, delivered>>
       \/ /\ IsTailLsnSet
          /\ substream' = [substream EXCEPT !.end = SegmentEnd]
          /\ safeKnownTail' = SegmentEnd
          /\ state' = "Reading" /\ Continue
          /\ UNCHANGED <<readPointer, tailChanged, delivered>>

\* NoChange cannot be met here: the chain already has a segment after the
\* substream's, which ends the substream's segment or holds the read pointer
AwaitReconfiguration == CheckChain("AwaitingReconfiguration")

AwaitOrSealChain ==
    \/ CheckChain("AwaitingOrSealChain")
    \/ /\ Round("AwaitingOrSealChain") /\ NoChange
       /\ Park({"timeout", "metadata"})
       /\ UNCHANGED <<streamVars, state, tailChanged>>

\* the timeout wakes the reader, which still finds the chain unchanged
LosePatience ==
    /\ state = "AwaitingOrSealChain" /\ "timeout" \in wakers /\ NoChange
    /\ wakers' = {}
    /\ state' = "SealingChain"
    /\ UnchangedLog
    /\ UNCHANGED <<streamVars, tailChanged>>

\* BifrostAdmin::seal of the reader: it has come to the end, perhaps because
\* the chain was changed by another, and its node has the latest Logs
ReaderSealsChain ==
    LET i == substream.index IN
    /\ state = "SealingChain" /\ TailIndex(View) = i
    /\ IF TailIndex(Chain) = i /\ ~IsSealed(Chain)
       THEN /\ sealed[i] /\ ReportSealed(i)
            /\ ChangeLogs([op |-> "seal", seg |-> i, lsn |-> OffsetBy(base[i], top[i])])
       ELSE UNCHANGED <<versions, bound>>
    /\ view' = Len(versions')
    /\ state' = "AwaitingOrSealChain"
    /\ UNCHANGED <<base, tail, sealed, top, trimPoint, watchVars, streamVars, tailChanged, wakers>>

\* SegmentMismatch, ChainSealIncomplete or another error
ReaderSealFails ==
    /\ Round("SealingChain")
    /\ state' = "AwaitingOrSealChain" /\ Continue
    /\ UNCHANGED <<streamVars, tailChanged>>

\* tail_watch or the channel of the substream has something for a reader that waits for it
Wake ==
    /\ \/ "tail" \in wakers /\ tailChanged
       \/ "substream" \in wakers /\ HasEntry
    /\ wakers' = {}
    /\ UnchangedLog
    /\ UNCHANGED <<streamVars, state, tailChanged>>

-----------------------------------------------------------------------------

LogNext ==
    \/ SealLoglet \/ SealChain \/ ExtendChain \/ TrimChain
    \/ \E i \in Index : AppendRecord(i) \/ RepairTail(i) \/ TrimLoglet(i)

NodeNext == SyncMetadata \/ \E i \in Index : LearnTail(i) \/ LearnSeal(i)

PollNext ==
    \/ FindLoglet \/ CreateSubstream
    \/ ReadTrimmed \/ SwitchLoglet \/ SegmentAdded \/ TailPending \/ TailSealed \/ TailOpen
    \/ ReadSubstream
    \/ AwaitReconfiguration \/ AwaitOrSealChain

ReaderNext == PollNext \/ LosePatience \/ ReaderSealsChain \/ ReaderSealFails \/ Wake

Next == LogNext \/ NodeNext \/ ReaderNext

Spec == Init /\ [][Next]_vars

\* The caller polls the stream whenever it is woken, the timeout fires, and the
\* seal that the reader tries again and again succeeds some time (an f-majority
\* of the log servers and the metadata store answer).  Logs are gossiped.  The
\* periodic tail checker finds the tail and the seal of a loglet as long as the
\* node does not know that it is sealed.
FairSpec ==
    /\ Spec
    /\ WF_vars(PollNext) /\ WF_vars(Wake) /\ WF_vars(LosePatience)
    /\ WF_vars(ReaderSealsChain \/ ReaderSealFails) /\ SF_vars(ReaderSealsChain)
    /\ WF_vars(SyncMetadata)
    /\ \A i \in Index : WF_vars(~knownSealed[i] /\ LearnTail(i)) /\ WF_vars(LearnSeal(i))

-----------------------------------------------------------------------------

States == {"FindingLoglet", "CreatingSubstream", "Reading", "AwaitingReconfiguration",
           "AwaitingOrSealChain", "SealingChain"}

\* The variables keep their types, a node never knows of a tail above the highest
\* that was reported, and the reader holds on to a substream in every state
\* but the one in which it looks for a loglet (the expects of poll_next).
TypeOK ==
    /\ \A v \in 1 .. Latest : DOMAIN versions[v] # {} /\ DOMAIN versions[v] \subseteq Lsn
    /\ view \in 1 .. Latest
    /\ known \in [Index -> Lsn] /\ \A i \in Index : known[i] <= top[i]
    /\ state \in States /\ readPointer \in Lsn
    /\ substream = NoSubstream <=> state = "FindingLoglet"
    /\ wakers \subseteq {"tail", "metadata", "substream", "timeout"}
    /\ delivered \subseteq [lsn : Lsn, index : Index]

\* A record that was handed out at an LSN is the record that the chain has there:
\* it comes from the loglet of the segment of that LSN, as long as that is not
\* trimmed.  The reader works on an old chain, on tails that its node has heard
\* of, and on a loglet in which a record can appear beyond the tail at which the
\* chain was sealed (LogReadStream::poll_next).
ReadsTheLog ==
    \A d \in delivered :
        LET b == SegmentFor(Chain, d.lsn) IN b # INVALID => Chain[b] = Loglet(d.index)

\* The read pointer never passes an LSN whose record was neither handed out nor
\* trimmed, whichever trim gaps, new segments and markers the reader
\* crosses (calculate_read_pointer, deliver_trim_gap).  A log is trimmed up to an
\* LSN: a segment before the trim point is gone even if the trim of its own loglet
\* was clipped to a lower tail.
NothingSkipped ==
    \A lsn \in OLDEST .. readPointer - 1 :
        \/ \E i \in Index : trimPoint[i] # INVALID /\ lsn <= OffsetBy(base[i], trimPoint[i])
        \/ \E d \in delivered : d.lsn = lsn

\* some acknowledged record is still ahead of the reader
HasUnread ==
    \E i \in Index : /\ base[i] # INVALID /\ tail[i] > OLDEST
                     /\ OffsetBy(base[i], tail[i]) > readPointer

\* The chain was sealed beyond the sealed tail that the reader's node knows of.  The
\* node does not look for the tail of a sealed loglet again, and the substream
\* waits for a global tail that may never come.
BehindChain ==
    /\ substream.end # INVALID
    /\ knownSealed[substream.index]
    /\ OffsetBy(substream.base, known[substream.index]) < substream.end

\* Every acknowledged record is passed at last, although the loglet is sealed under
\* the reader, its chain is left open, or sealed and extended by others, and each
\* wait of poll_next listens to some of the events only; unless the
\* reader is behind the chain.
EveryRecordIsRead == HasUnread ~> (~HasUnread \/ BehindChain)
=============================================================================
