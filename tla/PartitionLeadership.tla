------------------------ MODULE PartitionLeadership ------------------------
(***************************************************************************)
(* The processors of one partition: who leads it, and which records of its *)
(* log they apply.                                                         *)
(*                                                                         *)
(* Every node runs a processor of the partition, a replica of its state.   *)
(* The processors share nothing but the log: each of them reads it at its  *)
(* own pace, drops the records that its deduplication state has seen, and  *)
(* applies the rest in transactions of several records.  The manager of a  *)
(* node (partition processor manager) claims a leader epoch in the         *)
(* metadata store when the controller asks it to lead; the processor then  *)
(* appends AnnounceLeader of that epoch and leads from the moment it reads *)
(* the announcement back, or, where a feature has to be switched on first, *)
(* from the moment it reads its own VersionBarrier.                        *)
(*                                                                         *)
(* What a leader proposes itself carries an epoch sequence number (ESN);   *)
(* what it appends for others (Dedup::None) carries none.  Proposals wait  *)
(* in the background appender of the epoch, which outlives the leadership: *)
(* it drains when its handle is dropped.  An append whose acknowledgement  *)
(* is lost is repeated, so the log may hold a proposal twice.              *)
(*                                                                         *)
(* Left out: what the commands do to the store (a replica's state is the   *)
(* set of the records it has applied), producers other than the leader     *)
(* (Shuffle), trimming and snapshots, and reverted logs (AheadOfLog).      *)
(***************************************************************************)
EXTENDS Integers, Sequences, FiniteSets

CONSTANTS
    Proc,           \* processors of the partition, one on every node
    Upgraded,       \* those whose binary switches the feature on when they lead
    MaxEpoch,       \* bound on the leader epochs that are claimed
    MaxSeq,         \* bound on the sequence numbers of an epoch
    MaxForwarded,   \* bound on the records that leaders append for others
    MaxBatch,       \* max_command_batch_size
    MaxFaults       \* bound on the appends that are repeated and the processors that stop

ASSUME LeadershipAssumption ==
    /\ Upgraded \subseteq Proc
    /\ {MaxEpoch, MaxForwarded, MaxFaults} \subseteq Nat
    /\ {MaxSeq, MaxBatch} \subseteq Nat \ {0}     \* an epoch has room for its barrier

INVALID == 0    \* LeaderEpoch::INVALID

Epoch == 1 .. MaxEpoch

Esn == (0 .. MaxEpoch) \X (0 .. MaxSeq)

(* Records of the log.  Forwarded records carry no deduplication           *)
(* information; their ESN is a placeholder that nothing looks at.          *)
Record == [kind : {"announce", "barrier", "command", "forwarded"}, esn : Esn]

VARIABLES
    claimed,    \* EpochMetadata of the metadata store: the last epoch that was claimed
    claims,     \* answers of the metadata store on their way back to the managers
    manager,    \* ProcessorState of every node's manager
    target,     \* TargetLeaderState that the processor has not read: an epoch, or INVALID
    pp,         \* the processor: leadership state, context and open transaction
    store,      \* its partition store: what was committed
    queue,      \* records in the background appender of an epoch
    log,        \* the log of the partition
    noted,      \* leader epochs that some node has observed in the log and gossips
    forwarded,  \* number of records appended for others
    faults      \* number of appends repeated and of processors stopped

vars == <<claimed, claims, manager, target, pp, store, queue, log, noted,
          forwarded, faults>>

bounds == <<forwarded, faults>>

Replica == [lsn : Nat, dedup : Esn, applied : SUBSET Nat, feature : BOOLEAN]

Processor ==
    [up : BOOLEAN, mode : {"Follower", "Candidate", "BecomingLeader", "Leader"},
     epoch : 0 .. MaxEpoch, next : 0 .. MaxSeq + 1, observed : 0 .. MaxEpoch,
     batch : 0 .. MaxBatch, actions : SUBSET Nat, told : SUBSET Nat, replica : Replica]

Manager ==
    [state : {"Follower", "AwaitingLeaderEpoch", "Leader"}, epoch : 0 .. MaxEpoch,
     token : 0 .. MaxFaults]

Claim == [proc : Proc, epoch : Epoch, token : 0 .. MaxFaults]

(* The variables keep their types; in particular the self proposer of an   *)
(* epoch never runs ahead of the sequence numbers that it has used up.     *)
TypeOK ==
    /\ claimed \in 0 .. MaxEpoch
    /\ claims \subseteq Claim
    /\ manager \in [Proc -> Manager]
    /\ target \in [Proc -> 0 .. MaxEpoch]
    /\ pp \in [Proc -> Processor]
    /\ store \in [Proc -> Replica]
    /\ queue \in [Epoch -> Seq(Record)]
    /\ log \in Seq(Record)
    /\ noted \subseteq Epoch
    /\ forwarded \in 0 .. MaxForwarded
    /\ faults \in 0 .. MaxFaults

-----------------------------------------------------------------------------
(* Ordering of epoch sequence numbers: by epoch, then by number.           *)
EsnLess(a, b) == a[1] < b[1] \/ (a[1] = b[1] /\ a[2] < b[2])

EmptyReplica ==
    [lsn |-> 0, dedup |-> <<INVALID, 0>>, applied |-> {}, feature |-> FALSE]

(* A processor that starts on a partition store: a follower whose context  *)
(* is read from the store; it has observed the epoch of its deduplication  *)
(* state.                                                                  *)
Started(replica) ==
    [up |-> TRUE, mode |-> "Follower", epoch |-> INVALID, next |-> 0,
     observed |-> replica.dedup[1], batch |-> 0, actions |-> {}, told |-> {},
     replica |-> replica]

Init ==
    /\ claimed = 0
    /\ claims = {}
    /\ manager = [p \in Proc |-> [state |-> "Follower", epoch |-> INVALID, token |-> 0]]
    /\ target = [p \in Proc |-> INVALID]
    /\ pp = [p \in Proc |-> Started(EmptyReplica)]
    /\ store = [p \in Proc |-> EmptyReplica]
    /\ queue = [e \in Epoch |-> <<>>]
    /\ log = <<>>
    /\ noted = {}
    /\ forwarded = 0 /\ faults = 0

-----------------------------------------------------------------------------
(* The manager of a node.                                                  *)

(* The controller asks the node to lead.  The manager claims the next      *)
(* epoch in the metadata store (a read-modify-write) if it has none, or if *)
(* the processor has observed a higher one.                                *)
RunAsLeader(p) ==
    /\ pp[p].up
    /\ \/ manager[p].state = "Follower"
       \/ manager[p].state = "Leader" /\ manager[p].epoch < pp[p].observed
    /\ claimed < MaxEpoch
    /\ manager' = [manager EXCEPT ![p].state = "AwaitingLeaderEpoch"]
    /\ claimed' = claimed + 1
    /\ claims' = claims \cup
         {[proc |-> p, epoch |-> claimed + 1, token |-> manager[p].token]}
    /\ UNCHANGED <<target, pp, store, queue, log, noted, bounds>>

(* The manager receives the epoch.  One that an earlier processor of the   *)
(* node asked for has another token, and a processor that has observed a   *)
(* newer epoch has no use for it.                                          *)
LeaderEpochObtained(c) ==
    LET p == c.proc
        current == /\ pp[p].up
                   /\ manager[p].state = "AwaitingLeaderEpoch"
                   /\ manager[p].token = c.token
    IN  /\ claims' = claims \ {c}
        /\ IF current /\ c.epoch > pp[p].observed
           THEN /\ target' = [target EXCEPT ![p] = c.epoch]
                /\ manager' = [manager EXCEPT ![p].state = "Leader", ![p].epoch = c.epoch]
           ELSE /\ manager' = IF current THEN [manager EXCEPT ![p].state = "Follower"] ELSE manager
                /\ UNCHANGED target
        /\ UNCHANGED <<claimed, pp, store, queue, log, noted, bounds>>

(* The claim was made, but the manager gets an error for it.               *)
LeaderEpochFailed(c) ==
    /\ claims' = claims \ {c}
    /\ manager' = IF manager[c.proc].state = "AwaitingLeaderEpoch" /\ manager[c.proc].token = c.token
                  THEN [manager EXCEPT ![c.proc].state = "Follower"]
                  ELSE manager
    /\ UNCHANGED <<claimed, target, pp, store, queue, log, noted, bounds>>

-----------------------------------------------------------------------------
(* The leadership state of a processor.  The arms of its event loop run    *)
(* between two batches.                                                    *)

(* Stopping whatever role the processor has.  The appender of its epoch    *)
(* keeps draining.                                                         *)
BecomeFollower(s) ==
    [s EXCEPT !.mode = "Follower", !.epoch = INVALID, !.next = 0, !.told = {}]

(* The record that the self proposer of s appends next.                    *)
Proposal(s, kind) == [kind |-> kind, esn |-> <<s.epoch, s.next>>]

(* mutant: an epoch has to be two ahead                                    *)
IsOutdated_off_by_one(s, e) == (IF s.mode = "Follower" THEN s.replica.dedup[1] ELSE s.epoch) + 1 >= e

(* The epoch that a new one has to exceed.                                 *)
IsOutdated(s, e) == (IF s.mode = "Follower" THEN s.replica.dedup[1] ELSE s.epoch) >= e

(* mutant: the first sequence number is skipped                            *)
Candidate_skips_zero(s, e) ==
    [BecomeFollower(s) EXCEPT !.mode = "Candidate", !.epoch = e, !.next = 1]

Candidate(s, e) ==
    [BecomeFollower(s) EXCEPT !.mode = "Candidate", !.epoch = e, !.next = 0]

(* The processor is told to run for leader with an epoch: it announces it, *)
(* unless it has seen that epoch or a newer one.                           *)
RunForLeader(p) ==
    LET e == target[p]
        candidate == Candidate(pp[p], e)
    IN  /\ pp[p].up /\ pp[p].batch = 0
        /\ e # INVALID
        /\ target' = [target EXCEPT ![p] = INVALID]
        /\ IF ~IsOutdated(pp[p], e)
           THEN /\ pp' = [pp EXCEPT ![p] = [candidate EXCEPT !.next = @ + 1]]
                /\ queue' = [queue EXCEPT ![e] = Append(@, Proposal(candidate, "announce"))]
           ELSE UNCHANGED <<pp, queue>>
        /\ UNCHANGED <<claimed, claims, manager, store, log, noted, bounds>>

(* A newer epoch ends every role of an older one.                          *)
Concedes(s, e) == s.mode # "Follower" /\ s.epoch < e

(* A node hears of a leader epoch that some node has observed.             *)
MaybeStepDown(p, e) ==
    LET observing == [pp[p] EXCEPT !.observed = IF @ < e THEN e ELSE @]
    IN  /\ pp[p].up /\ pp[p].batch = 0
        /\ e \in noted
        /\ pp' = [pp EXCEPT ![p] =
                    IF Concedes(pp[p], e)
                    THEN BecomeFollower(observing)
                    ELSE observing]
        /\ pp' # pp
        /\ UNCHANGED <<claimed, claims, manager, target, store, queue, log, noted, bounds>>

(* A leader proposes a command of its own, with the next ESN.              *)
SelfPropose(p) ==
    /\ pp[p].mode = "Leader" /\ pp[p].batch = 0
    /\ pp[p].next <= MaxSeq
    /\ queue' = [queue EXCEPT ![pp[p].epoch] = Append(@, Proposal(pp[p], "command"))]
    /\ pp' = [pp EXCEPT ![p].next = @ + 1]
    /\ UNCHANGED <<claimed, claims, manager, target, store, log, noted, bounds>>

(* A leader appends a record of somebody else, without an ESN.             *)
Forward(p) ==
    /\ pp[p].mode = "Leader" /\ pp[p].batch = 0
    /\ forwarded < MaxForwarded
    /\ queue' = [queue EXCEPT ![pp[p].epoch] =
                   Append(@, [kind |-> "forwarded", esn |-> <<INVALID, 0>>])]
    /\ forwarded' = forwarded + 1
    /\ UNCHANGED <<claimed, claims, manager, target, pp, store, log, noted, faults>>

(* The background appender of an epoch appends the first records of its    *)
(* queue in one batch.                                                     *)
ProcessAppends(e) ==
    \E n \in 1 .. Len(queue[e]) :
        /\ log' = log \o SubSeq(queue[e], 1, n)
        /\ queue' = [queue EXCEPT ![e] = SubSeq(@, n + 1, Len(@))]
        /\ UNCHANGED <<claimed, claims, manager, target, pp, store, noted, bounds>>

(* The batch reached the log, but the appender does not learn of it and    *)
(* will append it again.                                                   *)
AppendUnacknowledged(e) ==
    \E n \in 1 .. Len(queue[e]) :
        /\ faults < MaxFaults
        /\ log' = log \o SubSeq(queue[e], 1, n)
        /\ faults' = faults + 1
        /\ UNCHANGED <<claimed, claims, manager, target, pp, store, queue, noted, forwarded>>

-----------------------------------------------------------------------------
(* Applying the log.                                                       *)

IsSelfProposal(r) == r.kind # "forwarded"

(* mutant: the last record passes a second time                            *)
IsDuplicate_passes_equal(replica, r) == IsSelfProposal(r) /\ EsnLess(r.esn, replica.dedup)

IsDuplicate(replica, r) == IsSelfProposal(r) /\ ~EsnLess(replica.dedup, r.esn)

(* The deduplication information and the LSN of an applied record.         *)
AdvanceLastApplied(replica, r) ==
    [replica EXCEPT !.lsn = @ + 1,
                    !.applied = @ \cup {replica.lsn + 1},
                    !.dedup = IF IsSelfProposal(r) THEN r.esn ELSE @]

(* Whether the feature has to be switched on first.                        *)
NeedsBarrier(p, replica) == p \in Upgraded /\ ~replica.feature

(* mutant: the barrier takes two sequence numbers                          *)
BecomeLeader_two_numbers(p, s, committed) ==
    IF NeedsBarrier(p, s.replica)
    THEN [s EXCEPT !.mode = "BecomingLeader", !.next = @ + 2]
    ELSE [s EXCEPT !.mode = "Leader", !.told = committed.applied]

(* mutant: the actuators start on the store before the transaction         *)
BecomeLeader_before_commit(p, s, committed) ==
    IF NeedsBarrier(p, s.replica)
    THEN [s EXCEPT !.mode = "BecomingLeader", !.next = @ + 1]
    ELSE [s EXCEPT !.mode = "Leader", !.told = store[p].applied]

(* The processor has won: it proposes a barrier if the feature has to be   *)
(* switched on, and starts its actuators (invoker, scheduler, timers,      *)
(* shuffle) on the committed store otherwise.                              *)
BecomeLeader(p, s, committed) ==
    IF NeedsBarrier(p, s.replica)
    THEN [s EXCEPT !.mode = "BecomingLeader", !.next = @ + 1]
    ELSE [s EXCEPT !.mode = "Leader", !.told = committed.applied]

(* mutant: the barrier is never proposed                                   *)
ProposeBarrier_never(p, s) == queue

ProposeBarrier(p, s) ==
    IF NeedsBarrier(p, s.replica)
    THEN [queue EXCEPT ![s.epoch] = Append(@, Proposal(s, "barrier"))]
    ELSE queue

(* mutant: a campaign is won by any announcement                           *)
Wins_any_epoch(s, e) == s.mode \in {"Candidate", "BecomingLeader"}

(* A campaign is won by its own announcement.                              *)
Wins(s, e) == s.mode \in {"Candidate", "BecomingLeader"} /\ s.epoch = e

(* AnnounceLeader: the transaction is committed and its actions are        *)
(* dropped before the role changes.                                        *)
OnAnnounceLeader(p, r) ==
    LET e == r.esn[1]
        s == [pp[p] EXCEPT !.actions = {}, !.observed = e]
        next == CASE Wins(s, e) -> BecomeLeader(p, s, s.replica)
                  [] ~Wins(s, e) /\ Concedes(s, e) -> BecomeFollower(s)
                  [] OTHER -> s
    IN  /\ store' = [store EXCEPT ![p] = s.replica]
        /\ queue' = IF Wins(s, e) THEN ProposeBarrier(p, s) ELSE queue
        /\ noted' = noted \cup {e}
        /\ pp' = [pp EXCEPT ![p] = [next EXCEPT !.replica = AdvanceLastApplied(@, r),
                                                !.batch = @ + 1]]

(* VersionBarrier: the feature is switched on and the transaction          *)
(* committed; a processor that waits for the barrier leads.                *)
OnVersionBarrier(p, r) ==
    LET enabled == [pp[p].replica EXCEPT !.feature = TRUE]
        s == [pp[p] EXCEPT !.replica = enabled]
        next == IF s.mode = "BecomingLeader" THEN BecomeLeader(p, s, enabled) ELSE s
    IN  /\ store' = [store EXCEPT ![p] = enabled]
        /\ pp' = [pp EXCEPT ![p] = [next EXCEPT !.replica = AdvanceLastApplied(@, r),
                                                !.batch = @ + 1]]
        /\ UNCHANGED <<queue, noted>>

(* Any other command.  Its actions are collected by a leader, and by a     *)
(* processor that is becoming one.                                         *)
OnCommand(p, r) ==
    /\ pp' = [pp EXCEPT ![p].replica = AdvanceLastApplied(@, r),
                        ![p].actions = IF pp[p].mode \in {"Leader", "BecomingLeader"}
                                       THEN @ \cup {pp[p].replica.lsn + 1} ELSE @,
                        ![p].batch = @ + 1]
    /\ UNCHANGED <<store, queue, noted>>

(* The next record of the log, in the transaction of the batch.            *)
ApplyLogEntry(p) ==
    LET r == log[pp[p].replica.lsn + 1]
    IN  /\ pp[p].up
        /\ pp[p].batch < MaxBatch
        /\ pp[p].replica.lsn < Len(log)
        /\ CASE IsDuplicate(pp[p].replica, r) ->
                  /\ pp' = [pp EXCEPT ![p].replica.lsn = @ + 1, ![p].batch = @ + 1]
                  /\ UNCHANGED <<store, queue, noted>>
             [] ~IsDuplicate(pp[p].replica, r) /\ r.kind = "announce" -> OnAnnounceLeader(p, r)
             [] ~IsDuplicate(pp[p].replica, r) /\ r.kind = "barrier" -> OnVersionBarrier(p, r)
             [] OTHER -> OnCommand(p, r)
        /\ UNCHANGED <<claimed, claims, manager, target, log, bounds>>

(* mutant: the deduplication state is not part of the transaction          *)
Committed_without_dedup(p) == [pp[p].replica EXCEPT !.dedup = store[p].dedup]

Committed(p) == pp[p].replica

(* The end of a batch: the transaction is committed and a leader hands the *)
(* collected actions to its actuators.                                     *)
CommitBatch(p) ==
    /\ pp[p].batch > 0
    /\ store' = [store EXCEPT ![p] = Committed(p)]
    /\ pp' = [pp EXCEPT ![p].batch = 0, ![p].actions = {},
                        ![p].told = IF pp[p].mode = "Leader" THEN @ \cup pp[p].actions ELSE @]
    /\ UNCHANGED <<claimed, claims, manager, target, queue, log, noted, bounds>>

-----------------------------------------------------------------------------
(* The processor of a node stops, at any point.  Its appenders drain if    *)
(* the node lives on; what they hold is never appended if it does not.     *)
Crash(p) ==
    /\ pp[p].up
    /\ faults < MaxFaults
    /\ faults' = faults + 1
    /\ pp' = [pp EXCEPT ![p] = [Started(EmptyReplica) EXCEPT !.up = FALSE]]
    /\ target' = [target EXCEPT ![p] = INVALID]
    /\ manager' = [manager EXCEPT ![p] = [state |-> "Follower", epoch |-> INVALID,
                                          token |-> manager[p].token + 1]]
    /\ UNCHANGED <<claimed, claims, store, queue, log, noted, forwarded>>

(* The manager starts it again on what it has committed.                   *)
Restart(p) ==
    /\ ~pp[p].up
    /\ pp' = [pp EXCEPT ![p] = Started(store[p])]
    /\ UNCHANGED <<claimed, claims, manager, target, store, queue, log, noted, bounds>>

Next ==
    \/ \E p \in Proc :
         \/ RunAsLeader(p) \/ RunForLeader(p)
         \/ SelfPropose(p) \/ Forward(p)
         \/ ApplyLogEntry(p) \/ CommitBatch(p) \/ Crash(p) \/ Restart(p)
         \/ \E e \in Epoch : MaybeStepDown(p, e)
    \/ \E c \in claims : LeaderEpochObtained(c) \/ LeaderEpochFailed(c)
    \/ \E e \in Epoch : ProcessAppends(e) \/ AppendUnacknowledged(e)

Spec == Init /\ [][Next]_vars

(* The event loop of a running processor and the background appenders      *)
(* always get on.  The controller may stop asking, the metadata store may  *)
(* not answer, and gossip may never arrive.                                *)
FairSpec ==
    /\ Spec
    /\ \A p \in Proc : /\ WF_vars(RunForLeader(p))
                       /\ WF_vars(ApplyLogEntry(p))
                       /\ WF_vars(CommitBatch(p))
    /\ \A e \in Epoch : WF_vars(ProcessAppends(e))

-----------------------------------------------------------------------------
(* The records among the first n of the log that count: those without an   *)
(* ESN, and those whose ESN is above every earlier one.                    *)
EffectiveRecords(n) ==
    {i \in 1 .. n :
        IsSelfProposal(log[i]) =>
            \A j \in 1 .. i - 1 :
                IsSelfProposal(log[j]) => EsnLess(log[j].esn, log[i].esn)}

(* Replicas agree: whatever its role, its batches and its crashes, the     *)
(* state of a processor and what it has committed depend on nothing but    *)
(* the part of the log it has read.  (apply_log_entry, is_duplicate and    *)
(* store_dedup_information.)                                               *)
ReplicasAgree ==
    \A p \in Proc :
        /\ store[p].applied = EffectiveRecords(store[p].lsn)
        /\ pp[p].up => pp[p].replica.applied = EffectiveRecords(pp[p].replica.lsn)

(* The proposals of leaders are applied reign after reign: an epoch starts *)
(* with its announcement, its proposals follow in the order in which they  *)
(* were made, none of them twice and none skipped, and none is applied     *)
(* once a later epoch was announced.  (self_proposer.rs, dedup.rs.)        *)
ReignsInOrder ==
    \A p \in Proc : \A i \in pp[p].replica.applied :
        IsSelfProposal(log[i]) =>
            /\ log[i].esn[2] = 0 <=> log[i].kind = "announce"
            /\ \A j \in pp[p].replica.applied :
                 j < i /\ IsSelfProposal(log[j]) => EsnLess(log[j].esn, log[i].esn)
            /\ log[i].esn[2] > 0 =>
                 \E j \in pp[p].replica.applied :
                    j < i /\ log[j].esn = <<log[i].esn[1], log[i].esn[2] - 1>>
                          /\ IsSelfProposal(log[j])

(* A processor leads only while its own announcement is the last one it    *)
(* has read, and no two processors ever campaign with one epoch.           *)
(* (on_announce_leader, maybe_step_down, obtain_next_epoch.)               *)
LeaderIsCurrent ==
    /\ \A p \in Proc :
         /\ pp[p].mode \in {"BecomingLeader", "Leader"} => pp[p].replica.dedup[1] = pp[p].epoch
         /\ pp[p].mode = "Candidate" => pp[p].replica.dedup[1] < pp[p].epoch
    /\ \A p, q \in Proc :
         p # q /\ pp[p].epoch # INVALID => pp[p].epoch # pp[q].epoch

NextRecord(p) == log[pp[p].replica.lsn + 1]

HasNext(p) ==
    /\ pp[p].up /\ pp[p].replica.lsn < Len(log)
    /\ ~IsDuplicate(pp[p].replica, NextRecord(p))

(* The cases that on_announce_leader and VersionBarrier call bugs never    *)
(* come up: a leader never reads an announcement of its own or an older    *)
(* epoch, a processor that has won never wins again, and the barrier that  *)
(* switches the feature on is its own, and never met by a full leader.     *)
NoImpossibleRecord ==
    \A p \in Proc : HasNext(p) =>
        LET r == NextRecord(p)
        IN  /\ r.kind = "announce" /\ pp[p].mode \in {"BecomingLeader", "Leader"}
                 => r.esn[1] > pp[p].epoch
            /\ r.kind = "barrier" /\ pp[p].mode \in {"BecomingLeader", "Leader"}
                 => pp[p].mode = "BecomingLeader" /\ r.esn[1] = pp[p].epoch

(* The actuators of a leader (invoker, scheduler, timers, shuffle) know of *)
(* every command it has applied: what was committed before they started,   *)
(* they read from the store, and every later one is an action they are     *)
(* given.  (AnnounceLeaderContext, become_leader, handle_actions.)         *)
ActuatorsKnowAll ==
    \A p \in Proc :
        pp[p].mode = "Leader" /\ pp[p].batch = 0 =>
            {i \in pp[p].replica.applied : log[i].kind \in {"command", "forwarded"}}
                \subseteq pp[p].told

(* Every campaign ends: a candidate, and a processor that waits for its    *)
(* barrier, leads in the end, or steps down, or stops.                     *)
CampaignsEnd ==
    \A p \in Proc :
        pp[p].mode \in {"Candidate", "BecomingLeader"}
            ~> pp[p].mode \in {"Leader", "Follower"}

(* A manager that believes its processor leads with an epoch is right in   *)
(* the end, or finds out: the processor reports a higher epoch, so that    *)
(* the next request of the controller claims a new one, or it stops.       *)
ManagerFindsOut ==
    \A p \in Proc :
        manager[p].state = "Leader"
            ~> \/ pp[p].mode = "Leader" /\ pp[p].epoch = manager[p].epoch
               \/ pp[p].observed > manager[p].epoch
               \/ manager[p].state # "Leader"
=============================================================================
