------------------------------ MODULE Shuffle ------------------------------
(***************************************************************************)
(* Messages from one partition to the others.                              *)
(*                                                                         *)
(* Applying the log of a partition puts messages into its outbox, the same *)
(* ones at every replica.  The leader runs a shuffle: it reads the outbox  *)
(* from its beginning, or takes a message straight from a hint, and hands  *)
(* it to the ingestion session of its node for the target partition.  The  *)
(* session sends batches, one at a time, to the node that it believes      *)
(* leads the target; that node appends the records to the target's log and *)
(* acknowledges.  What was acknowledged without a gap is cut off the       *)
(* outbox by a proposal of the leader.  The target drops what it has seen: *)
(* a message carries the number it has in the outbox.                      *)
(*                                                                         *)
(* Leadership is that of PartitionLeadership, seen from afar: an epoch is  *)
(* announced in the log, and the node that announced it leads from the     *)
(* moment it reads the announcement to the moment it reads the next one.   *)
(* All replicas of a partition agree on what a part of its log means, so   *)
(* those of the sender are kept only while they lead, and one stands for   *)
(* all of a target, where a record is applied as it is appended.           *)
(***************************************************************************)
EXTENDS Integers, Sequences, FiniteSets, SequencesExt

CONSTANTS
    Node,           \* nodes with a replica of the sending partition
    Target,         \* the receiving partitions
    Routes,         \* which messages may be for which partitions
    MaxMessages,    \* bound on the messages
    MaxEpoch,       \* bound on the leader epochs
    MaxBatch,       \* bound on the records of a batch: batch_size
    MaxHints,       \* capacity of the hint channel
    MaxFaults       \* bound on failed requests, stopped shuffles and stopped nodes

Index == 0 .. MaxMessages - 1

ASSUME ShuffleAssumption ==
    /\ {MaxMessages, MaxFaults} \subseteq Nat
    /\ {MaxEpoch, MaxHints, MaxBatch} \subseteq Nat \ {0}
    /\ Routes \subseteq [Index -> Target]

NONE == -1      \* no truncation to report, and the number before the first message

Record == [kind : {"enqueue", "announce", "truncate"}, epoch : 0 .. MaxEpoch,
           index : NONE .. MaxMessages - 1]

(* A record on its way to a target, with the shuffle that waits for it.    *)
Token == [sn : Index, epoch : 1 .. MaxEpoch]

VARIABLES
    log,        \* log of the sending partition
    dest,       \* partition a message is for, by its number in the outbox
    epoch,      \* last leader epoch that was announced
    campaign,   \* epoch that the processor of a node runs for, or 0
    replica,    \* how far a leader has applied the log, and its outbox
    shuffle,    \* the shuffle of a node, if its processor leads
    session,    \* ingestion session of a node for a target
    requests,   \* batches in the appenders of nodes that lead a target, or led it
    applied,    \* messages that a target has applied, in order
    faults

vars == <<log, dest, epoch, campaign, replica, shuffle, session, requests, applied, faults>>

(* The variables keep their types, and the hint channel its capacity.      *)
TypeOK ==
    /\ log \in Seq(Record)
    /\ dest \in Routes
    /\ epoch \in 0 .. MaxEpoch
    /\ campaign \in [Node -> 0 .. MaxEpoch]
    /\ replica \in [Node -> [lsn : Nat, epoch : 0 .. MaxEpoch,
                             head : 0 .. MaxMessages, tail : 0 .. MaxMessages]]
    /\ shuffle \in [Node -> [epoch : 0 .. MaxEpoch,
                             state : {"Stopped", "Idle", "ReadingOutbox"},
                             next : 0 .. MaxMessages,
                             hints : Seq(Index), inflight : Seq(Index),
                             committed : SUBSET Index,
                             truncation : NONE .. MaxMessages - 1, changed : BOOLEAN]]
    /\ \A n \in Node : Len(shuffle[n].hints) <= MaxHints
    /\ session \in [Node -> [Target ->
                     [queue : Seq(Token), batch : Seq(Token), attempt : 0 .. MaxFaults,
                      state : {"Connected", "Sent"}]]]
    /\ requests \subseteq [node : Node, target : Target, attempt : 0 .. MaxFaults,
                           records : Seq(Index)]
    /\ applied \in [Target -> Seq(Index)]
    /\ faults \in 0 .. MaxFaults

-----------------------------------------------------------------------------
Stopped ==
    [epoch |-> 0, state |-> "Stopped", next |-> 0, hints |-> <<>>,
     inflight |-> <<>>, committed |-> {}, truncation |-> NONE, changed |-> FALSE]

(* mutant: a shuffle starts by waiting for hints                           *)
Started_idle(e) == [Stopped EXCEPT !.epoch = e, !.state = "Idle"]

(* A shuffle starts with a scan of the outbox from its very beginning.     *)
Started(e) == [Stopped EXCEPT !.epoch = e, !.state = "ReadingOutbox"]

NoSession == [queue |-> <<>>, batch |-> <<>>, attempt |-> 0, state |-> "Connected"]

EmptyReplica == [lsn |-> 0, epoch |-> 0, head |-> 0, tail |-> 0]

(* Some node has announced the first epoch.                                *)
Init ==
    /\ log = <<[kind |-> "announce", epoch |-> 1, index |-> NONE]>>
    /\ dest \in Routes
    /\ epoch = 1
    /\ campaign = [n \in Node |-> IF n = CHOOSE m \in Node : TRUE THEN 1 ELSE 0]
    /\ replica = [n \in Node |-> EmptyReplica]
    /\ shuffle = [n \in Node |-> Stopped]
    /\ session = [n \in Node |-> [t \in Target |-> NoSession]]
    /\ requests = {}
    /\ applied = [t \in Target |-> <<>>]
    /\ faults = 0

-----------------------------------------------------------------------------
(* The sending partition.                                                  *)

Produced == Cardinality({i \in 1 .. Len(log) : log[i].kind = "enqueue"})

(* A command whose effect is a message is appended to the log.             *)
Produce ==
    /\ Produced < MaxMessages
    /\ log' = Append(log, [kind |-> "enqueue", epoch |-> 0, index |-> NONE])
    /\ UNCHANGED <<dest, epoch, campaign, replica, shuffle, session, requests, applied, faults>>

(* Outbox::truncate_outbox_to.                                             *)
TruncateOutboxTo(r, to) == IF r.head > to THEN r ELSE [r EXCEPT !.head = to + 1]

(* What a record does to a replica.  A truncation that a leader of an      *)
(* older epoch proposed is a duplicate.                                    *)
ApplyRecord(r, record) ==
    [(CASE record.kind = "enqueue" -> [r EXCEPT !.tail = @ + 1]
        [] record.kind = "announce" -> [r EXCEPT !.epoch = record.epoch]
        [] record.kind = "truncate" ->
             IF record.epoch < r.epoch THEN r ELSE TruncateOutboxTo(r, record.index))
      EXCEPT !.lsn = @ + 1]

(* The replica that has applied the first records of the log.              *)
Replay(n) ==
    LET after[k \in 0 .. n] == IF k = 0 THEN EmptyReplica ELSE ApplyRecord(after[k - 1], log[k])
    IN  after[n]

(* A node stops to lead, or to run for it.                                 *)
BecomeFollower(n) ==
    /\ shuffle' = [shuffle EXCEPT ![n] = Stopped]
    /\ replica' = [replica EXCEPT ![n] = EmptyReplica]

(* A node runs for leader with the next epoch; if it leads with an older   *)
(* one, that ends first.                                                   *)
RunForLeader(n) ==
    /\ epoch < MaxEpoch
    /\ epoch' = epoch + 1
    /\ campaign' = [campaign EXCEPT ![n] = epoch + 1]
    /\ BecomeFollower(n)
    /\ log' = Append(log, [kind |-> "announce", epoch |-> epoch + 1, index |-> NONE])
    /\ UNCHANGED <<dest, session, requests, applied, faults>>

(* A node reads its announcement and leads: it starts a shuffle on the     *)
(* replica it has then.  A later announcement ends that when it is read.   *)
BecomeLeader(n) ==
    \E i \in 1 .. Len(log) :
        /\ campaign[n] # 0
        /\ log[i].kind = "announce" /\ log[i].epoch = campaign[n]
        /\ campaign' = [campaign EXCEPT ![n] = 0]
        /\ replica' = [replica EXCEPT ![n] = Replay(i)]
        /\ shuffle' = [shuffle EXCEPT ![n] = Started(campaign[n])]
        /\ UNCHANGED <<log, dest, epoch, session, requests, applied, faults>>

(* mutant: the channel has no limit                                        *)
SendHint_unbounded(s, i) == [s EXCEPT !.hints = Append(@, i)]

(* HintSender::send: the oldest hints make room for a new one.             *)
SendHint(s, i) ==
    [s EXCEPT !.hints = Append(IF Len(@) < MaxHints THEN @ ELSE Tail(@), i)]

(* A leader applies the next record: it gets a hint of a message that was  *)
(* put into the outbox, and steps down if a later epoch is announced.      *)
Apply(n) ==
    LET record == log[replica[n].lsn + 1]
    IN  /\ shuffle[n].state # "Stopped"
        /\ replica[n].lsn < Len(log)
        /\ \/ /\ record.kind = "announce"
              /\ BecomeFollower(n)
           \/ /\ record.kind # "announce"
              /\ replica' = [replica EXCEPT ![n] = ApplyRecord(@, record)]
              /\ shuffle' = IF record.kind = "enqueue"
                            THEN [shuffle EXCEPT ![n] = SendHint(@, replica[n].tail)]
                            ELSE shuffle
        /\ UNCHANGED <<log, dest, epoch, campaign, session, requests, applied, faults>>

-----------------------------------------------------------------------------
(* The shuffle.                                                            *)

(* A message enters the session of its target.  The shuffle waits for it   *)
(* to be committed, and scans on.                                          *)
Ingest(n, s, i) ==
    /\ session' = [session EXCEPT ![n][dest[i]].queue =
                     Append(@, [sn |-> i, epoch |-> s.epoch])]
    /\ shuffle' = [shuffle EXCEPT ![n] =
         [s EXCEPT !.inflight = Append(@, i), !.next = i + 1, !.state = "ReadingOutbox"]]

(* Idle: a hint for the next message is that message; a later one says     *)
(* that hints were dropped; an earlier one is old.                         *)
OnHint(n) ==
    LET s == [shuffle[n] EXCEPT !.hints = Tail(@)]
        i == Head(shuffle[n].hints)
    IN  /\ shuffle[n].state = "Idle" /\ shuffle[n].hints # <<>>
        /\ \/ i = s.next /\ Ingest(n, s, i)
           \/ /\ i > s.next
              /\ shuffle' = [shuffle EXCEPT ![n] = [s EXCEPT !.state = "ReadingOutbox"]]
              /\ UNCHANGED session
           \/ /\ i < s.next
              /\ shuffle' = [shuffle EXCEPT ![n] = s]
              /\ UNCHANGED session
        /\ UNCHANGED <<log, dest, epoch, campaign, replica, requests, applied, faults>>

(* A scan finds the first message of the outbox from the next number on.   *)
ReadOutbox(n) ==
    LET s == shuffle[n]
        outbox == {i \in replica[n].head .. replica[n].tail - 1 : i >= s.next}
    IN  /\ s.state = "ReadingOutbox"
        /\ \/ /\ outbox = {}
              /\ shuffle' = [shuffle EXCEPT ![n].state = "Idle"]
              /\ UNCHANGED session
           \/ \E i \in outbox : (\A j \in outbox : i <= j) /\ Ingest(n, s, i)
        /\ UNCHANGED <<log, dest, epoch, campaign, replica, requests, applied, faults>>

(* mutant: a commit is counted whatever is in front of it                  *)
Committable_any(s) == {k \in 1 .. Len(s.inflight) : s.inflight[k] \in s.committed}

(* The place of the message that has waited longest, once it is committed. *)
Committable(s) == {k \in 1 .. Len(s.inflight) : k = 1 /\ s.inflight[k] \in s.committed}

(* The messages are committed in any order, and counted in theirs.         *)
OnCommitted(n) ==
    \E k \in Committable(shuffle[n]) :
        LET i == shuffle[n].inflight[k]
        IN  /\ shuffle' = [shuffle EXCEPT
                 ![n].inflight = RemoveAt(@, k),
                 ![n].committed = @ \ {i},
                 ![n].truncation = IF i > @ THEN i ELSE @,
                 ![n].changed = @ \/ i > shuffle[n].truncation]
            /\ UNCHANGED <<log, dest, epoch, campaign, replica, session, requests, applied, faults>>

(* The leader proposes to truncate the outbox up to the last value of the  *)
(* watch.                                                                  *)
ProposeTruncation(n) ==
    /\ shuffle[n].changed
    /\ log' = Append(log, [kind |-> "truncate", epoch |-> shuffle[n].epoch,
                           index |-> shuffle[n].truncation])
    /\ shuffle' = [shuffle EXCEPT ![n].changed = FALSE]
    /\ UNCHANGED <<dest, epoch, campaign, replica, session, requests, applied, faults>>

-----------------------------------------------------------------------------
(* The ingestion session of node n for target t.                           *)

SnsOf(tokens) == [i \in 1 .. Len(tokens) |-> tokens[i].sn]

(* The batch that was not acknowledged goes first, then the next records   *)
(* of the queue.                                                           *)
SendBatch(n, t) ==
    LET s == session[n][t]
        Send(batch, queue) ==
            /\ session' = [session EXCEPT ![n][t].batch = batch, ![n][t].queue = queue,
                                          ![n][t].state = "Sent"]
            /\ requests' = requests \cup
                 {[node |-> n, target |-> t, attempt |-> s.attempt, records |-> SnsOf(batch)]}
    IN  /\ s.state = "Connected"
        /\ \/ s.batch # <<>> /\ Send(s.batch, s.queue)
           \/ /\ s.batch = <<>>
              /\ \E k \in 1 .. MaxBatch :
                   /\ k <= Len(s.queue)
                   /\ Send(SubSeq(s.queue, 1, k), SubSeq(s.queue, k + 1, Len(s.queue)))
        /\ UNCHANGED <<log, dest, epoch, campaign, replica, shuffle, applied, faults>>

IsCurrent(r) ==
    /\ session[r.node][r.target].state = "Sent"
    /\ session[r.node][r.target].attempt = r.attempt

(* mutant: the last message passes a second time                           *)
IsDuplicate_passes_equal(t, i) == applied[t] # <<>> /\ Last(applied[t]) > i

(* The target drops a message that is not above the last one it applied.   *)
IsDuplicate(t, i) == applied[t] # <<>> /\ Last(applied[t]) >= i

(* The tokens of an acknowledged batch are resolved; the shuffle that      *)
(* waits for one may have stopped since.                                   *)
Resolved(s, batch) ==
    IF s.state = "Stopped"
    THEN {}
    ELSE {i \in Index : [sn |-> i, epoch |-> s.epoch] \in Range(batch)}

(* The next record of a request is appended to the target's log.  When all *)
(* of them are, the request is acknowledged, and its session is ready for  *)
(* the next batch.  (An acknowledgement that is lost is a request that     *)
(* fails before its last record is appended.)                              *)
AppendRecord(r) ==
    LET i == Head(r.records)
        rest == Tail(r.records)
        acked == rest = <<>> /\ IsCurrent(r)
    IN  /\ applied' = [applied EXCEPT ![r.target] = IF IsDuplicate(r.target, i) THEN @ ELSE Append(@, i)]
        /\ requests' = (requests \ {r}) \cup
             (IF rest = <<>> THEN {} ELSE {[r EXCEPT !.records = rest]})
        /\ IF acked
           THEN /\ session' = [session EXCEPT ![r.node][r.target].batch = <<>>,
                                             ![r.node][r.target].state = "Connected"]
                /\ shuffle' = [shuffle EXCEPT ![r.node].committed =
                     @ \cup Resolved(shuffle[r.node], session[r.node][r.target].batch)]
           ELSE UNCHANGED <<session, shuffle>>
        /\ UNCHANGED <<log, dest, epoch, campaign, replica, faults>>

(* The request fails: the connection is lost, the receiver does not lead   *)
(* the target or stops to, or its answer is lost.  What it has in its      *)
(* appender is appended later, or never.  The session connects again, and  *)
(* has its batch.                                                          *)
RequestFails(n, t) ==
    /\ faults < MaxFaults
    /\ session[n][t].state = "Sent"
    /\ faults' = faults + 1
    /\ session' = [session EXCEPT ![n][t].state = "Connected", ![n][t].attempt = @ + 1]
    /\ \/ UNCHANGED requests
       \/ requests' = {r \in requests : ~(r.node = n /\ r.target = t /\ IsCurrent(r))}
    /\ UNCHANGED <<log, dest, epoch, campaign, replica, shuffle, applied>>

-----------------------------------------------------------------------------
(* The processor of a node stops and starts again on its store.  If the    *)
(* whole node stops its sessions are gone too.  (A node that is idle loses *)
(* nothing.)  Nobody stops in the last epoch, so that one leads in the end. *)
Restart(n) ==
    /\ faults < MaxFaults
    /\ campaign[n] # 0 \/ shuffle[n].state # "Stopped" \/ session[n] # [t \in Target |-> NoSession]
    /\ epoch < MaxEpoch
    /\ faults' = faults + 1
    /\ campaign' = [campaign EXCEPT ![n] = 0]
    /\ BecomeFollower(n)
    /\ \/ UNCHANGED session
       \/ session' = [session EXCEPT ![n] = [t \in Target |-> [NoSession EXCEPT !.attempt = faults + 1]]]
    /\ UNCHANGED <<log, dest, epoch, requests, applied>>

Next ==
    \/ Produce
    \/ \E n \in Node :
         \/ RunForLeader(n) \/ BecomeLeader(n) \/ Apply(n) \/ Restart(n)
         \/ OnHint(n) \/ ReadOutbox(n) \/ OnCommitted(n) \/ ProposeTruncation(n)
         \/ \E t \in Target : SendBatch(n, t) \/ RequestFails(n, t)
    \/ \E r \in requests : AppendRecord(r)

Spec == Init /\ [][Next]_vars

(* Nobody leads, and nobody runs for it.                                   *)
Leaderless == \A n \in Node : campaign[n] = 0 /\ shuffle[n].state = "Stopped"

AppendCurrent(n, t) ==
    \E r \in requests : r.node = n /\ r.target = t /\ IsCurrent(r) /\ AppendRecord(r)

(* The event loop of a processor, its shuffle and every session get on, a  *)
(* request is answered unless it fails, and the cluster finds a leader for *)
(* a partition without one.                                                *)
FairSpec ==
    /\ Spec
    /\ WF_vars(Leaderless /\ \E n \in Node : RunForLeader(n))
    /\ \A n \in Node :
         /\ WF_vars(BecomeLeader(n) \/ Apply(n) \/ ProposeTruncation(n))
         /\ WF_vars(OnHint(n) \/ ReadOutbox(n) \/ OnCommitted(n))
         /\ \A t \in Target : WF_vars(SendBatch(n, t) \/ AppendCurrent(n, t))

-----------------------------------------------------------------------------
(* The messages for a target that the log of the sender has so far.        *)
Destined(t) ==
    LET first[k \in 0 .. Produced] ==
          IF k = 0 THEN <<>>
          ELSE IF dest[k - 1] = t THEN Append(first[k - 1], k - 1) ELSE first[k - 1]
    IN  first[Produced]

Promise == INSTANCE Channels
             WITH Message <- Index,
                  sent <- [t \in Target |-> Destined(t)],
                  received <- applied

(* Whatever leaders, shuffles, sessions and requests fail, are repeated or *)
(* overlap, a target applies the messages for it once, in the order of the *)
(* outbox, and none before those in front of it.  (shuffle.rs, session.rs, *)
(* is_duplicate.)                                                          *)
DeliversLikeChannels == Promise!Spec

(* Whatever part of the log a replica has applied, it has not cut a        *)
(* message off its outbox that its target does not have, or that is not in *)
(* the outbox yet: there is nothing left that could send it again.         *)
(* (Shuffle::shuffle, truncate_outbox_to.)                                 *)
TruncatedAreDelivered ==
    \A k \in 0 .. Len(log) :
        /\ Replay(k).head <= Replay(k).tail
        /\ \A i \in 0 .. Replay(k).head - 1 : i \in Range(applied[dest[i]])

(* The outbox does not grow for ever: again and again, the log has cut off *)
(* all there was, so that every message was delivered, even one whose      *)
(* hints were dropped and whose sender stopped.  (OutboxTruncation.)       *)
OutboxDrains == []<>(Replay(Len(log)).head = Produced)
=============================================================================
