--------------------- MODULE PartitionLeadershipProofs ---------------------
(***************************************************************************)
(* The processors of one partition, for any number of processors, epochs,  *)
(* proposals, batches and faults: the type invariant and the safety        *)
(* properties of PartitionLeadership.                                      *)
(***************************************************************************)
EXTENDS PartitionLeadership, NaturalsInduction, WellFoundedInduction, TLAPS

-----------------------------------------------------------------------------
(* The inductive invariant *)

\* a record as the appender of epoch e holds it
RecordOK(r, e) ==
    IsSelfProposal(r) => /\ r.esn[1] = e
                         /\ r.esn[2] = 0 <=> r.kind = "announce"

RecordsOK ==
    /\ \A e \in Epoch : \A i \in 1 .. Len(queue[e]) : RecordOK(queue[e][i], e)
    /\ \A i \in 1 .. Len(log) : IsSelfProposal(log[i]) =>
         log[i].esn[1] \in Epoch /\ RecordOK(log[i], log[i].esn[1])

InLog(n, esn) == \E j \in 1 .. n : IsSelfProposal(log[j]) /\ log[j].esn = esn

InQueue(e, n, esn) == \E j \in 1 .. n : IsSelfProposal(queue[e][j]) /\ queue[e][j].esn = esn

\* every proposal but an announcement comes after the one before it
PredecessorsFirst ==
    /\ \A i \in 1 .. Len(log) : IsSelfProposal(log[i]) /\ log[i].esn[2] > 0 =>
         InLog(i - 1, <<log[i].esn[1], log[i].esn[2] - 1>>)
    /\ \A e \in Epoch : \A i \in 1 .. Len(queue[e]) :
         IsSelfProposal(queue[e][i]) /\ queue[e][i].esn[2] > 0 =>
            \/ InQueue(e, i - 1, <<e, queue[e][i].esn[2] - 1>>)
            \/ InLog(Len(log), <<e, queue[e][i].esn[2] - 1>>)

\* the state of a replica is a function of the records it has read
ReplicaOK(r) ==
    /\ r.lsn <= Len(log)
    /\ r.applied = EffectiveRecords(r.lsn)
    /\ \A j \in 1 .. r.lsn : IsSelfProposal(log[j]) => ~EsnLess(r.dedup, log[j].esn)
    /\ r.dedup = <<INVALID, 0>> \/ InLog(r.lsn, r.dedup)

ReplicasOK == \A p \in Proc : ReplicaOK(store[p]) /\ ReplicaOK(pp[p].replica)

\* the role of a processor and how far it has read the log
RoleOK(s) ==
    /\ s.mode = "Follower" <=> s.epoch = INVALID
    /\ ~s.up => s.mode = "Follower"
    /\ s.mode = "Candidate" => s.replica.dedup[1] < s.epoch /\ s.next = 1
    /\ s.mode = "BecomingLeader" => s.replica.dedup[1] = s.epoch /\ s.next = 2
    /\ s.mode = "Leader" => s.replica.dedup[1] = s.epoch /\ s.next >= 1

RolesOK == \A p \in Proc : RoleOK(pp[p])

\* a leader has read every barrier of its epoch
Passed(s, r) == r.kind = "barrier" /\ r.esn[1] = s.epoch => ~EsnLess(s.replica.dedup, r.esn)

\* what was proposed in the epoch of a processor, and what was not
ProposerOK(s) ==
    s.mode # "Follower" =>
        /\ \A i \in 1 .. Len(queue[s.epoch]) :
             IsSelfProposal(queue[s.epoch][i]) => queue[s.epoch][i].esn[2] < s.next
        /\ \A i \in 1 .. Len(log) :
             IsSelfProposal(log[i]) /\ log[i].esn[1] = s.epoch => log[i].esn[2] < s.next
        /\ \/ InQueue(s.epoch, Len(queue[s.epoch]), <<s.epoch, s.next - 1>>)
           \/ InLog(Len(log), <<s.epoch, s.next - 1>>)
        /\ s.mode = "Leader" => /\ \A i \in 1 .. Len(queue[s.epoch]) : Passed(s, queue[s.epoch][i])
                                /\ \A i \in 1 .. Len(log) : Passed(s, log[i])

ProposersOK == \A p \in Proc : ProposerOK(pp[p])

\* no processor has campaigned with the epoch yet
Unused(e) ==
    /\ queue[e] = <<>>
    /\ \A i \in 1 .. Len(log) : IsSelfProposal(log[i]) => log[i].esn[1] # e
    /\ \A p \in Proc : pp[p].epoch # e

\* an epoch is claimed once, obtained once and used once
EpochsOK ==
    /\ \A e \in Epoch : e > claimed => Unused(e)
    /\ \A c \in claims : c.epoch <= claimed /\ Unused(c.epoch) /\ \A p \in Proc : target[p] # c.epoch
    /\ \A c, d \in claims : c.epoch = d.epoch => c = d
    /\ \A p \in Proc : target[p] # INVALID => target[p] <= claimed /\ Unused(target[p])
    /\ \A p, q \in Proc : p # q /\ target[p] # INVALID => target[p] # target[q]
    /\ \A p, q \in Proc : p # q /\ pp[p].epoch # INVALID => pp[p].epoch # pp[q].epoch

\* what the actuators of a leader were told, or will be at the end of the batch
ActionOK(s) ==
    /\ s.batch = 0 => s.actions = {}
    /\ s.mode = "Leader" =>
         {i \in s.replica.applied : log[i].kind \in {"command", "forwarded"}} \subseteq s.told \cup s.actions

ActionsOK == \A p \in Proc : ActionOK(pp[p])

TokensOK == \A p \in Proc : manager[p].token <= faults

LeadershipInv ==
    /\ TypeOK /\ TokensOK /\ RecordsOK /\ PredecessorsFirst
    /\ ReplicasOK /\ RolesOK /\ ProposersOK /\ EpochsOK /\ ActionsOK

-----------------------------------------------------------------------------
(* Facts about the operators *)

LEMMA Numbers ==
    /\ MaxEpoch \in Nat /\ MaxSeq \in Nat /\ MaxSeq >= 1 /\ MaxBatch \in Nat /\ MaxBatch >= 1
    /\ MaxForwarded \in Nat /\ MaxFaults \in Nat
    /\ \A e \in Epoch : e \in Nat /\ e >= 1 /\ e # INVALID /\ e \in 0 .. MaxEpoch
    /\ \A e \in 0 .. MaxEpoch : e \in Nat /\ (e # INVALID => e \in Epoch)
  BY LeadershipAssumption DEF Epoch, INVALID

LEMMA EsnPair ==
    /\ \A a \in Esn : a[1] \in Nat /\ a[2] \in Nat /\ a = <<a[1], a[2]>> /\ a[1] \in 0 .. MaxEpoch
    /\ \A e \in 0 .. MaxEpoch, n \in 0 .. MaxSeq :
         <<e, n>> \in Esn /\ <<e, n>>[1] = e /\ <<e, n>>[2] = n
    /\ <<INVALID, 0>> \in Esn
  BY Numbers DEF Esn, INVALID

LEMMA EsnTransitive ==
    ASSUME NEW a \in Esn, NEW b \in Esn, NEW c \in Esn, ~EsnLess(b, a), EsnLess(b, c)
    PROVE  EsnLess(a, c)
  BY EsnPair DEF EsnLess

LEMMA EsnTotal ==
    ASSUME NEW a \in Esn, NEW b \in Esn, ~EsnLess(a, b)
    PROVE  EsnLess(b, a) \/ a = b
  BY EsnPair DEF EsnLess

LEMMA RecordFields ==
    ASSUME NEW r \in Record
    PROVE  /\ r.esn \in Esn /\ r.kind \in {"announce", "barrier", "command", "forwarded"}
           /\ IsSelfProposal(r) <=> r.kind \in {"announce", "barrier", "command"}
  BY DEF Record, IsSelfProposal

LEMMA LogFields ==
    ASSUME TypeOK
    PROVE  /\ Len(log) \in Nat /\ \A i \in 1 .. Len(log) : log[i] \in Record
           /\ \A e \in Epoch : /\ queue[e] \in Seq(Record) /\ Len(queue[e]) \in Nat
                               /\ \A i \in 1 .. Len(queue[e]) : queue[e][i] \in Record
  BY DEF TypeOK

LEMMA ReplicaFields ==
    ASSUME NEW r \in Replica
    PROVE  /\ r.lsn \in Nat /\ r.dedup \in Esn /\ r.applied \subseteq Nat /\ r.feature \in BOOLEAN
  BY DEF Replica

LEMMA ProcessorFields ==
    ASSUME NEW s \in Processor
    PROVE  /\ s.up \in BOOLEAN /\ s.mode \in {"Follower", "Candidate", "BecomingLeader", "Leader"}
           /\ s.epoch \in 0 .. MaxEpoch /\ s.next \in 0 .. MaxSeq + 1 /\ s.observed \in 0 .. MaxEpoch
           /\ s.batch \in 0 .. MaxBatch /\ s.actions \subseteq Nat /\ s.told \subseteq Nat
           /\ s.replica \in Replica
  BY DEF Processor

-----------------------------------------------------------------------------
(* Reading the log *)

LogExtended == Len(log) <= Len(log') /\ \A i \in 1 .. Len(log) : log'[i] = log[i]

LEMMA EffectivePrefix ==
    ASSUME TypeOK, TypeOK', LogExtended, NEW n \in Nat, n <= Len(log)
    PROVE  EffectiveRecords(n)' = EffectiveRecords(n)
  <1>1. \A i \in 1 .. n : log'[i] = log[i]
    BY LogFields DEF LogExtended
  <1>2. \A i \in 1 .. n : \A j \in 1 .. i - 1 : log'[j] = log[j]
    BY <1>1
  <1> QED
    BY <1>1, <1>2 DEF EffectiveRecords, IsSelfProposal

LEMMA ReplicaKept ==
    ASSUME TypeOK, TypeOK', LogExtended, NEW r \in Replica, ReplicaOK(r)
    PROVE  ReplicaOK(r)'
  <1>1. r.lsn \in Nat /\ Len(log) \in Nat /\ r.lsn <= Len(log) /\ Len(log') \in Nat
    BY LogFields, ReplicaFields DEF ReplicaOK, TypeOK
  <1>2. \A i \in 1 .. r.lsn : log'[i] = log[i]
    BY <1>1 DEF LogExtended
  <1>3. r.lsn <= Len(log')
    BY <1>1 DEF LogExtended
  <1>4. EffectiveRecords(r.lsn)' = EffectiveRecords(r.lsn)
    BY <1>1, EffectivePrefix
  <1> QED
    BY <1>2, <1>3, <1>4 DEF ReplicaOK, InLog, IsSelfProposal, EsnLess

LEMMA EffectiveNext ==
    ASSUME TypeOK, NEW n \in Nat, n < Len(log)
    PROVE  EffectiveRecords(n + 1) =
             EffectiveRecords(n) \cup
               (IF IsSelfProposal(log[n + 1]) =>
                     \A j \in 1 .. n : IsSelfProposal(log[j]) => EsnLess(log[j].esn, log[n + 1].esn)
                THEN {n + 1} ELSE {})
  <1>1. 1 .. n + 1 = 1 .. n \cup {n + 1}
    OBVIOUS
  <1>2. (n + 1) - 1 = n
    OBVIOUS
  <1> QED
    BY <1>1, <1>2 DEF EffectiveRecords

\* a record is a duplicate just when it is not an effective one
LEMMA DuplicateMeans ==
    ASSUME TypeOK, RecordsOK, NEW c \in Replica, ReplicaOK(c), c.lsn < Len(log)
    PROVE  IsDuplicate(c, log[c.lsn + 1]) <=>
             ~(IsSelfProposal(log[c.lsn + 1]) =>
                 \A j \in 1 .. c.lsn : IsSelfProposal(log[j]) =>
                    EsnLess(log[j].esn, log[c.lsn + 1].esn))
  <1> DEFINE r == log[c.lsn + 1]
  <1>1. c.lsn \in Nat /\ c.lsn + 1 \in 1 .. Len(log) /\ Len(log) \in Nat /\ c.dedup \in Esn
    BY LogFields, ReplicaFields
  <1>2. r \in Record /\ r.esn \in Esn
    BY <1>1, LogFields, RecordFields
  <1>3. \A j \in 1 .. c.lsn : log[j] \in Record /\ log[j].esn \in Esn
    BY <1>1, LogFields, RecordFields
  <1>4. ASSUME IsSelfProposal(r), EsnLess(c.dedup, r.esn), NEW j \in 1 .. c.lsn, IsSelfProposal(log[j])
        PROVE  EsnLess(log[j].esn, r.esn)
    <2>1. ~EsnLess(c.dedup, log[j].esn)
      BY <1>4 DEF ReplicaOK
    <2> QED
      BY <1>1, <1>2, <1>3, <1>4, <2>1, EsnTransitive
  <1>5. ASSUME IsSelfProposal(r), ~EsnLess(c.dedup, r.esn)
        PROVE  \E j \in 1 .. c.lsn : IsSelfProposal(log[j]) /\ ~EsnLess(log[j].esn, r.esn)
    <2>1. CASE c.dedup = <<INVALID, 0>>
      <3>1. r.esn[1] \in Epoch
        BY <1>1, <1>5 DEF RecordsOK
      <3> QED
        BY <1>5, <2>1, <3>1, Numbers, EsnPair DEF EsnLess, INVALID
    <2>2. CASE InLog(c.lsn, c.dedup)
      BY <1>5, <2>2 DEF InLog
    <2> QED
      BY <2>1, <2>2 DEF ReplicaOK
  <1> QED
    BY <1>4, <1>5 DEF IsDuplicate

\* a duplicate changes nothing but the position
LEMMA SkipOK ==
    ASSUME TypeOK, RecordsOK, NEW c \in Replica, ReplicaOK(c), c.lsn < Len(log),
           IsDuplicate(c, log[c.lsn + 1]), NEW d \in Replica, d.lsn = c.lsn + 1,
           d.applied = c.applied, d.dedup = c.dedup
    PROVE  ReplicaOK(d)
  <1>1. c.lsn \in Nat /\ Len(log) \in Nat /\ d.lsn <= Len(log)
    BY LogFields, ReplicaFields
  <1>2. d.applied = EffectiveRecords(d.lsn)
    BY <1>1, DuplicateMeans, EffectiveNext DEF ReplicaOK
  <1>3. \A j \in 1 .. d.lsn : IsSelfProposal(log[j]) => ~EsnLess(d.dedup, log[j].esn)
    <2>1. \A j \in 1 .. d.lsn : j \in 1 .. c.lsn \/ j = c.lsn + 1
      BY <1>1
    <2> QED
      BY <2>1 DEF ReplicaOK, IsDuplicate
  <1>4. \A j \in 1 .. c.lsn : j \in 1 .. d.lsn
    BY <1>1
  <1> QED
    BY <1>1, <1>2, <1>3, <1>4 DEF ReplicaOK, InLog

\* an effective record is applied, and its ESN becomes the bound
LEMMA AdvanceOK ==
    ASSUME TypeOK, RecordsOK, NEW c \in Replica, ReplicaOK(c), c.lsn < Len(log),
           ~IsDuplicate(c, log[c.lsn + 1]), NEW d \in Replica, d.lsn = c.lsn + 1,
           d.applied = c.applied \cup {c.lsn + 1},
           d.dedup = IF IsSelfProposal(log[c.lsn + 1]) THEN log[c.lsn + 1].esn ELSE c.dedup
    PROVE  ReplicaOK(d)
  <1> DEFINE r == log[c.lsn + 1]
  <1>1. c.lsn \in Nat /\ Len(log) \in Nat /\ d.lsn <= Len(log) /\ c.lsn + 1 \in 1 .. Len(log)
    BY LogFields, ReplicaFields
  <1>2. d.applied = EffectiveRecords(d.lsn)
    BY <1>1, DuplicateMeans, EffectiveNext DEF ReplicaOK
  <1>3. ASSUME NEW j \in 1 .. d.lsn, IsSelfProposal(log[j])
        PROVE  ~EsnLess(d.dedup, log[j].esn)
    <2>1. j \in 1 .. c.lsn \/ j = c.lsn + 1
      BY <1>1
    <2>2. log[j].esn \in Esn /\ r.esn \in Esn /\ c.dedup \in Esn
      BY <1>1, <2>1, LogFields, RecordFields, ReplicaFields
    <2>3. CASE j = c.lsn + 1
      BY <1>3, <2>2, <2>3, EsnPair DEF EsnLess
    <2>4. CASE j \in 1 .. c.lsn
      <3>1. ~EsnLess(c.dedup, log[j].esn)
        BY <1>3, <2>4 DEF ReplicaOK
      <3>2. CASE IsSelfProposal(r)
        <4>1. EsnLess(c.dedup, r.esn)
          BY <3>2 DEF IsDuplicate
        <4>2. EsnLess(log[j].esn, r.esn)
          BY <2>2, <3>1, <4>1, EsnTransitive
        <4> QED
          BY <2>2, <3>2, <4>2, EsnPair DEF EsnLess
      <3>3. CASE ~IsSelfProposal(r)
        BY <3>1, <3>3
      <3> QED
        BY <3>2, <3>3
    <2> QED
      BY <2>1, <2>3, <2>4
  <1>4. d.dedup = <<INVALID, 0>> \/ InLog(d.lsn, d.dedup)
    <2>1. CASE IsSelfProposal(r)
      <3>1. c.lsn + 1 \in 1 .. d.lsn
        BY <1>1
      <3> QED
        BY <2>1, <3>1 DEF InLog
    <2>2. CASE ~IsSelfProposal(r)
      <3>1. \A j \in 1 .. c.lsn : j \in 1 .. d.lsn
        BY <1>1
      <3> QED
        BY <2>2, <3>1 DEF ReplicaOK, InLog
    <2> QED
      BY <2>1, <2>2
  <1> QED
    BY <1>1, <1>2, <1>3, <1>4 DEF ReplicaOK

\* what a record that is not a duplicate can be
LEMMA NextRecordIs ==
    ASSUME TypeOK, RecordsOK, PredecessorsFirst, NEW c \in Replica, ReplicaOK(c), c.lsn < Len(log),
           ~IsDuplicate(c, log[c.lsn + 1]), IsSelfProposal(log[c.lsn + 1])
    PROVE  /\ log[c.lsn + 1].esn[1] \in Epoch /\ EsnLess(c.dedup, log[c.lsn + 1].esn)
           /\ log[c.lsn + 1].kind = "announce" =>
                log[c.lsn + 1].esn[2] = 0 /\ c.dedup[1] < log[c.lsn + 1].esn[1]
           /\ log[c.lsn + 1].kind # "announce" =>
                log[c.lsn + 1].esn[2] > 0 /\ c.dedup[1] = log[c.lsn + 1].esn[1]
  <1> DEFINE r == log[c.lsn + 1]
  <1>1. c.lsn \in Nat /\ Len(log) \in Nat /\ c.lsn + 1 \in 1 .. Len(log) /\ (c.lsn + 1) - 1 = c.lsn
    BY LogFields, ReplicaFields
  <1>2. r.esn \in Esn /\ c.dedup \in Esn
    BY <1>1, LogFields, RecordFields, ReplicaFields
  <1>3. r.esn[1] \in Epoch /\ (r.esn[2] = 0 <=> r.kind = "announce")
    BY <1>1 DEF RecordsOK, RecordOK
  <1>4. EsnLess(c.dedup, r.esn)
    BY DEF IsDuplicate
  <1>5. ASSUME r.kind = "announce" PROVE c.dedup[1] < r.esn[1] /\ r.esn[2] = 0
    BY <1>2, <1>3, <1>4, <1>5, EsnPair DEF EsnLess
  <1>6. ASSUME r.kind # "announce" PROVE c.dedup[1] = r.esn[1] /\ r.esn[2] > 0
    <2>1. r.esn[2] > 0
      BY <1>2, <1>3, <1>6, EsnPair
    <2>2. InLog((c.lsn + 1) - 1, <<r.esn[1], r.esn[2] - 1>>)
      BY <1>1, <2>1 DEF PredecessorsFirst
    <2>3. PICK j \in 1 .. c.lsn : IsSelfProposal(log[j]) /\ log[j].esn = <<r.esn[1], r.esn[2] - 1>>
      BY <1>1, <2>2 DEF InLog
    <2>4. ~EsnLess(c.dedup, log[j].esn)
      BY <2>3 DEF ReplicaOK
    <2>5. log[j].esn[1] = r.esn[1]
      BY <2>3
    <2> QED
      BY <1>2, <1>4, <2>1, <2>4, <2>5, EsnPair DEF EsnLess
  <1> QED
    BY <1>3, <1>4, <1>5, <1>6

-----------------------------------------------------------------------------
(* One processor changes *)

LEMMA ActionKept ==
    ASSUME TypeOK, TypeOK', LogExtended, NEW s \in Processor, ReplicaOK(s.replica), ActionOK(s)
    PROVE  ActionOK(s)'
  <1>1. s.replica.lsn \in Nat /\ Len(log) \in Nat /\ s.replica.lsn <= Len(log)
    BY LogFields, ReplicaFields, ProcessorFields DEF ReplicaOK
  <1>2. s.replica.applied \subseteq 1 .. Len(log)
    BY <1>1 DEF ReplicaOK, EffectiveRecords
  <1>3. \A i \in s.replica.applied : log'[i] = log[i]
    BY <1>2 DEF LogExtended
  <1> QED
    BY <1>3 DEF ActionOK

LEMMA OneProcessor ==
    ASSUME LeadershipInv, TypeOK', LogExtended, NEW p \in Proc, NEW s \in Processor, NEW u \in Replica,
           pp' = [pp EXCEPT ![p] = s], store' = [store EXCEPT ![p] = u],
           ReplicaOK(s.replica)', ReplicaOK(u)', RoleOK(s), ActionOK(s)'
    PROVE  ReplicasOK' /\ RolesOK' /\ ActionsOK'
  <1>1. \A q \in Proc : pp[q] \in Processor /\ store[q] \in Replica /\ pp[q].replica \in Replica
    BY ProcessorFields DEF LeadershipInv, TypeOK
  <1>2. pp'[p] = s /\ store'[p] = u /\ \A q \in Proc \ {p} : pp'[q] = pp[q] /\ store'[q] = store[q]
    BY DEF LeadershipInv, TypeOK
  <1>3. ASSUME NEW q \in Proc PROVE ReplicaOK(store[q])' /\ ReplicaOK(pp[q].replica)'
    <2>1. CASE q = p
      BY <1>2, <2>1 DEF ReplicaOK, InLog, EffectiveRecords
    <2>2. CASE q # p
      <3> PICK a \in Replica, b \in Replica : a = store[q] /\ b = pp[q].replica
        BY <1>1
      <3>1. ReplicaOK(a) /\ ReplicaOK(b)
        BY DEF LeadershipInv, ReplicasOK
      <3>2. ReplicaOK(a)' /\ ReplicaOK(b)'
        BY <3>1, ReplicaKept DEF LeadershipInv
      <3> QED
        BY <1>2, <2>2, <3>2 DEF ReplicaOK, InLog, EffectiveRecords
    <2> QED
      BY <2>1, <2>2
  <1>4. ASSUME NEW q \in Proc PROVE RoleOK(pp[q])'
    BY <1>2 DEF LeadershipInv, RolesOK, RoleOK
  <1>5. ASSUME NEW q \in Proc PROVE ActionOK(pp[q])'
    <2>1. CASE q = p
      BY <1>2, <2>1 DEF ActionOK
    <2>2. CASE q # p
      <3> PICK t \in Processor : t = pp[q]
        BY <1>1
      <3>1. ReplicaOK(t.replica) /\ ActionOK(t)
        BY DEF LeadershipInv, ReplicasOK, ActionsOK
      <3>2. ActionOK(t)'
        BY <3>1, ActionKept DEF LeadershipInv
      <3> QED
        BY <1>2, <2>2, <3>2 DEF ActionOK
    <2> QED
      BY <2>1, <2>2
  <1> QED
    BY <1>3, <1>4, <1>5 DEF ReplicasOK, RolesOK, ActionsOK

\* the use of epochs, when one processor may start with its target
LEMMA EpochsKept ==
    ASSUME LeadershipInv, NEW p \in Proc, NEW s \in Processor, pp' = [pp EXCEPT ![p] = s],
           UNCHANGED <<claimed, claims>>,
           target' = target \/ target' = [target EXCEPT ![p] = INVALID],
           \/ s.epoch \in {INVALID, pp[p].epoch}
           \/ s.epoch = target[p] /\ target' = [target EXCEPT ![p] = INVALID],
           \A e \in Epoch : Unused(e) /\ s.epoch # e =>
               /\ queue'[e] = <<>>
               /\ \A i \in 1 .. Len(log') : IsSelfProposal(log'[i]) => log'[i].esn[1] # e
    PROVE  EpochsOK'
  <1>1. /\ pp'[p] = s /\ \A q \in Proc \ {p} : pp'[q] = pp[q]
        /\ \A q \in Proc : target'[q] \in {INVALID, target[q]} /\ target[q] \in 0 .. MaxEpoch
        /\ claims \subseteq Claim /\ claimed \in 0 .. MaxEpoch
        /\ \A q \in Proc : pp[q].epoch \in 0 .. MaxEpoch
    BY ProcessorFields DEF LeadershipInv, TypeOK
  <1>2. \A c \in claims : c.epoch \in Epoch
    BY <1>1 DEF Claim
  <1>3. ASSUME NEW e \in Epoch, Unused(e), s.epoch # e PROVE Unused(e)'
    BY <1>1, <1>3 DEF Unused, IsSelfProposal
  <1>4. \A e \in Epoch : Unused(e) /\ s.epoch = e => e = target[p] /\ target'[p] = INVALID
    BY <1>1, Numbers DEF Unused, LeadershipInv, TypeOK
  <1>5. \A e \in Epoch : e > claimed' => Unused(e)'
    BY <1>1, <1>3, <1>4, Numbers DEF LeadershipInv, EpochsOK
  <1>6. \A c \in claims' : /\ c.epoch <= claimed' /\ Unused(c.epoch)'
                           /\ \A q \in Proc : target'[q] # c.epoch
    <2> SUFFICES ASSUME NEW c \in claims
                 PROVE  c.epoch <= claimed /\ Unused(c.epoch)' /\ \A q \in Proc : target'[q] # c.epoch
      OBVIOUS
    <2>1. c.epoch <= claimed /\ Unused(c.epoch) /\ \A q \in Proc : target[q] # c.epoch
      BY DEF LeadershipInv, EpochsOK
    <2>2. Unused(c.epoch)'
      BY <1>2, <1>3, <1>4, <2>1
    <2> QED
      BY <1>1, <1>2, <2>1, <2>2, Numbers
  <1>7. \A c, d \in claims' : c.epoch = d.epoch => c = d
    BY DEF LeadershipInv, EpochsOK
  <1>8. \A q \in Proc : target'[q] # INVALID => target'[q] <= claimed' /\ Unused(target[q])'
    <2> SUFFICES ASSUME NEW q \in Proc, target'[q] # INVALID
                 PROVE  target'[q] <= claimed' /\ Unused(target[q])'
      OBVIOUS
    <2> PICK e : e = target[q]
      OBVIOUS
    <2>1. target'[q] = e /\ e \in Epoch /\ e <= claimed /\ Unused(e)
      BY <1>1, Numbers DEF LeadershipInv, EpochsOK
    <2>2. s.epoch # e
      <3>1. CASE q = p
        BY <1>4, <2>1, <3>1
      <3>2. CASE q # p
        BY <1>4, <2>1, <3>2, Numbers DEF LeadershipInv, EpochsOK
      <3> QED
        BY <3>1, <3>2
    <2>3. Unused(e)'
      BY <1>3, <2>1, <2>2
    <2> QED
      BY <2>1, <2>3 DEF Unused
  <1>9. \A q, t \in Proc : q # t /\ target'[q] # INVALID => target'[q] # target'[t]
    BY <1>1 DEF LeadershipInv, EpochsOK
  <1>10. \A q, t \in Proc : q # t /\ pp'[q].epoch # INVALID => pp'[q].epoch # pp'[t].epoch
    <2>1. \A q, t \in Proc : q # t /\ pp[q].epoch # INVALID => pp[q].epoch # pp[t].epoch
      BY DEF LeadershipInv, EpochsOK
    <2>2. \A q \in Proc \ {p} : s.epoch # INVALID => s.epoch # pp[q].epoch
      BY <2>1 DEF LeadershipInv, EpochsOK, Unused
    <2> QED
      BY <1>1, <2>1, <2>2
  <1> QED
    BY <1>5, <1>6, <1>7, <1>8, <1>9, <1>10 DEF EpochsOK

LEMMA SameLog ==
    ASSUME TypeOK, UNCHANGED <<log, queue>>
    PROVE  /\ LogExtended
           /\ \A r : ReplicaOK(r) => ReplicaOK(r)'
           /\ \A t : ProposerOK(t) => ProposerOK(t)'
           /\ \A t : ActionOK(t) => ActionOK(t)'
           /\ RecordsOK => RecordsOK'
           /\ PredecessorsFirst => PredecessorsFirst'
  <1>1. LogExtended
    BY LogFields DEF LogExtended
  <1>2. \A r : ReplicaOK(r) => ReplicaOK(r)'
    BY DEF ReplicaOK, InLog, EffectiveRecords
  <1>3. \A t : ProposerOK(t) => ProposerOK(t)'
    BY DEF ProposerOK, InLog, InQueue, Passed
  <1>4. \A t : ActionOK(t) => ActionOK(t)'
    BY DEF ActionOK
  <1>5. RecordsOK => RecordsOK'
    BY DEF RecordsOK, RecordOK
  <1>6. PredecessorsFirst => PredecessorsFirst'
    BY DEF PredecessorsFirst, InLog, InQueue
  <1> QED
    BY <1>1, <1>2, <1>3, <1>4, <1>5, <1>6

\* a step of one processor that neither proposes nor appends
LEMMA ReadStep ==
    ASSUME LeadershipInv, TypeOK', TokensOK', NEW p \in Proc, NEW s \in Processor, NEW u \in Replica,
           pp' = [pp EXCEPT ![p] = s], store' = [store EXCEPT ![p] = u],
           UNCHANGED <<log, queue, claimed, claims>>,
           target' = target \/ target' = [target EXCEPT ![p] = INVALID],
           s.epoch \in {INVALID, pp[p].epoch},
           ReplicaOK(s.replica), ReplicaOK(u), RoleOK(s), ActionOK(s), ProposerOK(s)
    PROVE  LeadershipInv'
  <1> TypeOK
    BY DEF LeadershipInv
  <1>1. RecordsOK' /\ PredecessorsFirst' /\ LogExtended
    BY SameLog DEF LeadershipInv
  <1>2. ReplicaOK(s.replica)' /\ ReplicaOK(u)' /\ ActionOK(s)' /\ ProposerOK(s)'
    <2> PICK r : r = s.replica
      OBVIOUS
    <2>1. ReplicaOK(r)'
      BY SameLog
    <2> QED
      BY <2>1, SameLog
  <1>3. ReplicasOK' /\ RolesOK' /\ ActionsOK'
    BY <1>1, <1>2, OneProcessor
  <1>4. ProposersOK'
    <2> SUFFICES ASSUME NEW q \in Proc PROVE ProposerOK(pp[q])'
      BY DEF ProposersOK
    <2> PICK t : t = pp'[q]
      OBVIOUS
    <2>1. ProposerOK(t)
      BY DEF LeadershipInv, ProposersOK
    <2>2. ProposerOK(t)'
      BY <2>1, SameLog
    <2> QED
      BY <2>2 DEF ProposerOK, Passed
  <1>5. EpochsOK'
    BY EpochsKept DEF Unused
  <1> QED
    BY <1>1, <1>3, <1>4, <1>5 DEF LeadershipInv

-----------------------------------------------------------------------------
(* One processor proposes a record *)

LEMMA AppendShape ==
    ASSUME TypeOK, NEW e \in Epoch, NEW r \in Record, queue' = [queue EXCEPT ![e] = Append(@, r)]
    PROVE  /\ queue' \in [Epoch -> Seq(Record)]
           /\ Len(queue'[e]) = Len(queue[e]) + 1
           /\ \A i \in 1 .. Len(queue[e]) : queue'[e][i] = queue[e][i]
           /\ queue'[e][Len(queue[e]) + 1] = r
           /\ \A f \in Epoch \ {e} : queue'[f] = queue[f]
  <1>1. queue[e] \in Seq(Record) /\ queue'[e] = Append(queue[e], r)
    BY DEF TypeOK
  <1>2. \A f \in Epoch \ {e} : queue'[f] = queue[f]
    BY DEF TypeOK
  <1>3. queue' \in [Epoch -> Seq(Record)]
    BY <1>1 DEF TypeOK
  <1> QED
    BY <1>1, <1>2, <1>3

LEMMA RecordsAppend ==
    ASSUME LeadershipInv, NEW e \in Epoch, NEW r \in Record,
           queue' = [queue EXCEPT ![e] = Append(@, r)], UNCHANGED log, RecordOK(r, e),
           IsSelfProposal(r) /\ r.esn[2] > 0 =>
              \/ InQueue(e, Len(queue[e]), <<e, r.esn[2] - 1>>)
              \/ InLog(Len(log), <<e, r.esn[2] - 1>>)
    PROVE  RecordsOK' /\ PredecessorsFirst'
  <1> TypeOK
    BY DEF LeadershipInv
  <1>1. \A f \in Epoch : \A i \in 1 .. Len(queue'[f]) :
          \/ i \in 1 .. Len(queue[f]) /\ queue'[f][i] = queue[f][i]
          \/ f = e /\ i = Len(queue[e]) + 1 /\ queue'[f][i] = r
    BY AppendShape, LogFields
  <1>2. RecordsOK'
    BY <1>1 DEF LeadershipInv, RecordsOK, RecordOK
  <1>3. ASSUME NEW f \in Epoch, NEW n \in Nat, n <= Len(queue[f]), NEW x, InQueue(f, n, x)
        PROVE  InQueue(f, n, x)'
    <2>1. \A j \in 1 .. n : queue'[f][j] = queue[f][j]
      BY <1>3, AppendShape, LogFields
    <2> QED
      BY <1>3, <2>1 DEF InQueue
  <1>4. \A n, x : InLog(n, x) => InLog(n, x)'
    BY DEF InLog
  <1>5. ASSUME NEW f \in Epoch, NEW i \in 1 .. Len(queue'[f]), NEW c, c = queue'[f][i],
               IsSelfProposal(c), c.esn[2] > 0
        PROVE  \A m : m = Len(log) => InQueue(f, i - 1, <<f, c.esn[2] - 1>>)' \/ InLog(m, <<f, c.esn[2] - 1>>)'
    <2>1. CASE i \in 1 .. Len(queue[f]) /\ queue'[f][i] = queue[f][i]
      <3>1. InQueue(f, i - 1, <<f, c.esn[2] - 1>>) \/ InLog(Len(log), <<f, c.esn[2] - 1>>)
        BY <1>5, <2>1 DEF LeadershipInv, PredecessorsFirst
      <3>2. i - 1 \in Nat /\ i - 1 <= Len(queue[f])
        BY <2>1, LogFields
      <3> QED
        BY <1>3, <1>4, <3>1, <3>2
    <2>2. CASE f = e /\ i = Len(queue[e]) + 1 /\ queue'[f][i] = r
      <3>1. InQueue(e, Len(queue[e]), <<e, c.esn[2] - 1>>) \/ InLog(Len(log), <<e, c.esn[2] - 1>>)
        BY <1>5, <2>2
      <3>2. i - 1 = Len(queue[e]) /\ Len(queue[e]) \in Nat
        BY <2>2, LogFields
      <3> QED
        BY <1>3, <1>4, <2>2, <3>1, <3>2
    <2> QED
      BY <1>1, <2>1, <2>2
  <1>6. PredecessorsFirst'
    BY <1>4, <1>5 DEF LeadershipInv, PredecessorsFirst
  <1> QED
    BY <1>2, <1>6

\* a processor after it has proposed r with the epoch e
LEMMA ProposerAppends ==
    ASSUME TypeOK, NEW e \in Epoch, NEW r \in Record, NEW s \in Processor,
           queue' = [queue EXCEPT ![e] = Append(@, r)], UNCHANGED log, s.epoch = e,
           \A i \in 1 .. Len(queue[e]) : IsSelfProposal(queue[e][i]) => queue[e][i].esn[2] < s.next,
           \A i \in 1 .. Len(log) :
               IsSelfProposal(log[i]) /\ log[i].esn[1] = e => log[i].esn[2] < s.next,
           IsSelfProposal(r) => r.esn[2] < s.next,
           \/ InQueue(e, Len(queue[e]), <<e, s.next - 1>>)
           \/ InLog(Len(log), <<e, s.next - 1>>)
           \/ IsSelfProposal(r) /\ r.esn = <<e, s.next - 1>>,
           s.mode = "Leader" => /\ \A i \in 1 .. Len(queue[e]) : Passed(s, queue[e][i])
                                /\ \A i \in 1 .. Len(log) : Passed(s, log[i])
                                /\ Passed(s, r)
    PROVE  ProposerOK(s)'
  <1>1. \A i \in 1 .. Len(queue'[e]) :
          \/ i \in 1 .. Len(queue[e]) /\ queue'[e][i] = queue[e][i]
          \/ i = Len(queue[e]) + 1 /\ queue'[e][i] = r
    BY AppendShape, LogFields
  <1>2. \A i \in 1 .. Len(queue'[e]) : IsSelfProposal(queue'[e][i]) => queue'[e][i].esn[2] < s.next
    BY <1>1
  <1>3. s.mode = "Leader" => /\ \A i \in 1 .. Len(queue'[e]) : Passed(s, queue'[e][i])
                             /\ \A i \in 1 .. Len(log') : Passed(s, log'[i])
    BY <1>1
  <1>4. \A m : m = Len(queue'[e]) =>
          \/ InQueue(e, m, <<e, s.next - 1>>)'
          \/ InLog(Len(log), <<e, s.next - 1>>)
    <2>1. Len(queue[e]) \in Nat /\ Len(queue'[e]) = Len(queue[e]) + 1
      BY LogFields, AppendShape
    <2>2. \A j \in 1 .. Len(queue[e]) : queue'[e][j] = queue[e][j] /\ j \in 1 .. Len(queue[e]) + 1
      BY <2>1, AppendShape
    <2>3. queue'[e][Len(queue[e]) + 1] = r /\ Len(queue[e]) + 1 \in 1 .. Len(queue[e]) + 1
      BY <2>1, AppendShape
    <2> QED
      BY <2>1, <2>2, <2>3 DEF InQueue
  <1>5. \A x : InLog(Len(log), x) => \A m : m = Len(log') => InLog(m, x)'
    BY DEF InLog
  <1> QED
    BY <1>2, <1>3, <1>4, <1>5 DEF ProposerOK, Passed

LEMMA ProposeStep ==
    ASSUME LeadershipInv, TypeOK', NEW p \in Proc, NEW s \in Processor, NEW u \in Replica,
           NEW e \in Epoch, NEW r \in Record,
           pp' = [pp EXCEPT ![p] = s], store' = [store EXCEPT ![p] = u],
           queue' = [queue EXCEPT ![e] = Append(@, r)],
           UNCHANGED <<log, claimed, claims, manager>>, faults' = faults,
           target' = target \/ target' = [target EXCEPT ![p] = INVALID],
           s.epoch = e,
           \/ s.epoch = pp[p].epoch
           \/ s.epoch = target[p] /\ target' = [target EXCEPT ![p] = INVALID],
           ReplicaOK(s.replica), ReplicaOK(u), RoleOK(s), ActionOK(s), ProposerOK(s)',
           RecordOK(r, e),
           IsSelfProposal(r) /\ r.esn[2] > 0 =>
              \/ InQueue(e, Len(queue[e]), <<e, r.esn[2] - 1>>)
              \/ InLog(Len(log), <<e, r.esn[2] - 1>>)
    PROVE  LeadershipInv'
  <1> TypeOK
    BY DEF LeadershipInv
  <1>1. RecordsOK' /\ PredecessorsFirst'
    BY RecordsAppend
  <1>2. LogExtended /\ TokensOK'
    BY LogFields DEF LogExtended, LeadershipInv, TokensOK
  <1>3. ReplicaOK(s.replica)' /\ ReplicaOK(u)' /\ ActionOK(s)'
    BY ReplicaKept, ActionKept, ProcessorFields, <1>2
  <1>4. ReplicasOK' /\ RolesOK' /\ ActionsOK'
    BY <1>2, <1>3, OneProcessor
  <1>5. EpochsOK'
    BY EpochsKept, AppendShape DEF Unused
  <1>6. ProposersOK'
    <2> SUFFICES ASSUME NEW q \in Proc PROVE ProposerOK(pp[q])'
      BY DEF ProposersOK
    <2> PICK t : t = pp'[q]
      OBVIOUS
    <2>1. CASE q = p
      <3>1. t = s
        BY <2>1 DEF TypeOK
      <3> QED
        BY <3>1 DEF ProposerOK, Passed
    <2>2. CASE q # p
      <3>1. t = pp[q] /\ ProposerOK(t) /\ t.epoch \in 0 .. MaxEpoch /\ RoleOK(t)
        BY <2>2, ProcessorFields DEF TypeOK, LeadershipInv, ProposersOK, RolesOK
      <3>2. ASSUME t.mode # "Follower" PROVE t.epoch \in Epoch \ {e}
        <4>1. t.epoch \in Epoch
          BY <3>1, <3>2, Numbers DEF RoleOK
        <4>2. pp'[q].epoch # pp'[p].epoch /\ pp'[p].epoch = e
          BY <1>5, <2>2, <3>1, <3>2, <4>1, Numbers DEF EpochsOK, TypeOK
        <4> QED
          BY <4>1, <4>2
      <3>3. t.mode # "Follower" => queue'[t.epoch] = queue[t.epoch]
        BY <3>2, AppendShape
      <3>4. ProposerOK(t)'
        BY <3>1, <3>3 DEF ProposerOK, InQueue, InLog, Passed
      <3> QED
        BY <3>4 DEF ProposerOK, Passed
    <2> QED
      BY <2>1, <2>2
  <1> QED
    BY <1>1, <1>2, <1>4, <1>5, <1>6 DEF LeadershipInv

-----------------------------------------------------------------------------
(* An appender appends a batch: the first n records of its queue, of which   *)
(* d are then forgotten.                                                     *)

LEMMA BatchShape ==
    ASSUME TypeOK, NEW e \in Epoch, NEW n \in 1 .. Len(queue[e]),
           log' = log \o SubSeq(queue[e], 1, n)
    PROVE  /\ log' \in Seq(Record) /\ LogExtended /\ Len(log') = Len(log) + n
           /\ \A i \in 1 .. n : log'[Len(log) + i] = queue[e][i]
  <1>1. queue[e] \in Seq(Record) /\ log \in Seq(Record) /\ Len(queue[e]) \in Nat
    BY DEF TypeOK
  <1>2. /\ SubSeq(queue[e], 1, n) \in Seq(Record) /\ Len(SubSeq(queue[e], 1, n)) = n
        /\ \A i \in 1 .. n : SubSeq(queue[e], 1, n)[i] = queue[e][i]
    BY <1>1
  <1> QED
    BY <1>1, <1>2 DEF LogExtended

LEMMA DropShape ==
    ASSUME TypeOK, NEW e \in Epoch, NEW n \in 1 .. Len(queue[e]),
           queue' = [queue EXCEPT ![e] = SubSeq(@, n + 1, Len(@))]
    PROVE  /\ queue' \in [Epoch -> Seq(Record)]
           /\ Len(queue'[e]) = Len(queue[e]) - n
           /\ \A i \in 1 .. Len(queue[e]) - n : queue'[e][i] = queue[e][i + n]
           /\ \A f \in Epoch \ {e} : queue'[f] = queue[f]
  <1>1. queue[e] \in Seq(Record) /\ Len(queue[e]) \in Nat
    BY DEF TypeOK
  <1>2. queue'[e] = SubSeq(queue[e], n + 1, Len(queue[e])) /\ \A f \in Epoch \ {e} : queue'[f] = queue[f]
    BY DEF TypeOK
  <1>3. /\ queue'[e] \in Seq(Record) /\ Len(queue'[e]) = Len(queue[e]) - n
        /\ \A i \in 1 .. Len(queue[e]) - n : queue'[e][i] = queue[e][i + n]
    BY <1>1, <1>2
  <1>4. queue' \in [Epoch -> Seq(Record)]
    BY <1>2, <1>3 DEF TypeOK
  <1> QED
    BY <1>2, <1>3, <1>4

LEMMA BatchStep ==
    ASSUME LeadershipInv, TypeOK', NEW e \in Epoch, NEW n \in 1 .. Len(queue[e]), NEW d \in {0, n},
           log' = log \o SubSeq(queue[e], 1, n),
           Len(queue'[e]) = Len(queue[e]) - d,
           \A i \in 1 .. Len(queue[e]) - d : queue'[e][i] = queue[e][i + d],
           \A f \in Epoch \ {e} : queue'[f] = queue[f],
           UNCHANGED <<claimed, claims, manager, target, pp, store, noted>>, faults' >= faults
    PROVE  LeadershipInv'
  <1> USE DEF LeadershipInv
  <1>1. /\ Len(log) \in Nat /\ Len(queue[e]) \in Nat /\ n \in Nat /\ d \in Nat /\ d <= n
        /\ n <= Len(queue[e])
    BY LogFields
  <1>2. /\ LogExtended /\ Len(log') = Len(log) + n
        /\ \A i \in 1 .. n : log'[Len(log) + i] = queue[e][i]
    BY BatchShape
  <1>3. \A i \in 1 .. Len(log') : \/ i \in 1 .. Len(log) /\ log'[i] = log[i]
                                  \/ \E m \in 1 .. n : i = Len(log) + m /\ log'[i] = queue[e][m]
    <2> SUFFICES ASSUME NEW i \in 1 .. Len(log) + n
                 PROVE  \/ i \in 1 .. Len(log) /\ log'[i] = log[i]
                        \/ \E m \in 1 .. n : i = Len(log) + m /\ log'[i] = queue[e][m]
      BY <1>2
    <2>1. CASE i \in 1 .. Len(log)
      BY <1>2, <2>1 DEF LogExtended
    <2>2. CASE i \notin 1 .. Len(log)
      <3> PICK m \in 1 .. n : i = Len(log) + m
        <4> i - Len(log) \in 1 .. n /\ i = Len(log) + (i - Len(log))
          BY <1>1, <2>2
        <4> QED
          OBVIOUS
      <3> QED
        BY <1>2
    <2> QED
      BY <2>1, <2>2
  <1>4. \A f \in Epoch : \A i \in 1 .. Len(queue'[f]) :
          \E m \in 1 .. Len(queue[f]) :
             queue'[f][i] = queue[f][m] /\ m = IF f = e THEN i + d ELSE i
    <2>1. \A l \in Nat : d <= l => \A i \in 1 .. l - d : i + d \in 1 .. l
      BY <1>1
    <2>2. d <= Len(queue[e])
      BY <1>1
    <2>3. \A i \in 1 .. Len(queue[e]) - d : i + d \in 1 .. Len(queue[e])
      BY <1>1, <2>1, <2>2
    <2>4. \A i \in 1 .. Len(queue'[e]) : i + d \in 1 .. Len(queue[e]) /\ queue'[e][i] = queue[e][i + d]
      BY <2>3
    <2> QED
      BY <2>4
  <1>5. \A i \in 1 .. n : i \in 1 .. Len(queue[e])
    BY <1>1
  <1>6. RecordsOK'
    <2>1. \A f \in Epoch : \A i \in 1 .. Len(queue'[f]) : RecordOK(queue'[f][i], f)
      BY <1>4 DEF RecordsOK
    <2>2. \A i \in 1 .. Len(log') : IsSelfProposal(log'[i]) =>
            log'[i].esn[1] \in Epoch /\ RecordOK(log'[i], log'[i].esn[1])
      BY <1>3, <1>5 DEF RecordsOK, RecordOK
    <2> QED
      BY <2>1, <2>2 DEF RecordsOK, RecordOK
  <1>7. ASSUME NEW k \in Nat, k <= Len(log), NEW x, InLog(k, x)
        PROVE  \A m \in Nat : m >= k => InLog(m, x)'
    <2>1. \A j \in 1 .. k : log'[j] = log[j]
      BY <1>1, <1>2, <1>7 DEF LogExtended
    <2> QED
      BY <1>7, <2>1 DEF InLog
  <1>8. ASSUME NEW k \in Nat, k <= n, NEW x, InQueue(e, k, x)
        PROVE  \A m \in Nat : m >= Len(log) + k => InLog(m, x)'
    <2>1. PICK j \in 1 .. k : IsSelfProposal(queue[e][j]) /\ queue[e][j].esn = x
      BY <1>8 DEF InQueue
    <2>2. log'[Len(log) + j] = queue[e][j]
      BY <1>2, <1>8
    <2>3. \A m \in Nat : m >= Len(log) + k => Len(log) + j \in 1 .. m
      BY <1>1
    <2> QED
      BY <2>1, <2>2, <2>3 DEF InLog
  <1>9. ASSUME NEW k \in Nat, k <= Len(queue[e]), NEW x, InQueue(e, k, x)
        PROVE  \/ \A m \in Nat : m >= Len(log) + n => InLog(m, x)'
               \/ k >= d /\ InQueue(e, k - d, x)'
    <2>1. PICK j \in 1 .. k : IsSelfProposal(queue[e][j]) /\ queue[e][j].esn = x
      BY <1>9 DEF InQueue
    <2>2. CASE j <= n
      <3>1. InQueue(e, n, x)
        BY <1>1, <2>1, <2>2 DEF InQueue
      <3> QED
        BY <1>1, <1>8, <3>1
    <2>3. CASE j > n
      <3>1. j - d \in 1 .. k - d /\ j - d \in 1 .. Len(queue[e]) - d /\ (j - d) + d = j /\ k >= d
        BY <1>1, <1>9, <2>3
      <3>2. queue'[e][j - d] = queue[e][j]
        BY <3>1
      <3> QED
        BY <2>1, <3>1, <3>2 DEF InQueue
    <2> QED
      BY <1>1, <2>2, <2>3
  <1>14. ASSUME NEW x, NEW m, m = Len(log'), InLog(Len(log), x) PROVE InLog(m, x)'
    <2>1. m \in Nat /\ m >= Len(log)
      BY <1>1, <1>2, <1>14
    <2> QED
      BY <1>1, <1>7, <1>14, <2>1
  <1>15. ASSUME NEW x, NEW m, m = Len(log'), NEW k \in Nat, k <= Len(queue[e]), InQueue(e, k, x)
         PROVE  InLog(m, x)' \/ (k >= d /\ InQueue(e, k - d, x)')
    <2>1. m \in Nat /\ m >= Len(log) + n
      BY <1>1, <1>2, <1>15
    <2> QED
      BY <1>9, <1>15, <2>1
  <1>10. PredecessorsFirst'
    <2>1. ASSUME NEW i \in 1 .. Len(log'), NEW c, c = log'[i], IsSelfProposal(c), c.esn[2] > 0
          PROVE  InLog(i - 1, <<c.esn[1], c.esn[2] - 1>>)'
      <3>1. CASE i \in 1 .. Len(log) /\ log'[i] = log[i]
        <4>1. InLog(i - 1, <<c.esn[1], c.esn[2] - 1>>)
          BY <2>1, <3>1 DEF PredecessorsFirst
        <4>2. i - 1 \in Nat /\ i - 1 <= Len(log)
          BY <1>1, <3>1
        <4> QED
          BY <1>7, <4>1, <4>2
      <3>2. CASE \E m \in 1 .. n : i = Len(log) + m /\ log'[i] = queue[e][m]
        <4>1. PICK m \in 1 .. n : i = Len(log) + m /\ log'[i] = queue[e][m]
          BY <3>2
        <4>2. c.esn[1] = e
          BY <1>5, <2>1, <4>1 DEF RecordsOK, RecordOK
        <4>3. InQueue(e, m - 1, <<e, c.esn[2] - 1>>) \/ InLog(Len(log), <<e, c.esn[2] - 1>>)
          BY <1>5, <2>1, <4>1 DEF PredecessorsFirst
        <4>4. m - 1 \in Nat /\ m - 1 <= n /\ i - 1 \in Nat /\ i - 1 >= Len(log) + (m - 1) /\ i - 1 >= Len(log)
          BY <1>1, <4>1
        <4>5. CASE InQueue(e, m - 1, <<e, c.esn[2] - 1>>)
          BY <1>8, <4>2, <4>4, <4>5
        <4>6. CASE InLog(Len(log), <<e, c.esn[2] - 1>>)
          BY <1>1, <1>7, <4>2, <4>4, <4>6
        <4> QED
          BY <4>3, <4>5, <4>6
      <3> QED
        BY <1>3, <3>1, <3>2
    <2>2. ASSUME NEW f \in Epoch, NEW i \in 1 .. Len(queue'[f]), NEW c, c = queue'[f][i],
                 IsSelfProposal(c), c.esn[2] > 0
          PROVE  \A k : k = Len(log') =>
                    InQueue(f, i - 1, <<f, c.esn[2] - 1>>)' \/ InLog(k, <<f, c.esn[2] - 1>>)'
      <3>1. PICK m \in 1 .. Len(queue[f]) : queue'[f][i] = queue[f][m] /\ m = IF f = e THEN i + d ELSE i
        BY <1>4
      <3>2. InQueue(f, m - 1, <<f, c.esn[2] - 1>>) \/ InLog(Len(log), <<f, c.esn[2] - 1>>)
        BY <2>2, <3>1 DEF PredecessorsFirst
      <3>3. CASE InLog(Len(log), <<f, c.esn[2] - 1>>)
        BY <1>14, <3>3
      <3>4. CASE f = e /\ InQueue(f, m - 1, <<f, c.esn[2] - 1>>)
        <4>1. m = i + d /\ i \in Nat
          BY <1>1, <3>1, <3>4
        <4>2. m - 1 \in Nat /\ m - 1 <= Len(queue[e]) /\ (m - 1) - d = i - 1
          BY <1>1, <3>1, <3>4, <4>1
        <4> QED
          BY <1>15, <3>4, <4>2
      <3>5. CASE f # e /\ InQueue(f, m - 1, <<f, c.esn[2] - 1>>)
        BY <3>1, <3>5 DEF InQueue
      <3> QED
        BY <3>2, <3>3, <3>4, <3>5
    <2> QED
      BY <2>1, <2>2 DEF PredecessorsFirst
  <1>11. ReplicasOK' /\ ActionsOK' /\ RolesOK' /\ TokensOK'
    <2>1. ASSUME NEW q \in Proc PROVE ReplicaOK(store[q])' /\ ReplicaOK(pp[q].replica)' /\ ActionOK(pp[q])'
      <3> PICK a \in Replica, t \in Processor : a = store[q] /\ t = pp[q]
        BY DEF TypeOK
      <3>1. ReplicaOK(a) /\ ReplicaOK(t.replica) /\ ActionOK(t) /\ t.replica \in Replica
        BY ProcessorFields DEF ReplicasOK, ActionsOK
      <3>2. ReplicaOK(a)' /\ ReplicaOK(t.replica)' /\ ActionOK(t)'
        BY <1>2, <3>1, ReplicaKept, ActionKept
      <3> QED
        BY <3>2 DEF ReplicaOK, ActionOK, EffectiveRecords, InLog
    <2>2. \A q \in Proc : manager[q].token \in Nat
      BY DEF TypeOK, Manager
    <2>3. faults \in Nat /\ faults' \in Nat
      BY DEF TypeOK
    <2> QED
      BY <2>1, <2>2, <2>3 DEF ReplicasOK, ActionsOK, RolesOK, RoleOK, TokensOK
  <1>12. ProposersOK'
    <2> SUFFICES ASSUME NEW q \in Proc PROVE ProposerOK(pp[q])'
      BY DEF ProposersOK
    <2> PICK t \in Processor : t = pp[q]
      BY DEF TypeOK
    <2>1. ProposerOK(t) /\ RoleOK(t)
      BY DEF ProposersOK, RolesOK
    <2>2. ASSUME t.mode # "Follower" PROVE ProposerOK(t)'
      <3>1. t.epoch \in Epoch
        BY <2>1, <2>2, Numbers, ProcessorFields DEF RoleOK
      <3>2. \A m \in 1 .. n : IsSelfProposal(queue[e][m]) /\ queue[e][m].esn[1] = t.epoch =>
               t.epoch = e /\ m \in 1 .. Len(queue[t.epoch])
        BY <1>5 DEF RecordsOK, RecordOK
      <3>3. \A m \in 1 .. n : queue[e][m].kind = "barrier" => IsSelfProposal(queue[e][m])
        BY DEF IsSelfProposal
      <3>4. /\ \A i \in 1 .. Len(queue'[t.epoch]) :
                  IsSelfProposal(queue'[t.epoch][i]) => queue'[t.epoch][i].esn[2] < t.next
            /\ \A i \in 1 .. Len(log') :
                  IsSelfProposal(log'[i]) /\ log'[i].esn[1] = t.epoch => log'[i].esn[2] < t.next
        <4>1. \A i \in 1 .. Len(queue'[t.epoch]) :
                IsSelfProposal(queue'[t.epoch][i]) => queue'[t.epoch][i].esn[2] < t.next
          BY <1>4, <2>1, <2>2, <3>1 DEF ProposerOK
        <4>2. \A i \in 1 .. Len(log') :
                IsSelfProposal(log'[i]) /\ log'[i].esn[1] = t.epoch => log'[i].esn[2] < t.next
          <5> SUFFICES ASSUME NEW i \in 1 .. Len(log'), IsSelfProposal(log'[i]), log'[i].esn[1] = t.epoch
                       PROVE  log'[i].esn[2] < t.next
            OBVIOUS
          <5>1. CASE i \in 1 .. Len(log) /\ log'[i] = log[i]
            BY <2>1, <2>2, <5>1 DEF ProposerOK
          <5>2. CASE \E m \in 1 .. n : i = Len(log) + m /\ log'[i] = queue[e][m]
            <6>1. PICK m \in 1 .. n : log'[i] = queue[e][m]
              BY <5>2
            <6>2. t.epoch = e /\ m \in 1 .. Len(queue[t.epoch])
              BY <3>2, <6>1
            <6> QED
              BY <2>1, <2>2, <6>1, <6>2 DEF ProposerOK
          <5> QED
            BY <1>3, <5>1, <5>2
        <4> QED
          BY <4>1, <4>2
      <3>5. t.mode = "Leader" =>
              /\ \A i \in 1 .. Len(queue'[t.epoch]) : Passed(t, queue'[t.epoch][i])
              /\ \A i \in 1 .. Len(log') : Passed(t, log'[i])
        <4>1. ASSUME t.mode = "Leader", NEW i \in 1 .. Len(queue'[t.epoch])
              PROVE  Passed(t, queue'[t.epoch][i])
          BY <1>4, <2>1, <2>2, <3>1, <4>1 DEF ProposerOK
        <4>2. ASSUME t.mode = "Leader", NEW i \in 1 .. Len(log')
              PROVE  Passed(t, log'[i])
          <5>1. CASE i \in 1 .. Len(log) /\ log'[i] = log[i]
            BY <2>1, <4>2, <5>1 DEF ProposerOK
          <5>2. CASE \E m \in 1 .. n : i = Len(log) + m /\ log'[i] = queue[e][m]
            <6>1. PICK m \in 1 .. n : log'[i] = queue[e][m]
              BY <5>2
            <6>2. t.epoch = e => Passed(t, queue[e][m])
              BY <1>5, <2>1, <4>2 DEF ProposerOK
            <6> QED
              BY <3>2, <3>3, <6>1, <6>2 DEF Passed
          <5> QED
            BY <1>3, <5>1, <5>2
        <4> QED
          BY <4>1, <4>2
      <3>6. \A k, l : k = Len(queue'[t.epoch]) /\ l = Len(log') =>
              InQueue(t.epoch, k, <<t.epoch, t.next - 1>>)' \/ InLog(l, <<t.epoch, t.next - 1>>)'
        <4>1. \/ InQueue(t.epoch, Len(queue[t.epoch]), <<t.epoch, t.next - 1>>)
              \/ InLog(Len(log), <<t.epoch, t.next - 1>>)
          BY <2>1, <2>2 DEF ProposerOK
        <4>2. CASE InLog(Len(log), <<t.epoch, t.next - 1>>)
          BY <1>14, <4>2
        <4>3. CASE t.epoch = e /\ InQueue(t.epoch, Len(queue[t.epoch]), <<t.epoch, t.next - 1>>)
          <5>1. Len(queue[e]) \in Nat /\ Len(queue[e]) <= Len(queue[e])
            BY <1>1
          <5>2. InQueue(e, Len(queue[e]), <<t.epoch, t.next - 1>>)
            BY <4>3
          <5> QED
            BY <1>15, <4>3, <5>1, <5>2
        <4>4. CASE t.epoch # e /\ InQueue(t.epoch, Len(queue[t.epoch]), <<t.epoch, t.next - 1>>)
          BY <3>1, <4>4 DEF InQueue
        <4> QED
          BY <4>1, <4>2, <4>3, <4>4
      <3> QED
        BY <3>4, <3>5, <3>6 DEF ProposerOK, Passed
    <2> QED
      BY <2>2 DEF ProposerOK, Passed
  <1>13. EpochsOK'
    <2>1. ASSUME NEW f \in Epoch, Unused(f) PROVE Unused(f)'
      <3>1. f # e
        BY <1>1, <2>1 DEF Unused
      <3>2. \A m \in 1 .. n : IsSelfProposal(queue[e][m]) => queue[e][m].esn[1] = e
        BY <1>5 DEF RecordsOK, RecordOK
      <3>3. \A i \in 1 .. Len(log') : IsSelfProposal(log'[i]) => log'[i].esn[1] # f
        BY <1>3, <2>1, <3>1, <3>2 DEF Unused
      <3> QED
        BY <2>1, <3>1, <3>3 DEF Unused
    <2>2. \A c \in claims : c.epoch \in Epoch
      BY DEF TypeOK, Claim
    <2>3. \A q \in Proc : target[q] # INVALID => target[q] \in Epoch
      BY Numbers DEF TypeOK
    <2>4. \A c \in claims : Unused(c.epoch)'
      BY <2>1, <2>2 DEF EpochsOK
    <2>5. \A q \in Proc : target[q] # INVALID => Unused(target[q])'
      <3> SUFFICES ASSUME NEW q \in Proc, target[q] # INVALID PROVE Unused(target[q])'
        OBVIOUS
      <3> PICK f : f = target[q]
        OBVIOUS
      <3>1. Unused(f)'
        BY <2>1, <2>3 DEF EpochsOK
      <3> QED
        BY <3>1 DEF Unused
    <2> QED
      BY <2>1, <2>4, <2>5 DEF EpochsOK
  <1> QED
    BY <1>6, <1>10, <1>11, <1>12, <1>13

LEMMA AppendersInv ==
    ASSUME LeadershipInv, NEW e \in Epoch, ProcessAppends(e) \/ AppendUnacknowledged(e)
    PROVE  LeadershipInv'
  <1>1. CASE ProcessAppends(e)
    <2>1. PICK n \in 1 .. Len(queue[e]) :
            /\ log' = log \o SubSeq(queue[e], 1, n)
            /\ queue' = [queue EXCEPT ![e] = SubSeq(@, n + 1, Len(@))]
            /\ UNCHANGED <<claimed, claims, manager, target, pp, store, noted, bounds>>
      BY <1>1 DEF ProcessAppends
    <2>2. TypeOK'
      BY <2>1, BatchShape, DropShape DEF LeadershipInv, TypeOK, bounds
    <2>3. faults' >= faults
      BY <2>1 DEF LeadershipInv, TypeOK, bounds
    <2> QED
      BY <2>1, <2>2, <2>3, DropShape, BatchStep DEF LeadershipInv
  <1>2. CASE AppendUnacknowledged(e)
    <2>1. PICK n \in 1 .. Len(queue[e]) :
            /\ faults < MaxFaults /\ faults' = faults + 1
            /\ log' = log \o SubSeq(queue[e], 1, n)
            /\ UNCHANGED <<claimed, claims, manager, target, pp, store, queue, noted, forwarded>>
      BY <1>2 DEF AppendUnacknowledged
    <2>2. TypeOK'
      BY <2>1, BatchShape, Numbers DEF LeadershipInv, TypeOK
    <2>3. faults' >= faults
      BY <2>1 DEF LeadershipInv, TypeOK
    <2>4. /\ Len(queue'[e]) = Len(queue[e]) - 0
          /\ \A i \in 1 .. Len(queue[e]) - 0 : queue'[e][i] = queue[e][i + 0]
      BY <2>1, LogFields DEF LeadershipInv
    <2> QED
      BY <2>1, <2>2, <2>3, <2>4, BatchStep
  <1> QED
    BY <1>1, <1>2

-----------------------------------------------------------------------------
(* The managers *)

\* steps that only move an epoch between the metadata store and a manager
LEMMA ManagerFrame ==
    ASSUME LeadershipInv, UNCHANGED <<pp, store, queue, log, noted, bounds>>,
           manager' \in [Proc -> Manager], \A q \in Proc : manager'[q].token = manager[q].token
    PROVE  /\ TokensOK' /\ RecordsOK' /\ PredecessorsFirst' /\ ReplicasOK' /\ RolesOK' /\ ProposersOK'
           /\ ActionsOK'
           /\ \A e : Unused(e)' <=> Unused(e)
  <1> USE DEF LeadershipInv
  <1>1. RecordsOK' /\ PredecessorsFirst'
    BY SameLog
  <1>2. TokensOK' /\ RolesOK'
    BY DEF TokensOK, RolesOK, RoleOK, bounds
  <1>3. ReplicasOK' /\ ActionsOK'
    BY SameLog DEF ReplicasOK, ActionsOK, ReplicaOK, ActionOK, InLog, EffectiveRecords
  <1>4. ProposersOK'
    BY DEF ProposersOK, ProposerOK, InQueue, InLog, Passed
  <1>5. \A e : Unused(e)' <=> Unused(e)
    BY DEF Unused
  <1> QED
    BY <1>1, <1>2, <1>3, <1>4, <1>5

LEMMA RunAsLeaderInv ==
    ASSUME LeadershipInv, NEW p \in Proc, RunAsLeader(p)
    PROVE  LeadershipInv'
  <1> USE DEF RunAsLeader, LeadershipInv
  <1>0. claimed \in Nat /\ claimed + 1 \in Epoch /\ claimed + 1 \in 0 .. MaxEpoch
    BY Numbers DEF TypeOK, Epoch
  <1> DEFINE new == [proc |-> p, epoch |-> claimed + 1, token |-> manager[p].token]
  <1>1. manager[p] \in Manager /\ manager[p].token \in 0 .. MaxFaults
    BY DEF TypeOK, Manager
  <1>2. new \in Claim /\ new.epoch = claimed + 1
    BY <1>0, <1>1 DEF Claim
  <1>3. /\ manager' \in [Proc -> Manager] /\ \A q \in Proc : manager'[q].token = manager[q].token
        /\ claims' = claims \cup {new}
    BY <1>1 DEF TypeOK, Manager
  <1> HIDE DEF new
  <1>4. TypeOK'
    BY <1>0, <1>2, <1>3 DEF TypeOK, bounds
  <1>5. \A c \in claims : c.epoch \in Epoch /\ c.epoch \in Nat /\ c.epoch <= claimed
    BY Numbers DEF TypeOK, Claim, EpochsOK
  <1>6. \A q \in Proc : target[q] \in Nat /\ (target[q] # INVALID => target[q] <= claimed)
    BY Numbers DEF TypeOK, EpochsOK
  <1>7. \A e : Unused(e)' <=> Unused(e)
    BY <1>3, ManagerFrame
  <1>8. EpochsOK'
    <2>1. \A e \in Epoch : e > claimed' => Unused(e)'
      BY <1>0, <1>7, Numbers DEF EpochsOK
    <2>2. \A c \in claims' : c.epoch <= claimed' /\ Unused(c.epoch)' /\ \A q \in Proc : target'[q] # c.epoch
      <3> SUFFICES ASSUME NEW c \in claims'
                   PROVE  c.epoch <= claimed + 1 /\ Unused(c.epoch) /\ \A q \in Proc : target[q] # c.epoch
        BY <1>7
      <3>1. CASE c \in claims
        BY <1>0, <1>5, <3>1 DEF EpochsOK
      <3>2. CASE c = new
        BY <1>0, <1>2, <1>6, <3>2, Numbers DEF EpochsOK, INVALID
      <3> QED
        BY <1>3, <3>1, <3>2
    <2>3. \A c, d \in claims' : c.epoch = d.epoch => c = d
      BY <1>0, <1>2, <1>3, <1>5 DEF EpochsOK
    <2>4. \A q \in Proc : target[q] # INVALID => target[q] <= claimed + 1 /\ Unused(target[q])
      BY <1>0, <1>6 DEF EpochsOK
    <2>5. \A q \in Proc : target'[q] # INVALID => target'[q] <= claimed' /\ Unused(target[q])'
      BY <2>4 DEF Unused
    <2> QED
      BY <2>1, <2>2, <2>3, <2>5 DEF EpochsOK
  <1> QED
    BY <1>3, <1>4, <1>8, ManagerFrame

LEMMA ClaimAnsweredInv ==
    ASSUME LeadershipInv, NEW c \in claims, LeaderEpochObtained(c) \/ LeaderEpochFailed(c)
    PROVE  LeadershipInv'
  <1> USE DEF LeadershipInv
  <1> DEFINE p == c.proc
  <1>1. p \in Proc /\ c.epoch \in Epoch /\ c.epoch \in 0 .. MaxEpoch /\ manager[p] \in Manager
    BY Numbers DEF TypeOK, Claim
  <1>2. /\ UNCHANGED <<claimed, pp, store, queue, log, noted, bounds>> /\ claims' = claims \ {c}
        /\ target' = target \/ target' = [target EXCEPT ![p] = c.epoch]
    BY DEF LeaderEpochObtained, LeaderEpochFailed
  <1>3. \/ manager' = manager
        \/ manager' = [manager EXCEPT ![p].state = "Follower"]
        \/ manager' = [manager EXCEPT ![p].state = "Leader", ![p].epoch = c.epoch]
    BY DEF LeaderEpochObtained, LeaderEpochFailed
  <1> HIDE DEF p
  <1>4. manager' \in [Proc -> Manager] /\ \A q \in Proc : manager'[q].token = manager[q].token
    <2>1. CASE manager' = manager
      BY <2>1 DEF TypeOK
    <2>2. CASE manager' = [manager EXCEPT ![p].state = "Follower"]
      BY <1>1, <2>2 DEF TypeOK, Manager
    <2>3. CASE manager' = [manager EXCEPT ![p].state = "Leader", ![p].epoch = c.epoch]
      BY <1>1, <2>3 DEF TypeOK, Manager
    <2> QED
      BY <1>3, <2>1, <2>2, <2>3
  <1>5. TypeOK'
    BY <1>1, <1>2, <1>4 DEF TypeOK, bounds
  <1>6. \A e : Unused(e)' <=> Unused(e)
    BY <1>2, <1>4, ManagerFrame
  <1>7. \A q \in Proc : target'[q] = target[q] \/ (q = p /\ target'[q] = c.epoch)
    BY <1>1, <1>2 DEF TypeOK
  <1>8. EpochsOK'
    <2>1. c.epoch <= claimed /\ Unused(c.epoch) /\ \A q \in Proc : target[q] # c.epoch
      BY DEF EpochsOK
    <2>2. \A b \in claims' : /\ b.epoch <= claimed' /\ Unused(b.epoch)'
                             /\ \A q \in Proc : target'[q] # b.epoch
      BY <1>2, <1>6, <1>7 DEF EpochsOK
    <2>3. \A q \in Proc : target'[q] # INVALID => target'[q] <= claimed /\ Unused(target'[q])
      BY <1>7, <2>1 DEF EpochsOK
    <2>4. \A q \in Proc : target'[q] # INVALID => target'[q] <= claimed' /\ Unused(target[q])'
      BY <1>2, <2>3 DEF Unused
    <2>5. \A q, t \in Proc : q # t /\ target'[q] # INVALID => target'[q] # target'[t]
      BY <1>7, <2>1 DEF EpochsOK
    <2>6. \A e \in Epoch : e > claimed' => Unused(e)'
      BY <1>2, <1>6 DEF EpochsOK
    <2> QED
      BY <1>2, <2>2, <2>4, <2>5, <2>6 DEF EpochsOK
  <1> QED
    BY <1>2, <1>4, <1>5, <1>8, ManagerFrame

-----------------------------------------------------------------------------
(* The leadership state of a processor *)

\* the state of one processor and its store, before a step
LEMMA Before ==
    ASSUME LeadershipInv, NEW p \in Proc
    PROVE  /\ pp[p] \in Processor /\ store[p] \in Replica /\ pp[p].replica \in Replica
           /\ pp[p].epoch \in 0 .. MaxEpoch /\ (pp[p].mode # "Follower" => pp[p].epoch \in Epoch)
           /\ ReplicaOK(store[p]) /\ ReplicaOK(pp[p].replica) /\ RoleOK(pp[p]) /\ ActionOK(pp[p])
           /\ ProposerOK(pp[p])
  <1>1. pp[p] \in Processor /\ store[p] \in Replica
    BY DEF LeadershipInv, TypeOK
  <1>2. pp[p].replica \in Replica /\ pp[p].epoch \in 0 .. MaxEpoch
    BY <1>1, ProcessorFields
  <1>3. RoleOK(pp[p])
    BY DEF LeadershipInv, RolesOK
  <1> QED
    BY <1>1, <1>2, <1>3, Numbers DEF LeadershipInv, ReplicasOK, ActionsOK, ProposersOK, RoleOK

LEMMA FollowerOK ==
    ASSUME NEW s \in Processor, s.mode = "Follower", s.epoch = INVALID, s.batch = 0 => s.actions = {}
    PROVE  RoleOK(s) /\ ActionOK(s) /\ ProposerOK(s)
  BY DEF RoleOK, ActionOK, ProposerOK

LEMMA FollowerFields ==
    ASSUME NEW t \in Processor, NEW s, s = BecomeFollower(t)
    PROVE  /\ s \in Processor /\ s.mode = "Follower" /\ s.epoch = INVALID
           /\ s.replica = t.replica /\ s.up = t.up /\ s.batch = t.batch /\ s.actions = t.actions
  <1>1. INVALID \in 0 .. MaxEpoch /\ 0 \in 0 .. MaxSeq + 1 /\ {} \in SUBSET Nat
    BY Numbers DEF INVALID
  <1>2. s = [t EXCEPT !.mode = "Follower", !.epoch = INVALID, !.next = 0, !.told = {}]
    BY DEF BecomeFollower
  <1> PICK m \in {"Follower", "Candidate", "BecomingLeader", "Leader"}, e \in 0 .. MaxEpoch,
           n \in 0 .. MaxSeq + 1, x \in SUBSET Nat : m = "Follower" /\ e = INVALID /\ n = 0 /\ x = {}
    BY <1>1
  <1>3. s = [t EXCEPT !.mode = m, !.epoch = e, !.next = n, !.told = x]
    BY <1>2
  <1> QED
    BY <1>3 DEF Processor

\* a candidate that has proposed its announcement
Announced(t, e) == [Candidate(t, e) EXCEPT !.next = @ + 1]

LEMMA CandidateFields ==
    ASSUME NEW t \in Processor, NEW e \in 0 .. MaxEpoch, NEW s, s = Announced(t, e)
    PROVE  /\ Proposal(Candidate(t, e), "announce") = [kind |-> "announce", esn |-> <<e, 0>>]
           /\ s \in Processor /\ s.mode = "Candidate" /\ s.epoch = e /\ s.next = 1
           /\ s.replica = t.replica /\ s.up = t.up /\ s.batch = t.batch /\ s.actions = t.actions
  <1> PICK b : b = BecomeFollower(t)
    OBVIOUS
  <1> PICK c : c = Candidate(t, e)
    OBVIOUS
  <1>0. 0 \in 0 .. MaxSeq + 1 /\ 1 \in 0 .. MaxSeq + 1
    BY Numbers
  <1>1. /\ b \in Processor
        /\ b.replica = t.replica /\ b.up = t.up /\ b.batch = t.batch /\ b.actions = t.actions
    BY FollowerFields
  <1>2. c = [b EXCEPT !.mode = "Candidate", !.epoch = e, !.next = 0]
    BY DEF Candidate
  <1>3. /\ c \in Processor /\ c.mode = "Candidate" /\ c.epoch = e /\ c.next = 0
        /\ c.replica = t.replica /\ c.up = t.up /\ c.batch = t.batch /\ c.actions = t.actions
    <2> PICK m \in {"Follower", "Candidate", "BecomingLeader", "Leader"}, n \in 0 .. MaxSeq + 1 :
          m = "Candidate" /\ n = 0
      BY <1>0
    <2>1. c = [b EXCEPT !.mode = m, !.epoch = e, !.next = n]
      BY <1>2
    <2> QED
      BY <1>1, <2>1 DEF Processor
  <1>4. s = [c EXCEPT !.next = 1]
    BY <1>3 DEF Announced
  <1>5. /\ s \in Processor /\ s.mode = "Candidate" /\ s.epoch = e /\ s.next = 1
        /\ s.replica = t.replica /\ s.up = t.up /\ s.batch = t.batch /\ s.actions = t.actions
    <2> PICK n \in 0 .. MaxSeq + 1 : n = 1
      BY <1>0
    <2>1. s = [c EXCEPT !.next = n]
      BY <1>4
    <2> QED
      BY <1>3, <2>1 DEF Processor
  <1> QED
    BY <1>3, <1>5 DEF Proposal

LEMMA RunForLeaderInv ==
    ASSUME LeadershipInv, NEW p \in Proc, RunForLeader(p)
    PROVE  LeadershipInv'
  <1> PICK e : e = target[p]
    OBVIOUS
  <1>1. /\ pp[p].up /\ pp[p].batch = 0 /\ e # INVALID /\ target' = [target EXCEPT ![p] = INVALID]
        /\ UNCHANGED <<claimed, claims, manager, store, log, noted, bounds>>
    BY DEF RunForLeader
  <1>2. e \in Epoch /\ e \in 0 .. MaxEpoch /\ Unused(e) /\ INVALID \in 0 .. MaxEpoch
    BY <1>1, Numbers DEF LeadershipInv, TypeOK, EpochsOK, INVALID
  <1>3. target' \in [Proc -> 0 .. MaxEpoch]
    BY <1>1, <1>2 DEF LeadershipInv, TypeOK
  <1>4. CASE IsOutdated(pp[p], e)
    <2>1. pp' = [pp EXCEPT ![p] = pp[p]] /\ queue' = queue /\ store' = [store EXCEPT ![p] = store[p]]
      BY <1>1, <1>4 DEF RunForLeader, LeadershipInv, TypeOK
    <2>2. pp' = pp
      BY <1>4 DEF RunForLeader
    <2>3. TypeOK' /\ TokensOK'
      BY <1>1, <1>3, <2>1, <2>2 DEF LeadershipInv, TypeOK, TokensOK, bounds
    <2> QED
      BY <1>1, <2>1, <2>3, Before, ReadStep
  <1>5. CASE ~IsOutdated(pp[p], e)
    <2> PICK t \in Processor : t = pp[p]
      BY Before
    <2> PICK s : s = Announced(t, e)
      OBVIOUS
    <2> PICK r : r = [kind |-> "announce", esn |-> <<e, 0>>]
      OBVIOUS
    <2>1. /\ s \in Processor /\ s.mode = "Candidate" /\ s.epoch = e /\ s.next = 1
          /\ s.replica = pp[p].replica /\ s.up = pp[p].up /\ s.batch = pp[p].batch
          /\ s.actions = pp[p].actions
      BY <1>2, CandidateFields
    <2>2. Proposal(Candidate(pp[p], e), "announce") = r
      BY <1>2, CandidateFields
    <2>3. pp' = [pp EXCEPT ![p] = s] /\ queue' = [queue EXCEPT ![e] = Append(@, r)]
      BY <1>5, <2>2 DEF RunForLeader, Announced
    <2>4. r \in Record /\ IsSelfProposal(r) /\ r.esn[1] = e /\ r.esn[2] = 0 /\ RecordOK(r, e)
      BY <1>2, Numbers, EsnPair DEF Record, IsSelfProposal, RecordOK
    <2>5. store' = [store EXCEPT ![p] = store[p]]
      BY <1>1 DEF LeadershipInv, TypeOK
    <2>6. TypeOK'
      <3>1. pp' \in [Proc -> Processor] /\ queue' \in [Epoch -> Seq(Record)]
        BY <1>2, <2>1, <2>3, <2>4, AppendShape DEF LeadershipInv, TypeOK
      <3> QED
        BY <1>1, <1>3, <3>1 DEF LeadershipInv, TypeOK, bounds
    <2>7. RoleOK(s)
      <3>1. pp[p].replica.dedup \in Esn /\ pp[p].epoch \in Nat /\ e \in Nat
        BY Before, ReplicaFields, Numbers, <1>2
      <3>2. pp[p].replica.dedup[1] < e
        <4>1. CASE pp[p].mode = "Follower"
          BY <1>5, <3>1, <4>1, EsnPair DEF IsOutdated
        <4>2. CASE pp[p].mode # "Follower"
          <5>1. pp[p].epoch < e
            BY <1>5, <3>1, <4>2 DEF IsOutdated
          <5>2. pp[p].replica.dedup[1] <= pp[p].epoch
            BY <3>1, <4>2, Before, ProcessorFields, EsnPair DEF RoleOK
          <5> QED
            BY <3>1, <5>1, <5>2, EsnPair
        <4> QED
          BY <4>1, <4>2
      <3> QED
        BY <1>1, <1>2, <2>1, <3>2 DEF RoleOK
    <2>8. ActionOK(s) /\ ReplicaOK(s.replica) /\ ReplicaOK(store[p]) /\ store[p] \in Replica
      BY <2>1, Before DEF ActionOK
    <2>9. ProposerOK(s)'
      <3>1. Len(queue[e]) = 0 /\ \A i \in 1 .. Len(log) : IsSelfProposal(log[i]) => log[i].esn[1] # e
        BY <1>2 DEF Unused
      <3>2. r.esn = <<e, s.next - 1>> /\ r.esn[2] < s.next /\ s.mode # "Leader"
        BY <2>1
      <3>3. \A i \in 1 .. Len(queue[e]) : IsSelfProposal(queue[e][i]) => queue[e][i].esn[2] < s.next
        BY <3>1
      <3>4. UNCHANGED log /\ s.epoch = e /\ s \in Processor
        BY <1>1, <2>1
      <3>5. \A i \in 1 .. Len(log) :
              IsSelfProposal(log[i]) /\ log[i].esn[1] = e => log[i].esn[2] < s.next
        BY <3>1
      <3> QED
        BY <1>2, <2>3, <2>4, <3>1, <3>2, <3>3, <3>4, <3>5, ProposerAppends DEF LeadershipInv
    <2>10. UNCHANGED <<log, claimed, claims, manager>> /\ faults' = faults /\ s.epoch = target[p]
      BY <1>1, <2>1 DEF bounds
    <2>11. ~(IsSelfProposal(r) /\ r.esn[2] > 0)
      BY <2>4
    <2>12. s \in Processor /\ s.epoch = e
      BY <2>1
    <2> QED
      BY <1>1, <1>2, <2>3, <2>4, <2>5, <2>6, <2>7, <2>8, <2>9, <2>10, <2>11, <2>12, ProposeStep
  <1> QED
    BY <1>4, <1>5

LEMMA SelfProposeInv ==
    ASSUME LeadershipInv, NEW p \in Proc, SelfPropose(p)
    PROVE  LeadershipInv'
  <1> PICK t \in Processor, u \in Replica : t = pp[p] /\ u = store[p]
    BY Before
  <1> PICK e, n : e = t.epoch /\ n = t.next
    OBVIOUS
  <1>1. /\ t.mode = "Leader" /\ t.batch = 0 /\ n <= MaxSeq
        /\ queue' = [queue EXCEPT ![e] = Append(@, Proposal(t, "command"))]
        /\ pp' = [pp EXCEPT ![p].next = @ + 1]
        /\ UNCHANGED <<claimed, claims, manager, target, store, log, noted, bounds>>
    BY DEF SelfPropose
  <1>2. /\ e \in Epoch /\ e \in 0 .. MaxEpoch /\ ReplicaOK(u) /\ ReplicaOK(t.replica) /\ RoleOK(t)
        /\ ActionOK(t) /\ ProposerOK(t)
    BY <1>1, Before
  <1>3. n \in Nat /\ n >= 1 /\ n \in 0 .. MaxSeq /\ n + 1 \in 0 .. MaxSeq + 1 /\ (n + 1) - 1 = n
    BY <1>1, <1>2, ProcessorFields, Numbers DEF RoleOK
  <1> PICK m \in 0 .. MaxSeq + 1 : m = n + 1
    BY <1>3
  <1> PICK s : s = [t EXCEPT !.next = m]
    OBVIOUS
  <1> PICK r : r = [kind |-> "command", esn |-> <<e, n>>]
    OBVIOUS
  <1>4. /\ s \in Processor /\ s.mode = "Leader" /\ s.epoch = e /\ s.next = m
        /\ s.replica = t.replica /\ s.up = t.up /\ s.batch = t.batch /\ s.actions = t.actions
        /\ s.told = t.told
    BY <1>1 DEF Processor
  <1>5. pp' = [pp EXCEPT ![p] = s] /\ Proposal(t, "command") = r
    BY <1>1 DEF LeadershipInv, TypeOK, Proposal
  <1>6. queue' = [queue EXCEPT ![e] = Append(@, r)] /\ store' = [store EXCEPT ![p] = u]
    BY <1>1, <1>5 DEF LeadershipInv, TypeOK
  <1>7. r \in Record /\ IsSelfProposal(r) /\ r.esn[1] = e /\ r.esn[2] = n /\ r.esn = <<e, n>> /\ r.kind = "command"
    BY <1>2, <1>3, EsnPair DEF Record, IsSelfProposal
  <1>8. TypeOK'
    <2>1. pp' \in [Proc -> Processor] /\ queue' \in [Epoch -> Seq(Record)]
      BY <1>2, <1>4, <1>5, <1>6, <1>7, AppendShape DEF LeadershipInv, TypeOK
    <2> QED
      BY <1>1, <2>1 DEF LeadershipInv, TypeOK, bounds
  <1>9. RoleOK(s) /\ ActionOK(s)
    BY <1>1, <1>2, <1>3, <1>4 DEF RoleOK, ActionOK
  <1>10. /\ \A i \in 1 .. Len(queue[e]) : IsSelfProposal(queue[e][i]) => queue[e][i].esn[2] < n
         /\ \A i \in 1 .. Len(log) : IsSelfProposal(log[i]) /\ log[i].esn[1] = e => log[i].esn[2] < n
         /\ InQueue(e, Len(queue[e]), <<e, n - 1>>) \/ InLog(Len(log), <<e, n - 1>>)
         /\ \A i \in 1 .. Len(queue[e]) : Passed(t, queue[e][i])
         /\ \A i \in 1 .. Len(log) : Passed(t, log[i])
    BY <1>1, <1>2 DEF ProposerOK
  <1>11. ProposerOK(s)'
    <2>0. TypeOK /\ \A i \in 1 .. Len(queue[e]) : queue[e][i].esn[2] \in Nat
      BY <1>2, LogFields, RecordFields, EsnPair DEF LeadershipInv
    <2>1. \A i \in 1 .. Len(queue[e]) : IsSelfProposal(queue[e][i]) => queue[e][i].esn[2] < s.next
      BY <1>3, <1>4, <1>10, <2>0
    <2>2. \A i \in 1 .. Len(log) : IsSelfProposal(log[i]) /\ log[i].esn[1] = e => log[i].esn[2] < s.next
      <3>1. \A i \in 1 .. Len(log) : log[i].esn[2] \in Nat
        BY <2>0, LogFields, RecordFields, EsnPair
      <3> QED
        BY <1>3, <1>4, <1>10, <3>1
    <2>3. /\ \A i \in 1 .. Len(queue[e]) : Passed(s, queue[e][i])
          /\ \A i \in 1 .. Len(log) : Passed(s, log[i]) /\ Passed(s, r)
      BY <1>4, <1>7, <1>10 DEF Passed
    <2>6. Passed(s, r)
      BY <1>7 DEF Passed
    <2>4. r.esn[2] < s.next /\ r.esn = <<e, s.next - 1>>
      BY <1>3, <1>4, <1>7
    <2>5. UNCHANGED log
      BY <1>1
    <2> QED
      BY <1>2, <1>4, <1>6, <1>7, <2>0, <2>1, <2>2, <2>3, <2>4, <2>5, <2>6, ProposerAppends
  <1>12. /\ UNCHANGED <<log, claimed, claims, manager>> /\ faults' = faults /\ target' = target
         /\ s.epoch = pp[p].epoch /\ ReplicaOK(s.replica) /\ RecordOK(r, e)
    BY <1>1, <1>2, <1>3, <1>4, <1>7 DEF bounds, RecordOK
  <1>13. InQueue(e, Len(queue[e]), <<e, r.esn[2] - 1>>) \/ InLog(Len(log), <<e, r.esn[2] - 1>>)
    BY <1>7, <1>10
  <1>14. s \in Processor /\ s.epoch = e
    BY <1>4
  <1> QED
    BY <1>2, <1>5, <1>6, <1>7, <1>8, <1>9, <1>11, <1>12, <1>13, <1>14, ProposeStep

LEMMA ForwardInv ==
    ASSUME LeadershipInv, NEW p \in Proc, Forward(p)
    PROVE  LeadershipInv'
  <1> PICK t \in Processor, u \in Replica : t = pp[p] /\ u = store[p]
    BY Before
  <1> PICK e : e = t.epoch
    OBVIOUS
  <1> PICK r : r = [kind |-> "forwarded", esn |-> <<INVALID, 0>>]
    OBVIOUS
  <1>1. /\ t.mode = "Leader" /\ forwarded < MaxForwarded /\ forwarded' = forwarded + 1
        /\ queue' = [queue EXCEPT ![e] = Append(@, r)]
        /\ UNCHANGED <<claimed, claims, manager, target, pp, store, log, noted, faults>>
    BY DEF Forward
  <1>2. /\ e \in Epoch /\ ReplicaOK(u) /\ ReplicaOK(t.replica) /\ RoleOK(t) /\ ActionOK(t) /\ ProposerOK(t)
    BY <1>1, Before
  <1>3. r \in Record /\ ~IsSelfProposal(r) /\ RecordOK(r, e) /\ Passed(t, r)
    BY EsnPair DEF Record, IsSelfProposal, RecordOK, Passed
  <1>4. TypeOK'
    <2>1. queue' \in [Epoch -> Seq(Record)]
      BY <1>1, <1>2, <1>3, AppendShape DEF LeadershipInv
    <2>2. forwarded' \in 0 .. MaxForwarded
      BY <1>1, Numbers DEF LeadershipInv, TypeOK
    <2> QED
      BY <1>1, <2>1, <2>2 DEF LeadershipInv, TypeOK
  <1>5. pp' = [pp EXCEPT ![p] = t] /\ store' = [store EXCEPT ![p] = u]
    BY <1>1 DEF LeadershipInv, TypeOK
  <1>6. ProposerOK(t)'
    <2>1. /\ \A i \in 1 .. Len(queue[e]) : IsSelfProposal(queue[e][i]) => queue[e][i].esn[2] < t.next
          /\ \A i \in 1 .. Len(log) : IsSelfProposal(log[i]) /\ log[i].esn[1] = e => log[i].esn[2] < t.next
          /\ InQueue(e, Len(queue[e]), <<e, t.next - 1>>) \/ InLog(Len(log), <<e, t.next - 1>>)
          /\ \A i \in 1 .. Len(queue[e]) : Passed(t, queue[e][i])
          /\ \A i \in 1 .. Len(log) : Passed(t, log[i])
      BY <1>1, <1>2 DEF ProposerOK
    <2>2. TypeOK /\ UNCHANGED log
      BY <1>1 DEF LeadershipInv
    <2> QED
      BY <1>1, <1>2, <1>3, <2>1, <2>2, ProposerAppends
  <1>7. UNCHANGED <<log, claimed, claims, manager>> /\ faults' = faults /\ target' = target
    BY <1>1
  <1> QED
    BY <1>1, <1>2, <1>3, <1>4, <1>5, <1>6, <1>7, ProposeStep

LEMMA MaybeStepDownInv ==
    ASSUME LeadershipInv, NEW p \in Proc, NEW e \in Epoch, MaybeStepDown(p, e)
    PROVE  LeadershipInv'
  <1> PICK t \in Processor, u \in Replica : t = pp[p] /\ u = store[p]
    BY Before
  <1>o. PICK o \in 0 .. MaxEpoch : o = IF t.observed < e THEN e ELSE t.observed
    BY ProcessorFields, Numbers
  <1>b. PICK b : b = [t EXCEPT !.observed = o]
    OBVIOUS
  <1>s. PICK s : s = IF Concedes(t, e) THEN BecomeFollower(b) ELSE b
    OBVIOUS
  <1>1. /\ pp' = [pp EXCEPT ![p] = s] /\ t.up /\ t.batch = 0
        /\ UNCHANGED <<claimed, claims, manager, target, store, queue, log, noted, bounds>>
    BY <1>o, <1>b, <1>s DEF MaybeStepDown
  <1>2. /\ ReplicaOK(u) /\ ReplicaOK(t.replica) /\ RoleOK(t) /\ ActionOK(t) /\ ProposerOK(t)
    BY Before
  <1>3. /\ b \in Processor /\ b.mode = t.mode /\ b.epoch = t.epoch /\ b.next = t.next
        /\ b.replica = t.replica /\ b.up = t.up /\ b.batch = t.batch /\ b.actions = t.actions
        /\ b.told = t.told
    BY <1>b DEF Processor
  <1>4. /\ s \in Processor /\ s.epoch \in {INVALID, t.epoch} /\ s.replica = t.replica
        /\ RoleOK(s) /\ ActionOK(s) /\ ProposerOK(s)
    <2>1. CASE Concedes(t, e)
      <3>1. s = BecomeFollower(b)
        BY <1>s, <2>1
      <3>2. /\ s \in Processor /\ s.mode = "Follower" /\ s.epoch = INVALID
            /\ s.replica = t.replica /\ s.batch = t.batch /\ s.actions = t.actions
        BY <1>3, <3>1, FollowerFields
      <3> QED
        BY <1>2, <3>2, FollowerOK DEF ActionOK
    <2>2. CASE ~Concedes(t, e)
      <3>1. s = b
        BY <1>s, <2>2
      <3>2. RoleOK(s)
        BY <1>2, <1>3, <3>1 DEF RoleOK
      <3>3. ActionOK(s)
        BY <1>2, <1>3, <3>1 DEF ActionOK
      <3>4. ProposerOK(s)
        BY <1>2, <1>3, <3>1 DEF ProposerOK, Passed
      <3> QED
        BY <1>3, <3>1, <3>2, <3>3, <3>4
    <2> QED
      BY <2>1, <2>2
  <1>5. TypeOK' /\ TokensOK'
    BY <1>1, <1>4 DEF LeadershipInv, TypeOK, TokensOK, bounds
  <1>6. store' = [store EXCEPT ![p] = u] /\ target' = target /\ UNCHANGED <<log, queue, claimed, claims>>
    BY <1>1 DEF LeadershipInv, TypeOK
  <1> QED
    BY <1>1, <1>2, <1>4, <1>5, <1>6, ReadStep

LEMMA CommitBatchInv ==
    ASSUME LeadershipInv, NEW p \in Proc, CommitBatch(p)
    PROVE  LeadershipInv'
  <1> PICK t \in Processor, u \in Replica : t = pp[p] /\ u = t.replica
    BY Before
  <1> PICK x \in SUBSET Nat : x = IF t.mode = "Leader" THEN t.told \cup t.actions ELSE t.told
    BY ProcessorFields
  <1> PICK b \in 0 .. MaxBatch : b = 0
    BY Numbers
  <1> PICK y \in SUBSET Nat : y = {}
    OBVIOUS
  <1> PICK s : s = [t EXCEPT !.batch = b, !.actions = y, !.told = x]
    OBVIOUS
  <1>1. /\ store' = [store EXCEPT ![p] = u]
        /\ UNCHANGED <<claimed, claims, manager, target, queue, log, noted, bounds>>
    BY DEF CommitBatch, Committed
  <1>2. pp' = [pp EXCEPT ![p] = s]
    BY DEF CommitBatch, LeadershipInv, TypeOK
  <1>3. /\ ReplicaOK(u) /\ RoleOK(t) /\ ActionOK(t) /\ ProposerOK(t)
    BY Before
  <1>4. /\ s \in Processor /\ s.mode = t.mode /\ s.epoch = t.epoch /\ s.next = t.next
        /\ s.replica = u /\ s.up = t.up /\ s.batch = 0 /\ s.actions = {} /\ s.told = x
    BY DEF Processor
  <1>5. RoleOK(s) /\ ProposerOK(s)
    BY <1>3, <1>4 DEF RoleOK, ProposerOK, Passed
  <1>6. ActionOK(s)
    BY <1>3, <1>4 DEF ActionOK
  <1>7. TypeOK' /\ TokensOK'
    BY <1>1, <1>2, <1>4 DEF LeadershipInv, TypeOK, TokensOK, bounds
  <1>8. target' = target /\ UNCHANGED <<log, queue, claimed, claims>> /\ s.epoch \in {INVALID, pp[p].epoch}
        /\ ReplicaOK(s.replica) /\ s \in Processor
    BY <1>1, <1>3, <1>4
  <1> QED
    BY <1>1, <1>2, <1>3, <1>5, <1>6, <1>7, <1>8, ReadStep

LEMMA EmptyOK ==
    ASSUME TypeOK
    PROVE  EmptyReplica \in Replica /\ ReplicaOK(EmptyReplica)
  <1>1. EmptyReplica \in Replica
    BY EsnPair DEF EmptyReplica, Replica
  <1>2. EffectiveRecords(0) = {} /\ 0 <= Len(log)
    BY LogFields DEF EffectiveRecords
  <1> QED
    BY <1>1, <1>2 DEF EmptyReplica, ReplicaOK

LEMMA StartedFields ==
    ASSUME NEW c \in Replica, NEW s, s = Started(c)
    PROVE  /\ s \in Processor /\ s.mode = "Follower" /\ s.epoch = INVALID /\ s.batch = 0
           /\ s.actions = {} /\ s.replica = c /\ s.up
  <1>1. c.dedup[1] \in 0 .. MaxEpoch /\ INVALID \in 0 .. MaxEpoch /\ 0 \in 0 .. MaxSeq + 1 /\ 0 \in 0 .. MaxBatch
    BY ReplicaFields, EsnPair, Numbers DEF INVALID
  <1> QED
    BY <1>1 DEF Started, Processor

LEMMA CrashInv ==
    ASSUME LeadershipInv, NEW p \in Proc, Crash(p)
    PROVE  LeadershipInv'
  <1> PICK b : b = Started(EmptyReplica)
    OBVIOUS
  <1> PICK d \in BOOLEAN : d = FALSE
    OBVIOUS
  <1> PICK s : s = [b EXCEPT !.up = d]
    OBVIOUS
  <1> PICK u \in Replica : u = store[p]
    BY Before
  <1>0. TypeOK /\ EmptyReplica \in Replica /\ ReplicaOK(EmptyReplica) /\ ReplicaOK(u)
    BY EmptyOK, Before DEF LeadershipInv
  <1>1. /\ pp' = [pp EXCEPT ![p] = s] /\ target' = [target EXCEPT ![p] = INVALID]
        /\ faults < MaxFaults /\ faults' = faults + 1
        /\ manager' = [manager EXCEPT ![p] = [state |-> "Follower", epoch |-> INVALID,
                                              token |-> manager[p].token + 1]]
        /\ UNCHANGED <<claimed, claims, store, queue, log, noted, forwarded>>
    BY DEF Crash
  <1>2. /\ b \in Processor /\ b.mode = "Follower" /\ b.epoch = INVALID /\ b.batch = 0
        /\ b.actions = {} /\ b.replica = EmptyReplica
    BY <1>0, StartedFields
  <1>3. /\ s \in Processor /\ s.mode = "Follower" /\ s.epoch = INVALID /\ s.batch = 0
        /\ s.actions = {} /\ s.replica = EmptyReplica
    BY <1>2 DEF Processor
  <1>4. RoleOK(s) /\ ActionOK(s) /\ ProposerOK(s) /\ ReplicaOK(s.replica)
    BY <1>0, <1>3, FollowerOK
  <1>5. faults \in Nat /\ faults' \in 0 .. MaxFaults /\ INVALID \in 0 .. MaxEpoch
        /\ \A q \in Proc : manager[q].token \in Nat /\ manager[q].token <= faults
    BY <1>0, <1>1, Numbers DEF TypeOK, Manager, LeadershipInv, TokensOK, INVALID
  <1>6. manager' \in [Proc -> Manager] /\ \A q \in Proc : manager'[q].token <= faults'
    <2> PICK m : m = [state |-> "Follower", epoch |-> INVALID, token |-> manager[p].token + 1]
      OBVIOUS
    <2>1. manager[p].token + 1 \in 0 .. MaxFaults /\ manager[p].token + 1 <= faults'
      BY <1>1, <1>5, Numbers
    <2>2. m \in Manager /\ m.token <= faults'
      BY <1>5, <2>1 DEF Manager
    <2>3. manager' = [manager EXCEPT ![p] = m]
      BY <1>1
    <2>4. \A q \in Proc : manager[q].token <= faults'
      BY <1>1, <1>5

    <2> QED
      BY <1>0, <2>2, <2>3, <2>4 DEF TypeOK
  <1>7. TypeOK' /\ TokensOK'
    BY <1>0, <1>1, <1>3, <1>5, <1>6 DEF TypeOK, TokensOK
  <1>8. store' = [store EXCEPT ![p] = u] /\ UNCHANGED <<log, queue, claimed, claims>>
    BY <1>0, <1>1 DEF TypeOK
  <1>9. s \in Processor /\ s.epoch \in {INVALID, pp[p].epoch}
    BY <1>3
  <1> QED
    BY <1>0, <1>1, <1>4, <1>7, <1>8, <1>9, ReadStep

LEMMA RestartInv ==
    ASSUME LeadershipInv, NEW p \in Proc, Restart(p)
    PROVE  LeadershipInv'
  <1> PICK u \in Replica : u = store[p]
    BY Before
  <1> PICK s : s = Started(u)
    OBVIOUS
  <1>1. /\ pp' = [pp EXCEPT ![p] = s] /\ store' = [store EXCEPT ![p] = u] /\ target' = target
        /\ UNCHANGED <<log, queue, claimed, claims>>
    BY DEF Restart, LeadershipInv, TypeOK
  <1>2. /\ s \in Processor /\ s.mode = "Follower" /\ s.epoch = INVALID /\ s.batch = 0
        /\ s.actions = {} /\ s.replica = u
    BY StartedFields
  <1>3. RoleOK(s) /\ ActionOK(s) /\ ProposerOK(s) /\ ReplicaOK(s.replica) /\ ReplicaOK(u)
    BY <1>2, FollowerOK, Before
  <1>4. TypeOK' /\ TokensOK'
    BY <1>1, <1>2 DEF LeadershipInv, TypeOK, TokensOK, bounds, Restart
  <1>5. s \in Processor /\ s.epoch \in {INVALID, pp[p].epoch}
    BY <1>2
  <1> QED
    BY <1>1, <1>3, <1>4, <1>5, ReadStep

-----------------------------------------------------------------------------
(* A processor applies a record *)

LEMMA AdvanceFields ==
    ASSUME TypeOK, RecordsOK, NEW c \in Replica, ReplicaOK(c), c.lsn < Len(log),
           NEW r \in Record, r = log[c.lsn + 1], ~IsDuplicate(c, r), NEW d, d = AdvanceLastApplied(c, r)
    PROVE  /\ d \in Replica /\ ReplicaOK(d) /\ d.applied = c.applied \cup {c.lsn + 1}
           /\ d.dedup = IF IsSelfProposal(r) THEN r.esn ELSE c.dedup
  <1>1. c.lsn \in Nat /\ c.applied \subseteq Nat /\ c.dedup \in Esn /\ r.esn \in Esn
    BY ReplicaFields, RecordFields
  <1>n. PICK n \in Nat : n = c.lsn + 1
    BY <1>1
  <1>a. PICK a \in SUBSET Nat : a = c.applied \cup {n}
    BY <1>1
  <1>x. PICK x \in Esn : x = IF IsSelfProposal(r) THEN r.esn ELSE c.dedup
    BY <1>1
  <1>2. d = [c EXCEPT !.lsn = n, !.applied = a, !.dedup = x]
    BY <1>n, <1>a, <1>x DEF AdvanceLastApplied, Replica
  <1>3. d \in Replica /\ d.lsn = n /\ d.applied = a /\ d.dedup = x
    BY <1>2 DEF Replica
  <1>4. ReplicaOK(d)
    BY <1>3, <1>n, <1>a, <1>x, AdvanceOK
  <1> QED
    BY <1>3, <1>4, <1>n, <1>a, <1>x

\* a processor with its transaction, after another record
Applied(t, d, b) == [t EXCEPT !.replica = d, !.batch = b]

LEMMA AppliedFields ==
    ASSUME NEW t \in Processor, NEW d \in Replica, NEW b \in 0 .. MaxBatch, NEW s, s = Applied(t, d, b)
    PROVE  /\ s \in Processor /\ s.mode = t.mode /\ s.epoch = t.epoch /\ s.next = t.next
           /\ s.replica = d /\ s.up = t.up /\ s.batch = b /\ s.actions = t.actions /\ s.told = t.told
  BY DEF Applied, Processor

LEMMA StillPassed ==
    ASSUME NEW a \in Esn, NEW b \in Esn, a = b \/ EsnLess(a, b), NEW x \in Esn, ~EsnLess(a, x)
    PROVE  ~EsnLess(b, x)
  BY EsnPair DEF EsnLess

\* a record of the epoch that the processor is in changes no role
LEMMA SameReign ==
    ASSUME TypeOK, NEW t \in Processor, NEW s \in Processor, RoleOK(t), ProposerOK(t),
           s.mode = t.mode, s.epoch = t.epoch, s.next = t.next, s.up = t.up,
           s.replica.dedup[1] = t.replica.dedup[1],
           s.replica.dedup = t.replica.dedup \/ EsnLess(t.replica.dedup, s.replica.dedup)
    PROVE  RoleOK(s) /\ ProposerOK(s)
  <1>1. RoleOK(s)
    BY DEF RoleOK
  <1>2. s.replica.dedup \in Esn /\ t.replica.dedup \in Esn
    BY ProcessorFields, ReplicaFields
  <1>3. ASSUME NEW r \in Record, Passed(t, r) PROVE Passed(s, r)
    BY <1>2, <1>3, RecordFields, StillPassed DEF Passed
  <1>4. ASSUME t.mode = "Leader"
        PROVE  /\ \A i \in 1 .. Len(queue[t.epoch]) : Passed(s, queue[t.epoch][i])
               /\ \A i \in 1 .. Len(log) : Passed(s, log[i])
    <2>1. t.epoch \in Epoch
      BY <1>4, ProcessorFields, Numbers DEF RoleOK
    <2>2. /\ \A i \in 1 .. Len(queue[t.epoch]) : queue[t.epoch][i] \in Record
          /\ \A i \in 1 .. Len(log) : log[i] \in Record
      BY <2>1, LogFields
    <2> QED
      BY <1>3, <1>4, <2>2 DEF ProposerOK
  <1>5. ProposerOK(s)
    BY <1>4 DEF ProposerOK
  <1> QED
    BY <1>1, <1>5

LEMMA ApplyDuplicate ==
    ASSUME LeadershipInv, NEW p \in Proc, ApplyLogEntry(p),
           IsDuplicate(pp[p].replica, log[pp[p].replica.lsn + 1])
    PROVE  LeadershipInv'
  <1> PICK t \in Processor, c \in Replica, u \in Replica : t = pp[p] /\ c = t.replica /\ u = store[p]
    BY Before
  <1>1. /\ pp' = [pp EXCEPT ![p].replica.lsn = @ + 1, ![p].batch = @ + 1]
        /\ t.batch < MaxBatch /\ c.lsn < Len(log) /\ IsDuplicate(c, log[c.lsn + 1])
        /\ UNCHANGED <<store, queue, noted, claimed, claims, manager, target, log, bounds>>
    BY DEF ApplyLogEntry
  <1>2. c.lsn \in Nat /\ t.batch \in Nat /\ t.batch + 1 \in 0 .. MaxBatch
    <2>1. t.batch \in 0 .. MaxBatch /\ MaxBatch \in Nat
      BY ProcessorFields, Numbers
    <2> QED
      BY <1>1, <2>1, ReplicaFields
  <1>n. PICK n \in Nat : n = c.lsn + 1
    BY <1>2
  <1>b. PICK b \in 0 .. MaxBatch : b = t.batch + 1 /\ b # 0
    BY <1>2
  <1>d. PICK d : d = [c EXCEPT !.lsn = n]
    OBVIOUS
  <1>s. PICK s : s = Applied(t, d, b)
    OBVIOUS
  <1>3. d \in Replica /\ d.lsn = n /\ d.applied = c.applied /\ d.dedup = c.dedup
    BY <1>d DEF Replica
  <1>4. /\ s \in Processor /\ s.mode = t.mode /\ s.epoch = t.epoch /\ s.next = t.next
        /\ s.replica = d /\ s.up = t.up /\ s.batch = b /\ s.actions = t.actions /\ s.told = t.told
    BY <1>3, <1>s, AppliedFields
  <1>5. pp' = [pp EXCEPT ![p] = s]
    BY <1>1, <1>n, <1>b, <1>d, <1>s DEF LeadershipInv, TypeOK, Applied
  <1>6. TypeOK /\ RecordsOK /\ ReplicaOK(c) /\ ReplicaOK(u) /\ RoleOK(t) /\ ActionOK(t) /\ ProposerOK(t)
    BY Before DEF LeadershipInv
  <1>7. ReplicaOK(d)
    BY <1>1, <1>3, <1>6, <1>n, SkipOK
  <1>8. RoleOK(s) /\ ProposerOK(s)
    BY <1>3, <1>4, <1>6, SameReign
  <1>9. ActionOK(s)
    BY <1>3, <1>4, <1>6, <1>b DEF ActionOK
  <1>10. TypeOK' /\ TokensOK'
    BY <1>1, <1>4, <1>5 DEF LeadershipInv, TypeOK, TokensOK, bounds
  <1>11. store' = [store EXCEPT ![p] = u] /\ target' = target /\ UNCHANGED <<log, queue, claimed, claims>>
    BY <1>1, <1>6 DEF TypeOK
  <1>12. s \in Processor /\ s.epoch \in {INVALID, pp[p].epoch} /\ ReplicaOK(s.replica)
    BY <1>4, <1>7
  <1> QED
    BY <1>5, <1>6, <1>8, <1>9, <1>10, <1>11, <1>12, ReadStep

LEMMA ApplyCommand ==
    ASSUME LeadershipInv, NEW p \in Proc, ApplyLogEntry(p), NEW r, r = log[pp[p].replica.lsn + 1],
           ~IsDuplicate(pp[p].replica, r), r.kind \notin {"announce", "barrier"}
    PROVE  LeadershipInv'
  <1> PICK t \in Processor, c \in Replica, u \in Replica : t = pp[p] /\ c = t.replica /\ u = store[p]
    BY Before
  <1>1. /\ OnCommand(p, r)
        /\ t.batch < MaxBatch /\ c.lsn < Len(log) /\ ~IsDuplicate(c, r) /\ r = log[c.lsn + 1]
        /\ UNCHANGED <<claimed, claims, manager, target, log, bounds>>
    BY DEF ApplyLogEntry
  <1>2. c.lsn \in Nat /\ t.batch \in Nat /\ t.batch + 1 \in 0 .. MaxBatch /\ t.actions \in SUBSET Nat
    <2>1. t.batch \in 0 .. MaxBatch /\ MaxBatch \in Nat
      BY ProcessorFields, Numbers
    <2> QED
      BY <1>1, <2>1, ReplicaFields, ProcessorFields
  <1>3. TypeOK /\ RecordsOK /\ PredecessorsFirst /\ ReplicaOK(c) /\ ReplicaOK(u) /\ RoleOK(t) /\ ActionOK(t)
        /\ ProposerOK(t)
    BY Before DEF LeadershipInv
  <1>4. r \in Record
    BY <1>1, <1>2, <1>3, LogFields
  <1>b. PICK b \in 0 .. MaxBatch : b = t.batch + 1 /\ b # 0
    BY <1>2
  <1>n. PICK n \in Nat : n = c.lsn + 1
    BY <1>2
  <1>y. PICK y \in SUBSET Nat :
        y = IF t.mode \in {"Leader", "BecomingLeader"} THEN t.actions \cup {n} ELSE t.actions
    BY <1>2
  <1>d. PICK d : d = AdvanceLastApplied(c, r)
    OBVIOUS
  <1>5. /\ d \in Replica /\ ReplicaOK(d) /\ d.applied = c.applied \cup {c.lsn + 1}
        /\ d.dedup = IF IsSelfProposal(r) THEN r.esn ELSE c.dedup
    BY <1>1, <1>3, <1>4, <1>d, AdvanceFields
  <1>s. PICK s : s = [t EXCEPT !.replica = d, !.actions = y, !.batch = b]
    OBVIOUS
  <1>6. /\ s \in Processor /\ s.mode = t.mode /\ s.epoch = t.epoch /\ s.next = t.next
        /\ s.replica = d /\ s.up = t.up /\ s.batch = b /\ s.actions = y /\ s.told = t.told
    BY <1>5, <1>s DEF Processor
  <1>7. pp' = [pp EXCEPT ![p] = s] /\ UNCHANGED <<store, queue, noted>>
    BY <1>1, <1>b, <1>n, <1>y, <1>d, <1>s DEF OnCommand, LeadershipInv, TypeOK
  <1>8. RoleOK(s) /\ ProposerOK(s)
    <2>1. d.dedup[1] = c.dedup[1] /\ (d.dedup = c.dedup \/ EsnLess(c.dedup, d.dedup))
      <3>1. CASE IsSelfProposal(r)
        BY <1>1, <1>3, <1>4, <1>5, <3>1, NextRecordIs
      <3>2. CASE ~IsSelfProposal(r)
        BY <1>5, <3>2
      <3> QED
        BY <3>1, <3>2
    <2> QED
      BY <1>3, <1>6, <2>1, SameReign
  <1>9. ActionOK(s)
    <2>1. s.batch # 0
      BY <1>6, <1>b
    <2> QED
      BY <1>3, <1>5, <1>6, <2>1, <1>n, <1>y DEF ActionOK
  <1>10. TypeOK' /\ TokensOK'
    BY <1>1, <1>6, <1>7 DEF LeadershipInv, TypeOK, TokensOK, bounds
  <1>11. store' = [store EXCEPT ![p] = u] /\ target' = target /\ UNCHANGED <<log, queue, claimed, claims>>
    BY <1>1, <1>3, <1>7 DEF TypeOK
  <1>12. s \in Processor /\ s.epoch \in {INVALID, pp[p].epoch} /\ ReplicaOK(s.replica)
    BY <1>5, <1>6
  <1> QED
    BY <1>3, <1>7, <1>8, <1>9, <1>10, <1>11, <1>12, ReadStep

LEMMA ApplyBarrier ==
    ASSUME LeadershipInv, NEW p \in Proc, ApplyLogEntry(p), NEW r, r = log[pp[p].replica.lsn + 1],
           ~IsDuplicate(pp[p].replica, r), r.kind = "barrier"
    PROVE  LeadershipInv'
  <1> PICK t \in Processor, c \in Replica : t = pp[p] /\ c = t.replica
    BY Before
  <1>1. /\ OnVersionBarrier(p, r)
        /\ t.batch < MaxBatch /\ c.lsn < Len(log) /\ ~IsDuplicate(c, r) /\ r = log[c.lsn + 1]
        /\ UNCHANGED <<claimed, claims, manager, target, log, bounds>>
    BY DEF ApplyLogEntry
  <1>2. c.lsn \in Nat /\ t.batch \in Nat /\ t.batch + 1 \in 0 .. MaxBatch /\ c.applied \in SUBSET Nat
    <2>1. t.batch \in 0 .. MaxBatch /\ MaxBatch \in Nat
      BY ProcessorFields, Numbers
    <2> QED
      BY <1>1, <2>1, ReplicaFields
  <1>3. TypeOK /\ RecordsOK /\ PredecessorsFirst /\ ReplicaOK(c) /\ RoleOK(t) /\ ActionOK(t) /\ ProposerOK(t)
    BY Before DEF LeadershipInv
  <1>4. r \in Record /\ IsSelfProposal(r) /\ c.lsn + 1 \in 1 .. Len(log)
    BY <1>1, <1>2, <1>3, LogFields, RecordFields
  <1>b. PICK b \in 0 .. MaxBatch : b = t.batch + 1 /\ b # 0
    BY <1>2
  <1>f. PICK f \in BOOLEAN : f = TRUE
    OBVIOUS
  <1>u. PICK u : u = [c EXCEPT !.feature = f]
    OBVIOUS
  <1>5. u \in Replica /\ u.lsn = c.lsn /\ u.dedup = c.dedup /\ u.applied = c.applied /\ u.feature
    BY <1>f, <1>u DEF Replica
  <1>6. ReplicaOK(u) /\ ~IsDuplicate(u, r)
    BY <1>1, <1>3, <1>5 DEF ReplicaOK, IsDuplicate
  <1>d. PICK d : d = AdvanceLastApplied(u, r)
    OBVIOUS
  <1>7. d \in Replica /\ ReplicaOK(d) /\ d.applied = c.applied \cup {c.lsn + 1} /\ d.dedup = r.esn
    <2>1. u.lsn < Len(log) /\ r = log[u.lsn + 1] /\ ~IsDuplicate(u, r)
      BY <1>1, <1>5, <1>6
    <2>2. /\ d \in Replica /\ ReplicaOK(d) /\ d.applied = u.applied \cup {u.lsn + 1}
          /\ d.dedup = IF IsSelfProposal(r) THEN r.esn ELSE u.dedup
      BY <1>3, <1>4, <1>5, <1>6, <1>d, <2>1, AdvanceFields
    <2> QED
      BY <1>4, <1>5, <2>2
  <1>8. /\ d.dedup \in Esn /\ c.dedup \in Esn
        /\ d.dedup[1] = c.dedup[1] /\ EsnLess(c.dedup, d.dedup) /\ d.dedup[2] > 0
    BY <1>1, <1>3, <1>4, <1>7, NextRecordIs, ReplicaFields
  <1>x. PICK x : x = [t EXCEPT !.replica = u]
    OBVIOUS
  <1>9. /\ x \in Processor /\ x.mode = t.mode /\ x.epoch = t.epoch /\ x.next = t.next
        /\ x.replica = u /\ x.up = t.up /\ x.batch = t.batch /\ x.actions = t.actions /\ x.told = t.told
    BY <1>5, <1>x DEF Processor
  <1>y. PICK y : y = IF t.mode = "BecomingLeader" THEN [x EXCEPT !.mode = "Leader", !.told = c.applied] ELSE x
    OBVIOUS
  <1>s. PICK s : s = Applied(y, d, b)
    OBVIOUS
  <1>10. y.batch = t.batch /\ y.replica = u
    BY <1>9, <1>y DEF Processor
  <1>11. pp' = [pp EXCEPT ![p] = s] /\ store' = [store EXCEPT ![p] = u] /\ UNCHANGED <<queue, noted>>
    <2>1. y = IF x.mode = "BecomingLeader" THEN BecomeLeader(p, x, u) ELSE x
      BY <1>5, <1>9, <1>y DEF BecomeLeader, NeedsBarrier
    <2>2. s = [y EXCEPT !.replica = AdvanceLastApplied(@, r), !.batch = @ + 1]
      BY <1>10, <1>b, <1>d, <1>s DEF Applied
    <2> QED
      BY <1>1, <2>1, <2>2, <1>f, <1>u, <1>x DEF OnVersionBarrier
  <1>14. ASSUME s \in Processor, s.epoch = t.epoch, s.replica = d, RoleOK(s), ActionOK(s), ProposerOK(s)
         PROVE  LeadershipInv'
    <2>1. TypeOK' /\ TokensOK'
      BY <1>1, <1>5, <1>11, <1>14 DEF LeadershipInv, TypeOK, TokensOK, bounds
    <2>2. target' = target /\ UNCHANGED <<log, queue, claimed, claims>>
      BY <1>1, <1>11
    <2>3. s.epoch \in {INVALID, pp[p].epoch} /\ ReplicaOK(s.replica)
      BY <1>7, <1>14
    <2> QED
      BY <1>5, <1>6, <1>11, <1>14, <2>1, <2>2, <2>3, ReadStep
  <1>12. CASE t.mode = "BecomingLeader"
    <2>m. PICK m \in {"Follower", "Candidate", "BecomingLeader", "Leader"}, a \in SUBSET Nat :
          m = "Leader" /\ a = c.applied
      BY <1>2
    <2>1. y = [x EXCEPT !.mode = m, !.told = a]
      BY <1>12, <1>y, <2>m
    <2>2. /\ y \in Processor /\ y.mode = "Leader" /\ y.epoch = t.epoch /\ y.next = t.next
          /\ y.up = t.up /\ y.actions = t.actions /\ y.told = c.applied
      BY <1>9, <2>1, <2>m DEF Processor
    <2>3. /\ s \in Processor /\ s.mode = "Leader" /\ s.epoch = t.epoch /\ s.next = t.next
          /\ s.replica = d /\ s.up = t.up /\ s.batch = b /\ s.actions = t.actions /\ s.told = c.applied
      BY <1>7, <2>2, <1>s, AppliedFields
    <2>4. t.next = 2 /\ c.dedup[1] = t.epoch /\ t.epoch # INVALID /\ t.up
      BY <1>3, <1>12, ProcessorFields DEF RoleOK
    <2>5. RoleOK(s)
      BY <1>8, <2>3, <2>4 DEF RoleOK
    <2>6. ActionOK(s)
      <3>1. s.batch # 0
        BY <1>b, <2>3
      <3> QED
        BY <1>1, <1>7, <2>3, <3>1 DEF ActionOK
    <2>7. ProposerOK(s)
      <3>1. t.epoch \in Epoch
        BY <2>4, ProcessorFields, Numbers
      <3>2. /\ \A i \in 1 .. Len(queue[t.epoch]) :
                 IsSelfProposal(queue[t.epoch][i]) => queue[t.epoch][i].esn[2] < 2
            /\ \A i \in 1 .. Len(log) :
                 IsSelfProposal(log[i]) /\ log[i].esn[1] = t.epoch => log[i].esn[2] < 2
        BY <1>3, <1>12, <2>4 DEF ProposerOK
      <3>3. ASSUME NEW z \in Record, IsSelfProposal(z) /\ z.esn[1] = t.epoch => z.esn[2] < 2
            PROVE  Passed(s, z)
        <4>1. z.esn \in Esn /\ (z.kind = "barrier" => IsSelfProposal(z))
          BY RecordFields
        <4> QED
          BY <1>8, <2>3, <2>4, <3>3, <4>1, EsnPair DEF Passed, EsnLess
      <3>4. /\ \A i \in 1 .. Len(queue[t.epoch]) : Passed(s, queue[t.epoch][i])
            /\ \A i \in 1 .. Len(log) : Passed(s, log[i])
        BY <1>3, <3>1, <3>2, <3>3, LogFields
      <3> QED
        BY <1>3, <1>12, <2>3, <3>4 DEF ProposerOK
    <2> QED
      BY <2>3, <2>5, <2>6, <2>7, <1>14
  <1>13. CASE t.mode # "BecomingLeader"
    <2>1. y = x
      BY <1>13, <1>y
    <2>2. /\ s \in Processor /\ s.mode = t.mode /\ s.epoch = t.epoch /\ s.next = t.next
          /\ s.replica = d /\ s.up = t.up /\ s.batch = b /\ s.actions = t.actions /\ s.told = t.told
      BY <1>7, <1>9, <2>1, <1>s, AppliedFields
    <2>3. RoleOK(s) /\ ProposerOK(s)
      BY <1>3, <1>8, <2>2, SameReign
    <2>4. ActionOK(s)
      <3>1. s.batch # 0
        BY <1>b, <2>2
      <3> QED
        BY <1>1, <1>3, <1>7, <2>2, <3>1 DEF ActionOK
    <2> QED
      BY <2>2, <2>3, <2>4, <1>14
  <1> QED
    BY <1>12, <1>13

LEMMA ApplyAnnounce ==
    ASSUME LeadershipInv, NEW p \in Proc, ApplyLogEntry(p), NEW r, r = log[pp[p].replica.lsn + 1],
           ~IsDuplicate(pp[p].replica, r), r.kind = "announce"
    PROVE  LeadershipInv'
  <1> PICK t \in Processor, c \in Replica : t = pp[p] /\ c = t.replica
    BY Before
  <1>1. /\ OnAnnounceLeader(p, r)
        /\ t.batch < MaxBatch /\ c.lsn < Len(log) /\ ~IsDuplicate(c, r) /\ r = log[c.lsn + 1]
        /\ UNCHANGED <<claimed, claims, manager, target, log, bounds>>
    BY DEF ApplyLogEntry
  <1>2. c.lsn \in Nat /\ t.batch \in Nat /\ t.batch + 1 \in 0 .. MaxBatch /\ c.applied \in SUBSET Nat
    <2>1. t.batch \in 0 .. MaxBatch /\ MaxBatch \in Nat
      BY ProcessorFields, Numbers
    <2> QED
      BY <1>1, <2>1, ReplicaFields
  <1>3. TypeOK /\ RecordsOK /\ PredecessorsFirst /\ ReplicaOK(c) /\ RoleOK(t) /\ ActionOK(t) /\ ProposerOK(t)
    BY Before DEF LeadershipInv
  <1>4. r \in Record /\ IsSelfProposal(r) /\ c.lsn + 1 \in 1 .. Len(log)
    BY <1>1, <1>2, <1>3, LogFields, RecordFields
  <1>b. PICK b \in 0 .. MaxBatch : b = t.batch + 1 /\ b # 0
    BY <1>2
  <1>d. PICK d : d = AdvanceLastApplied(c, r)
    OBVIOUS
  <1>5. d \in Replica /\ ReplicaOK(d) /\ d.applied = c.applied \cup {c.lsn + 1} /\ d.dedup = r.esn
    BY <1>1, <1>3, <1>4, <1>d, AdvanceFields
  <1>0. /\ log[c.lsn + 1].esn[1] \in Epoch
        /\ log[c.lsn + 1].esn[2] = 0 /\ c.dedup[1] < log[c.lsn + 1].esn[1]
    BY <1>1, <1>3, <1>4, NextRecordIs
  <1>e. PICK e \in Epoch : e = r.esn[1]
    BY <1>0, <1>1
  <1>6. /\ e \in 0 .. MaxEpoch /\ e \in Nat /\ r.esn[1] = e /\ r.esn[2] = 0
        /\ c.dedup[1] < e /\ c.dedup[1] \in Nat
    <2>1. c.dedup[1] \in Nat
      BY ReplicaFields, EsnPair
    <2> QED
      BY <1>0, <1>1, <1>e, <2>1, Numbers
  <1>y. PICK y \in SUBSET Nat : y = {}
    OBVIOUS
  <1>x. PICK x : x = [t EXCEPT !.actions = y, !.observed = e]
    OBVIOUS
  <1>7. /\ x \in Processor /\ x.mode = t.mode /\ x.epoch = t.epoch /\ x.next = t.next
        /\ x.replica = c /\ x.up = t.up /\ x.batch = t.batch /\ x.actions = {} /\ x.told = t.told
    BY <1>6, <1>x, <1>y DEF Processor
  <1>8. /\ store' = [store EXCEPT ![p] = c] /\ noted' = noted \cup {e}
        /\ queue' = IF Wins(x, e) THEN ProposeBarrier(p, x) ELSE queue
    BY <1>1, <1>7, <1>e, <1>x, <1>y DEF OnAnnounceLeader
  <1>z. PICK z : z = CASE Wins(x, e) -> BecomeLeader(p, x, c)
                       [] ~Wins(x, e) /\ Concedes(x, e) -> BecomeFollower(x)
                       [] OTHER -> x
    OBVIOUS
  <1>9. pp' = [pp EXCEPT ![p] = [z EXCEPT !.replica = AdvanceLastApplied(@, r), !.batch = @ + 1]]
    BY <1>1, <1>7, <1>e, <1>x, <1>y, <1>z DEF OnAnnounceLeader
  <1>s. PICK s : s = Applied(z, d, b)
    OBVIOUS
  <1>10. ASSUME z.replica = c, z.batch = t.batch
         PROVE  pp' = [pp EXCEPT ![p] = s]
    BY <1>9, <1>10, <1>b, <1>d, <1>s DEF Applied
  <1>11. ASSUME s \in Processor, pp' = [pp EXCEPT ![p] = s], queue' \in [Epoch -> Seq(Record)]
         PROVE  TypeOK' /\ TokensOK'
    BY <1>1, <1>3, <1>6, <1>8, <1>11 DEF LeadershipInv, TypeOK, TokensOK, bounds
  <1>12. ASSUME z \in Processor, z.replica = c, z.batch = t.batch, queue' = queue, s.epoch \in {INVALID, t.epoch},
                RoleOK(s), ActionOK(s), ProposerOK(s)
         PROVE  LeadershipInv'
    <2>1. s \in Processor /\ s.replica = d
      BY <1>5, <1>12, <1>s, AppliedFields
    <2>2. pp' = [pp EXCEPT ![p] = s]
      BY <1>10, <1>12
    <2>3. TypeOK' /\ TokensOK'
      BY <1>3, <1>11, <1>12, <2>1, <2>2 DEF TypeOK
    <2>4. target' = target /\ UNCHANGED <<log, queue, claimed, claims>> /\ ReplicaOK(s.replica)
      BY <1>1, <1>5, <1>12, <2>1
    <2>5. s.epoch \in {INVALID, pp[p].epoch}
      BY <1>12
    <2> QED
      BY <1>3, <1>8, <1>12, <2>1, <2>2, <2>3, <2>4, <2>5, ReadStep
  <1>13. t.mode \in {"BecomingLeader", "Leader"} => t.epoch < e
    BY <1>3, <1>6 DEF RoleOK
  <1>14. CASE Wins(x, e)
    <2>1. t.mode = "Candidate" /\ t.epoch = e /\ t.next = 1 /\ t.up
      BY <1>3, <1>6, <1>7, <1>13, <1>14, ProcessorFields DEF Wins, RoleOK
    <2>2. z = BecomeLeader(p, x, c)
      BY <1>14, <1>z
    <2>3. /\ \A i \in 1 .. Len(queue[e]) : IsSelfProposal(queue[e][i]) => queue[e][i].esn[2] < 1
          /\ \A i \in 1 .. Len(log) : IsSelfProposal(log[i]) /\ log[i].esn[1] = e => log[i].esn[2] < 1
          /\ InQueue(e, Len(queue[e]), <<e, 1 - 1>>) \/ InLog(Len(log), <<e, 1 - 1>>)
      BY <1>3, <2>1 DEF ProposerOK
    <2>4. CASE ~NeedsBarrier(p, c)
      <3>m. PICK m \in {"Follower", "Candidate", "BecomingLeader", "Leader"} : m = "Leader"
        OBVIOUS
      <3>1. z = [x EXCEPT !.mode = m, !.told = c.applied]
        BY <1>7, <2>2, <2>4, <3>m DEF BecomeLeader
      <3>2. /\ z \in Processor /\ z.mode = "Leader" /\ z.epoch = t.epoch /\ z.next = t.next
            /\ z.replica = c /\ z.up = t.up /\ z.batch = t.batch /\ z.actions = {} /\ z.told = c.applied
        BY <1>2, <1>7, <3>1, <3>m DEF Processor
      <3>3. /\ s \in Processor /\ s.mode = "Leader" /\ s.epoch = e /\ s.next = 1
            /\ s.replica = d /\ s.up = t.up /\ s.batch = b /\ s.actions = {} /\ s.told = c.applied
        <4>1. z \in Processor /\ d \in Replica
          BY <1>5, <3>2
        <4>2. /\ s \in Processor /\ s.mode = z.mode /\ s.epoch = z.epoch /\ s.next = z.next
              /\ s.replica = d /\ s.up = z.up /\ s.batch = b /\ s.actions = z.actions /\ s.told = z.told
          BY <1>s, <4>1, AppliedFields
        <4> QED
          BY <2>1, <3>2, <4>2
      <3>4. RoleOK(s)
        BY <1>5, <1>6, <2>1, <3>3, Numbers DEF RoleOK
      <3>5. ActionOK(s)
        BY <1>1, <1>5, <1>b, <3>3 DEF ActionOK
      <3>6. ProposerOK(s)
        <4>1. ASSUME NEW a \in Record, IsSelfProposal(a) /\ a.esn[1] = e => a.esn[2] < 1
              PROVE  Passed(s, a)
          <5>1. a.esn \in Esn /\ (a.kind = "barrier" => IsSelfProposal(a))
            BY RecordFields
          <5> QED
            BY <1>5, <1>6, <3>3, <4>1, <5>1, EsnPair DEF Passed, EsnLess
        <4>2. /\ \A i \in 1 .. Len(queue[e]) : Passed(s, queue[e][i])
              /\ \A i \in 1 .. Len(log) : Passed(s, log[i])
          BY <1>3, <1>6, <2>3, <4>1, LogFields
        <4> QED
          BY <2>3, <3>3, <4>2 DEF ProposerOK
      <3>7. queue' = queue
        BY <1>7, <1>8, <1>14, <2>4 DEF ProposeBarrier
      <3>8. s.epoch \in {INVALID, t.epoch}
        BY <2>1, <3>3
      <3> QED
        BY <1>12, <3>2, <3>4, <3>5, <3>6, <3>7, <3>8
    <2>5. CASE NeedsBarrier(p, c)
      <3>m. PICK m \in {"Follower", "Candidate", "BecomingLeader", "Leader"} : m = "BecomingLeader"
        OBVIOUS
      <3>n. PICK n \in 0 .. MaxSeq + 1 : n = 2
        BY Numbers
      <3>1. z = [x EXCEPT !.mode = m, !.next = n]
        <4>1. z = [x EXCEPT !.mode = "BecomingLeader", !.next = @ + 1]
          BY <1>7, <2>2, <2>5 DEF BecomeLeader
        <4>2. x.next + 1 = n
          BY <1>7, <2>1, <3>n
        <4>3. z = [x EXCEPT !.mode = m, !.next = x.next + 1]
          BY <1>7, <4>1, <3>m DEF Processor
        <4> QED
          BY <4>2, <4>3
      <3>2. /\ z \in Processor /\ z.mode = "BecomingLeader" /\ z.epoch = t.epoch /\ z.next = 2
            /\ z.replica = c /\ z.up = t.up /\ z.batch = t.batch /\ z.actions = {}
        BY <1>7, <3>1, <3>m, <3>n DEF Processor
      <3>3. /\ s \in Processor /\ s.mode = "BecomingLeader" /\ s.epoch = e /\ s.next = 2
            /\ s.replica = d /\ s.up = t.up /\ s.batch = b /\ s.actions = {}
        <4>1. z \in Processor /\ d \in Replica
          BY <1>5, <3>2
        <4>2. /\ s \in Processor /\ s.mode = z.mode /\ s.epoch = z.epoch /\ s.next = z.next
              /\ s.replica = d /\ s.up = z.up /\ s.batch = b /\ s.actions = z.actions
          BY <1>s, <4>1, AppliedFields
        <4> QED
          BY <2>1, <3>2, <4>2
      <3>a. PICK a : a = [kind |-> "barrier", esn |-> <<e, 1>>]
        OBVIOUS
      <3>4. queue' = [queue EXCEPT ![e] = Append(@, a)]
        BY <1>7, <1>8, <1>14, <2>1, <2>5, <3>a DEF ProposeBarrier, Proposal
      <3>5. /\ a \in Record /\ IsSelfProposal(a) /\ a.esn[1] = e /\ a.esn[2] = 1 /\ a.esn = <<e, 1>>
            /\ a.kind = "barrier"
        <4>1. <<e, 1>> \in Esn
          BY <1>6, EsnPair, Numbers
        <4> QED
          BY <3>a, <4>1 DEF Record, IsSelfProposal
      <3>6. RoleOK(s)
        BY <1>5, <1>6, <2>1, <3>3, Numbers DEF RoleOK
      <3>7. ActionOK(s)
        BY <3>3 DEF ActionOK
      <3>8. pp' = [pp EXCEPT ![p] = s]
        BY <1>10, <3>2
      <3>9. TypeOK'
        BY <1>3, <1>6, <1>11, <3>3, <3>4, <3>5, <3>8, AppendShape
      <3>10. ProposerOK(s)'
        <4>1. \A i \in 1 .. Len(queue[e]) : IsSelfProposal(queue[e][i]) => queue[e][i].esn[2] < s.next
          <5>1. \A i \in 1 .. Len(queue[e]) : queue[e][i].esn[2] \in Nat
            BY <1>3, <1>6, LogFields, RecordFields, EsnPair
          <5>2. s.next = 2
            BY <3>3
          <5>3. \A k \in Nat : k < 1 => k < s.next
            BY <5>2
          <5> QED
            BY <2>3, <5>1, <5>3
        <4>2. \A i \in 1 .. Len(log) : IsSelfProposal(log[i]) /\ log[i].esn[1] = e => log[i].esn[2] < s.next
          <5>1. \A i \in 1 .. Len(log) : log[i].esn[2] \in Nat
            BY <1>3, LogFields, RecordFields, EsnPair
          <5>2. s.next = 2
            BY <3>3
          <5>3. \A k \in Nat : k < 1 => k < s.next
            BY <5>2
          <5> QED
            BY <2>3, <5>1, <5>3
        <4>3. a.esn[2] < s.next /\ a.esn = <<e, s.next - 1>> /\ s.mode # "Leader"
          BY <3>3, <3>5
        <4>4. UNCHANGED log /\ s \in Processor /\ s.epoch = e
          BY <1>1, <3>3
        <4> QED
          BY <1>3, <1>6, <3>4, <3>5, <4>1, <4>2, <4>3, <4>4, ProposerAppends
      <3>11. /\ UNCHANGED <<log, claimed, claims, manager>> /\ faults' = faults /\ target' = target
             /\ s.epoch = pp[p].epoch /\ ReplicaOK(s.replica) /\ RecordOK(a, e) /\ s \in Processor /\ s.epoch = e
        BY <1>1, <1>5, <2>1, <3>3, <3>5 DEF bounds, RecordOK
      <3>12. InQueue(e, Len(queue[e]), <<e, a.esn[2] - 1>>) \/ InLog(Len(log), <<e, a.esn[2] - 1>>)
        BY <2>3, <3>5
      <3> QED
        BY <1>3, <1>6, <1>8, <3>4, <3>5, <3>6, <3>7, <3>8, <3>9, <3>10, <3>11, <3>12, ProposeStep
    <2> QED
      BY <2>4, <2>5
  <1>15. CASE ~Wins(x, e) /\ Concedes(x, e)
    <2>1. z = BecomeFollower(x)
      BY <1>15, <1>z
    <2>2. /\ z \in Processor /\ z.mode = "Follower" /\ z.epoch = INVALID
          /\ z.replica = c /\ z.batch = t.batch /\ z.actions = {}
      BY <1>7, <2>1, FollowerFields
    <2>3. s \in Processor /\ s.mode = "Follower" /\ s.epoch = INVALID /\ s.actions = {}
      BY <1>5, <1>s, <2>2, AppliedFields
    <2>4. RoleOK(s) /\ ActionOK(s) /\ ProposerOK(s)
      BY <2>3, FollowerOK
    <2>5. queue' = queue
      BY <1>8, <1>15
    <2> QED
      BY <1>12, <2>2, <2>3, <2>4, <2>5
  <1>16. CASE ~Wins(x, e) /\ ~Concedes(x, e)
    <2>1. z = x /\ queue' = queue
      BY <1>8, <1>16, <1>z
    <2>2. /\ s \in Processor /\ s.mode = t.mode /\ s.epoch = t.epoch /\ s.next = t.next
          /\ s.replica = d /\ s.up = t.up /\ s.batch = b /\ s.actions = {} /\ s.told = t.told
      BY <1>5, <1>7, <1>s, <2>1, AppliedFields
    <2>3. t.mode = "Follower" \/ (t.mode = "Candidate" /\ e < t.epoch)
      <3>1. t.epoch \in Nat /\ t.mode \in {"Follower", "Candidate", "BecomingLeader", "Leader"}
        BY ProcessorFields, Numbers
      <3> QED
        BY <1>6, <1>7, <1>13, <1>16, <3>1 DEF Wins, Concedes
    <2>4. RoleOK(s)
      BY <1>3, <1>5, <1>6, <2>2, <2>3 DEF RoleOK
    <2>5. ActionOK(s)
      BY <2>2, <2>3 DEF ActionOK
    <2>6. ProposerOK(s)
      BY <1>3, <2>2, <2>3 DEF ProposerOK
    <2>7. z \in Processor /\ z.replica = c /\ z.batch = t.batch /\ s.epoch \in {INVALID, t.epoch}
      BY <1>7, <2>1, <2>2
    <2> QED
      BY <1>12, <2>1, <2>4, <2>5, <2>6, <2>7
  <1> QED
    BY <1>14, <1>15, <1>16

LEMMA ApplyLogEntryInv ==
    ASSUME LeadershipInv, NEW p \in Proc, ApplyLogEntry(p)
    PROVE  LeadershipInv'
  <1> PICK r : r = log[pp[p].replica.lsn + 1]
    OBVIOUS
  <1>1. CASE IsDuplicate(pp[p].replica, r)
    BY <1>1, ApplyDuplicate
  <1>2. CASE ~IsDuplicate(pp[p].replica, r) /\ r.kind = "announce"
    BY <1>2, ApplyAnnounce
  <1>3. CASE ~IsDuplicate(pp[p].replica, r) /\ r.kind = "barrier"
    BY <1>3, ApplyBarrier
  <1>4. CASE ~IsDuplicate(pp[p].replica, r) /\ r.kind \notin {"announce", "barrier"}
    BY <1>4, ApplyCommand
  <1> QED
    BY <1>1, <1>2, <1>3, <1>4

-----------------------------------------------------------------------------
(* The invariant *)

LEMMA InitInv ==
    ASSUME Init
    PROVE  LeadershipInv
  <1> USE DEF Init
  <1>1. \A p \in Proc : target[p] = INVALID /\ store[p] = EmptyReplica /\ pp[p] = Started(EmptyReplica)
    OBVIOUS
  <1>2. INVALID \in 0 .. MaxEpoch /\ 0 \in 0 .. MaxEpoch /\ 0 \in 0 .. MaxFaults /\ 0 \in 0 .. MaxForwarded
    BY Numbers DEF INVALID
  <1>3. EmptyReplica \in Replica
    BY EsnPair DEF EmptyReplica, Replica
  <1>s. PICK s : s = Started(EmptyReplica)
    OBVIOUS
  <1>4. /\ s \in Processor /\ s.mode = "Follower" /\ s.epoch = INVALID /\ s.batch = 0
        /\ s.actions = {} /\ s.replica = EmptyReplica /\ s.up
    BY <1>3, <1>s, StartedFields
  <1>5. pp = [p \in Proc |-> s] /\ \A p \in Proc : pp[p] = s
    BY <1>s
  <1>6. manager \in [Proc -> Manager] /\ \A p \in Proc : manager[p].token = 0
    BY <1>2 DEF Manager
  <1>7. TypeOK
    BY <1>2, <1>3, <1>4, <1>5, <1>6 DEF TypeOK
  <1>8. TokensOK
    BY <1>6 DEF TokensOK
  <1>9. Len(log) = 0 /\ \A e \in Epoch : queue[e] = <<>> /\ Len(queue[e]) = 0
    OBVIOUS
  <1>10. RecordsOK /\ PredecessorsFirst
    BY <1>9 DEF RecordsOK, PredecessorsFirst
  <1>11. ReplicasOK
    BY <1>1, <1>4, <1>5, <1>7, EmptyOK DEF ReplicasOK
  <1>12. RolesOK /\ ActionsOK /\ ProposersOK
    BY <1>4, <1>5, FollowerOK DEF RolesOK, ActionsOK, ProposersOK
  <1>13. EpochsOK
    <2>1. \A e \in Epoch : Unused(e)
      BY <1>4, <1>5, <1>9, Numbers DEF Unused
    <2> QED
      BY <1>1, <1>4, <1>5, <2>1 DEF EpochsOK
  <1> QED
    BY <1>7, <1>8, <1>10, <1>11, <1>12, <1>13 DEF LeadershipInv

LEMMA StutterInv ==
    ASSUME LeadershipInv, UNCHANGED vars
    PROVE  LeadershipInv'
  <1>1. TypeOK' /\ TokensOK' /\ RolesOK' /\ ActionsOK'
    BY DEF LeadershipInv, vars, TypeOK, TokensOK, RolesOK, RoleOK, ActionsOK, ActionOK
  <1>2. RecordsOK' /\ PredecessorsFirst'
    BY DEF LeadershipInv, vars, RecordsOK, RecordOK, PredecessorsFirst, InLog, InQueue
  <1>3. ReplicasOK'
    BY DEF LeadershipInv, vars, ReplicasOK, ReplicaOK, InLog, EffectiveRecords
  <1>4. ProposersOK'
    BY DEF LeadershipInv, vars, ProposersOK, ProposerOK, Passed, InLog, InQueue
  <1>5. EpochsOK'
    BY DEF LeadershipInv, vars, EpochsOK, Unused
  <1> QED
    BY <1>1, <1>2, <1>3, <1>4, <1>5 DEF LeadershipInv

LEMMA NextInv ==
    ASSUME LeadershipInv, [Next]_vars
    PROVE  LeadershipInv'
  <1>1. CASE \E p \in Proc :
               \/ RunAsLeader(p) \/ RunForLeader(p)
               \/ SelfPropose(p) \/ Forward(p)
               \/ ApplyLogEntry(p) \/ CommitBatch(p) \/ Crash(p) \/ Restart(p)
               \/ \E e \in Epoch : MaybeStepDown(p, e)
    BY <1>1, RunAsLeaderInv, RunForLeaderInv, SelfProposeInv, ForwardInv, ApplyLogEntryInv,
       CommitBatchInv, CrashInv, RestartInv, MaybeStepDownInv
  <1>2. CASE \E c \in claims : LeaderEpochObtained(c) \/ LeaderEpochFailed(c)
    BY <1>2, ClaimAnsweredInv
  <1>3. CASE \E e \in Epoch : ProcessAppends(e) \/ AppendUnacknowledged(e)
    BY <1>3, AppendersInv
  <1>4. CASE UNCHANGED vars
    BY <1>4, StutterInv
  <1> QED
    BY <1>1, <1>2, <1>3, <1>4 DEF Next

LEMMA InvHolds == Spec => []LeadershipInv
  BY InitInv, NextInv, PTL DEF Spec

-----------------------------------------------------------------------------
(* The theorems *)

(* Type correctness: the fields of every processor, manager, replica and   *)
(* record keep their types; in particular no self proposer goes past the   *)
(* sequence numbers of its epoch, and no open transaction past its batch.  *)
THEOREM LeadershipTypeCorrect == Spec => []TypeOK
  <1>1. LeadershipInv => TypeOK
    BY DEF LeadershipInv
  <1> QED
    BY <1>1, InvHolds, PTL

(* Replicas agree: what a processor has applied, and what it has           *)
(* committed, is a function of the part of the log it has read, for any    *)
(* number of processors, epochs, repeated appends and crashes.             *)
(* (apply_log_entry, is_duplicate, store_dedup_information.)               *)
THEOREM ReplicasAlwaysAgree == Spec => []ReplicasAgree
  <1>1. LeadershipInv => ReplicasAgree
    BY DEF LeadershipInv, ReplicasOK, ReplicaOK, ReplicasAgree
  <1> QED
    BY <1>1, InvHolds, PTL

(* A processor leads, or waits for its barrier, only while its own         *)
(* announcement is the last one it has read; and no two processors are     *)
(* ever in one epoch.  (on_announce_leader, maybe_step_down,               *)
(* obtain_next_epoch.)                                                     *)
THEOREM LeadersAreCurrent == Spec => []LeaderIsCurrent
  <1>1. LeadershipInv => LeaderIsCurrent
    BY DEF LeadershipInv, RolesOK, RoleOK, EpochsOK, LeaderIsCurrent
  <1> QED
    BY <1>1, InvHolds, PTL

(* The cases that on_announce_leader and the version barrier call bugs     *)
(* never come up: a processor that has won never reads an announcement of  *)
(* its own or an older epoch, and the only barrier it can read is the one  *)
(* that it is waiting for.                                                 *)
THEOREM ImpossibleRecordsNeverRead == Spec => []NoImpossibleRecord
  <1>1. ASSUME LeadershipInv PROVE NoImpossibleRecord
    <2> SUFFICES ASSUME NEW p \in Proc, HasNext(p), NEW r, r = NextRecord(p),
                        pp[p].mode \in {"BecomingLeader", "Leader"}
                 PROVE  /\ r.kind = "announce" => r.esn[1] > pp[p].epoch
                        /\ r.kind = "barrier" => pp[p].mode = "BecomingLeader" /\ r.esn[1] = pp[p].epoch
      BY DEF NoImpossibleRecord
    <2> PICK t \in Processor, c \in Replica : t = pp[p] /\ c = t.replica
      BY <1>1, Before
    <2>1. /\ c.lsn < Len(log) /\ r = log[c.lsn + 1] /\ ~IsDuplicate(c, r)
          /\ t.mode \in {"BecomingLeader", "Leader"}
      BY DEF HasNext, NextRecord
    <2>2. TypeOK /\ RecordsOK /\ PredecessorsFirst /\ ReplicaOK(c) /\ RoleOK(t) /\ ProposerOK(t)
      BY <1>1, Before DEF LeadershipInv
    <2>3. c.dedup[1] = t.epoch /\ c.dedup \in Esn /\ t.epoch \in Nat
      BY <2>1, <2>2, ReplicaFields, ProcessorFields, Numbers DEF RoleOK
    <2>4. c.lsn + 1 \in 1 .. Len(log)
      BY <2>1, <2>2, ReplicaFields, LogFields
    <2>5. ASSUME r.kind = "announce" PROVE r.esn[1] > t.epoch
      <3>1. IsSelfProposal(r)
        BY <2>5 DEF IsSelfProposal
      <3>2. r.esn[1] \in Epoch /\ c.dedup[1] < r.esn[1]
        BY <2>1, <2>2, <2>5, <3>1, NextRecordIs
      <3> QED
        BY <2>3, <3>2, Numbers
    <2>6. ASSUME r.kind = "barrier" PROVE t.mode = "BecomingLeader" /\ r.esn[1] = t.epoch
      <3>1. IsSelfProposal(r)
        BY <2>6 DEF IsSelfProposal
      <3>2. c.dedup[1] = r.esn[1] /\ EsnLess(c.dedup, r.esn)
        BY <2>1, <2>2, <2>6, <3>1, NextRecordIs
      <3>3. t.mode # "Leader"
        BY <2>1, <2>2, <2>3, <2>4, <2>6, <3>2 DEF ProposerOK, Passed
      <3> QED
        BY <2>1, <2>3, <3>2, <3>3
    <2> QED
      BY <2>5, <2>6
  <1> QED
    BY <1>1, InvHolds, PTL

(* Between two batches, the actuators of a leader know of every command    *)
(* it has applied, before or during its reign.  (AnnounceLeaderContext,    *)
(* become_leader, handle_actions.)                                         *)
THEOREM ActuatorsAlwaysKnowAll == Spec => []ActuatorsKnowAll
  <1>1. LeadershipInv => ActuatorsKnowAll
    BY DEF LeadershipInv, ActionsOK, ActionOK, ActuatorsKnowAll
  <1> QED
    BY <1>1, InvHolds, PTL

\* the first record with an ESN that occurs in the log
LEMMA FirstWithEsn ==
    ASSUME NEW n \in Nat, NEW x, InLog(n, x)
    PROVE  \E j \in 1 .. n : /\ IsSelfProposal(log[j]) /\ log[j].esn = x
                             /\ \A l \in 1 .. j - 1 : IsSelfProposal(log[l]) => log[l].esn # x
  <1> DEFINE T == {j \in 1 .. n : IsSelfProposal(log[j]) /\ log[j].esn = x}
             R == OpToRel(<, Nat)
  <1>1. T \subseteq Nat /\ T # {}
    BY DEF InLog
  <1>2. IsWellFoundedOn(R, Nat)
    BY NatLessThanWellFounded
  <1>3. \A a, b \in Nat : a < b => <<a, b>> \in R
    BY DEF OpToRel
  <1> HIDE DEF R
  <1>4. PICK j \in T : \A l \in T : <<l, j>> \notin R
    <2> HIDE DEF T
    <2> QED
      BY <1>1, <1>2, WFMin
  <1>5. \A l \in 1 .. j - 1 : l \in 1 .. n /\ l \in Nat /\ l < j /\ j \in Nat
    OBVIOUS
  <1>6. \A l \in 1 .. j - 1 : IsSelfProposal(log[l]) => log[l].esn # x
    BY <1>3, <1>4, <1>5
  <1> QED
    BY <1>6

(* The proposals of leaders are applied reign after reign: every epoch     *)
(* starts with its announcement, its proposals follow in the order in      *)
(* which they were made, none twice, none skipped, and none once a later   *)
(* epoch was announced.  (self_proposer.rs, dedup.rs.)                     *)
THEOREM ReignsAlwaysInOrder == Spec => []ReignsInOrder
  <1>1. ASSUME LeadershipInv PROVE ReignsInOrder
    <2> SUFFICES ASSUME NEW p \in Proc, NEW i \in pp[p].replica.applied, IsSelfProposal(log[i])
                 PROVE  /\ log[i].esn[2] = 0 <=> log[i].kind = "announce"
                        /\ \A j \in pp[p].replica.applied :
                             j < i /\ IsSelfProposal(log[j]) => EsnLess(log[j].esn, log[i].esn)
                        /\ log[i].esn[2] > 0 =>
                             \E j \in pp[p].replica.applied :
                                j < i /\ log[j].esn = <<log[i].esn[1], log[i].esn[2] - 1>>
                                      /\ IsSelfProposal(log[j])
      BY DEF ReignsInOrder
    <2> PICK c \in Replica : c = pp[p].replica
      BY <1>1, Before
    <2>1. TypeOK /\ RecordsOK /\ PredecessorsFirst /\ ReplicaOK(c)
      BY <1>1, Before DEF LeadershipInv
    <2>2. c.lsn \in Nat /\ Len(log) \in Nat /\ c.lsn <= Len(log) /\ c.applied = EffectiveRecords(c.lsn)
      BY <2>1, ReplicaFields, LogFields DEF ReplicaOK
    <2>3. /\ i \in 1 .. c.lsn /\ i \in 1 .. Len(log)
          /\ \A j \in 1 .. i - 1 : IsSelfProposal(log[j]) => EsnLess(log[j].esn, log[i].esn)
      BY <2>2 DEF EffectiveRecords
    <2>4. log[i].esn[2] = 0 <=> log[i].kind = "announce"
      BY <2>1, <2>3 DEF RecordsOK, RecordOK
    <2>5. ASSUME NEW j \in c.applied, j < i, IsSelfProposal(log[j])
          PROVE  EsnLess(log[j].esn, log[i].esn)
      <3>1. j \in 1 .. i - 1
        BY <2>2, <2>3, <2>5 DEF EffectiveRecords
      <3> QED
        BY <2>3, <2>5, <3>1
    <2>6. ASSUME log[i].esn[2] > 0
          PROVE  \E j \in c.applied : /\ j < i /\ log[j].esn = <<log[i].esn[1], log[i].esn[2] - 1>>
                                      /\ IsSelfProposal(log[j])
      <3>x. PICK x : x = <<log[i].esn[1], log[i].esn[2] - 1>>
        OBVIOUS
      <3>1. InLog(i - 1, x) /\ i - 1 \in Nat
        BY <2>1, <2>3, <2>6, <3>x DEF PredecessorsFirst
      <3>2. PICK j \in 1 .. i - 1 : /\ IsSelfProposal(log[j]) /\ log[j].esn = x
                                    /\ \A l \in 1 .. j - 1 : IsSelfProposal(log[l]) => log[l].esn # x
        BY <3>1, FirstWithEsn
      <3>3. j \in 1 .. c.lsn /\ j < i /\ \A l \in 1 .. j - 1 : l \in 1 .. i - 1 /\ l \in 1 .. Len(log)
        BY <2>2, <2>3
      <3>4. ASSUME NEW l \in 1 .. j - 1, IsSelfProposal(log[l]) PROVE EsnLess(log[l].esn, log[j].esn)
        <4>1. EsnLess(log[l].esn, log[i].esn) /\ log[l].esn # x
          BY <2>3, <3>2, <3>3, <3>4
        <4>2. log[l].esn \in Esn /\ log[i].esn \in Esn
          BY <2>1, <2>3, <3>3, LogFields, RecordFields
        <4> PICK a \in Esn, b \in Esn : a = log[l].esn /\ b = log[i].esn
          BY <4>2
        <4>3. a[1] \in Nat /\ a[2] \in Nat /\ b[1] \in Nat /\ b[2] \in Nat /\ b[2] > 0 /\ a = <<a[1], a[2]>>
          BY <2>6, EsnPair
        <4>4. x[1] = b[1] /\ x[2] = b[2] - 1 /\ a # <<b[1], b[2] - 1>>
          BY <3>x, <4>1
        <4>5. a[1] = b[1] => a[2] # b[2] - 1
          BY <4>3, <4>4
        <4>6. a[1] < b[1] \/ (a[1] = b[1] /\ a[2] < b[2])
          BY <4>1 DEF EsnLess
        <4>7. a[1] < x[1] \/ (a[1] = x[1] /\ a[2] < x[2])
          BY <4>3, <4>4, <4>5, <4>6
        <4> QED
          BY <3>2, <4>7 DEF EsnLess
      <3>5. j \in c.applied
        BY <2>2, <3>2, <3>3, <3>4 DEF EffectiveRecords
      <3> QED
        BY <3>2, <3>3, <3>5, <3>x
    <2> QED
      BY <2>4, <2>5, <2>6
  <1> QED
    BY <1>1, InvHolds, PTL
=============================================================================
