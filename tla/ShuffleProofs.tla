---------------------------- MODULE ShuffleProofs ----------------------------
(***************************************************************************)
(* No message is lost, repeated or overtaken between two partitions, and   *)
(* none is cut off an outbox before it was delivered: for every number of  *)
(* nodes, targets, messages, leader epochs, batches, hints and faults.     *)
(***************************************************************************)
EXTENDS Shuffle, NaturalsInduction, FiniteSetTheorems, TLAPS

-----------------------------------------------------------------------------
(* The inductive invariant.  A message is on its way to its target in many *)
(* places: in the queue and the batch of a session, and in requests of     *)
(* this and of earlier attempts of any node that ever led.  In each of     *)
(* them it may only come after all earlier messages for that target, or    *)
(* when the target has these already.                                      *)

\* the first k records of the log l put this many messages into the outbox
Enqueued(l, k) == Cardinality({i \in 1 .. k : l[i].kind = "enqueue"})

\* the sequence q of messages for target t, of the first p messages, comes
\* after the set E of messages without a gap; d are the targets of the messages
Follows(d, p, t, E, q) ==
    \A k \in 1 .. Len(q) :
        /\ d[q[k]] = t /\ q[k] < p
        /\ \A j \in 0 .. q[k] - 1 : d[j] = t => j \in E \/ \E l \in 1 .. k - 1 : q[l] = j

\* all messages up to number i have been applied by their targets
DeliveredBelow(d, app, i) == \A j \in 0 .. i - 1 : j \in Range(app[d[j]])

Batch(s) == Range(SnsOf(s.batch))

Held(s) == Batch(s) \cup Range(SnsOf(s.queue))

(* What a log, and a replica and the shuffle of a leader may say of the    *)
(* outbox.                                                                 *)
LogIs(l, d, app) ==
    /\ Enqueued(l, Len(l)) <= MaxMessages
    /\ \A p \in 1 .. Len(l) : l[p].kind = "truncate" =>
         /\ l[p].index < Enqueued(l, p - 1)
         /\ DeliveredBelow(d, app, l[p].index + 1)

LogOK == LogIs(log, dest, applied)

OutboxOK(l, d, app, r) ==
    /\ r.lsn <= Len(l)
    /\ r.tail = Enqueued(l, r.lsn)
    /\ r.head <= r.tail
    /\ DeliveredBelow(d, app, r.head)

\* sess are the sessions of the node
ScanOK(d, app, r, sess, s) ==
    /\ s.epoch >= 1
    /\ s.next <= r.tail
    /\ \A k \in 1 .. Len(s.hints) : s.hints[k] < r.tail
    /\ \A k \in 1 .. Len(s.inflight) :
         s.inflight[k] < s.next /\ \A l \in k + 1 .. Len(s.inflight) : s.inflight[k] < s.inflight[l]
    /\ \A j \in 0 .. s.next - 1 :
         \/ j \in Range(app[d[j]])
         \/ j \in Range(s.inflight) /\ j \in Held(sess[d[j]])
    /\ \A i \in s.committed : i \in Range(app[d[i]])
    /\ s.truncation < s.next
    /\ DeliveredBelow(d, app, s.truncation + 1)

LeaderIs(l, d, app, r, sess, s) ==
    /\ s.state = "Stopped" => s = Stopped
    /\ s.state # "Stopped" => OutboxOK(l, d, app, r) /\ ScanOK(d, app, r, sess, s)

LeaderOK(n) == LeaderIs(log, dest, applied, replica[n], session[n], shuffle[n])

(* What travels.                                                           *)
SessionOK(d, p, f, t, E, s) ==
    /\ s.attempt <= f
    /\ Follows(d, p, t, E, SnsOf(s.batch))
    /\ Follows(d, p, t, E \cup Batch(s), SnsOf(s.queue))

RequestOK(d, p, E, s, r) ==
    /\ r.records # <<>>
    /\ Follows(d, p, r.target, E, r.records)
    /\ r.attempt <= s.attempt
    /\ r.attempt = s.attempt => s.state = "Sent" /\ Batch(s) \subseteq E \cup Range(r.records)

OneRequest ==
    \A r, q \in requests :
        r.node = q.node /\ r.target = q.target /\ r.attempt = q.attempt => r = q

\* the messages for target t among the first p, as Destined defines them
Chosen(d, p, t) ==
    LET first[k \in 0 .. p] ==
          IF k = 0 THEN <<>>
          ELSE IF d[k - 1] = t THEN Append(first[k - 1], k - 1) ELSE first[k - 1]
    IN  first[p]

IsPrefixOf(a, q) ==
    /\ Len(a) <= Len(q)
    /\ \A k \in 1 .. Len(a) : a[k] = q[k]

AppliedOK(t) == IsPrefixOf(applied[t], Chosen(dest, Produced, t))

TravelOK ==
    /\ \A n \in Node, t \in Target :
         SessionOK(dest, Produced, faults, t, Range(applied[t]), session[n][t])
    /\ \A r \in requests :
         RequestOK(dest, Produced, Range(applied[r.target]), session[r.node][r.target], r)
    /\ OneRequest

ShuffleInv ==
    /\ TypeOK
    /\ LogOK
    /\ \A n \in Node : LeaderOK(n)
    /\ TravelOK
    /\ \A t \in Target : AppliedOK(t)

-----------------------------------------------------------------------------
(* Sequences *)

LEMMA AppendIs ==
    ASSUME NEW S, NEW q \in Seq(S), NEW x \in S
    PROVE  /\ Append(q, x) \in Seq(S) /\ Len(Append(q, x)) = Len(q) + 1
           /\ \A k \in 1 .. Len(q) : Append(q, x)[k] = q[k]
           /\ Append(q, x)[Len(q) + 1] = x
           /\ Range(Append(q, x)) = Range(q) \cup {x}
  <1>1. /\ Append(q, x) \in Seq(S) /\ Len(Append(q, x)) = Len(q) + 1 /\ Len(q) \in Nat
        /\ \A k \in 1 .. Len(q) : Append(q, x)[k] = q[k]
        /\ Append(q, x)[Len(q) + 1] = x
        /\ DOMAIN q = 1 .. Len(q) /\ DOMAIN Append(q, x) = 1 .. Len(q) + 1
    OBVIOUS
  <1>2. Range(Append(q, x)) \subseteq Range(q) \cup {x}
    <2> SUFFICES ASSUME NEW y \in Range(Append(q, x)) PROVE y \in Range(q) \cup {x}
      OBVIOUS
    <2>1. PICK k \in 1 .. Len(q) + 1 : y = Append(q, x)[k]
      BY <1>1 DEF Range
    <2>2. k \in 1 .. Len(q) \/ k = Len(q) + 1
      BY <1>1
    <2> QED
      BY <1>1, <2>1, <2>2 DEF Range
  <1>3. Range(q) \subseteq Range(Append(q, x))
    <2> SUFFICES ASSUME NEW k \in 1 .. Len(q) PROVE q[k] \in Range(Append(q, x))
      BY <1>1 DEF Range
    <2>1. k \in 1 .. Len(q) + 1
      BY <1>1
    <2> QED
      BY <1>1, <2>1 DEF Range
  <1>4. x \in Range(Append(q, x))
    <2>1. Len(q) + 1 \in 1 .. Len(q) + 1
      BY <1>1
    <2> QED
      BY <1>1, <2>1 DEF Range
  <1> QED
    BY <1>1, <1>2, <1>3, <1>4

LEMMA TailIs ==
    ASSUME NEW S, NEW q \in Seq(S), q # <<>>
    PROVE  /\ Head(q) = q[1] /\ Head(q) \in S /\ 1 \in 1 .. Len(q)
           /\ Tail(q) \in Seq(S) /\ Len(Tail(q)) = Len(q) - 1
           /\ \A k \in 1 .. Len(q) - 1 : Tail(q)[k] = q[k + 1]
           /\ Range(q) = Range(Tail(q)) \cup {Head(q)}
  <1>1. /\ Head(q) = q[1] /\ Head(q) \in S /\ 1 \in 1 .. Len(q) /\ Len(q) \in Nat
        /\ Tail(q) \in Seq(S) /\ Len(Tail(q)) = Len(q) - 1
        /\ \A k \in 1 .. Len(q) - 1 : Tail(q)[k] = q[k + 1]
        /\ DOMAIN q = 1 .. Len(q) /\ DOMAIN Tail(q) = 1 .. Len(q) - 1
    OBVIOUS
  <1>2. Range(q) \subseteq Range(Tail(q)) \cup {Head(q)}
    <2> SUFFICES ASSUME NEW k \in 1 .. Len(q) PROVE q[k] \in Range(Tail(q)) \cup {Head(q)}
      BY <1>1 DEF Range
    <2>1. CASE k = 1
      BY <1>1, <2>1
    <2>2. CASE k # 1
      <3>1. k - 1 \in 1 .. Len(q) - 1 /\ (k - 1) + 1 = k
        BY <1>1, <2>2
      <3> QED
        BY <1>1, <3>1 DEF Range
    <2> QED
      BY <2>1, <2>2
  <1>3. Range(Tail(q)) \subseteq Range(q)
    <2> SUFFICES ASSUME NEW k \in 1 .. Len(q) - 1 PROVE Tail(q)[k] \in Range(q)
      BY <1>1 DEF Range
    <2>1. k + 1 \in 1 .. Len(q)
      BY <1>1
    <2> QED
      BY <1>1, <2>1 DEF Range
  <1>4. Head(q) \in Range(q)
    BY <1>1 DEF Range
  <1> QED
    BY <1>1, <1>2, <1>3, <1>4

LEMMA SplitIs ==
    ASSUME NEW S, NEW q \in Seq(S), NEW k \in 1 .. Len(q)
    PROVE  /\ SubSeq(q, 1, k) \in Seq(S) /\ Len(SubSeq(q, 1, k)) = k
           /\ \A i \in 1 .. k : SubSeq(q, 1, k)[i] = q[i]
           /\ SubSeq(q, k + 1, Len(q)) \in Seq(S)
           /\ Len(SubSeq(q, k + 1, Len(q))) = Len(q) - k
           /\ \A i \in 1 .. Len(q) - k : SubSeq(q, k + 1, Len(q))[i] = q[i + k]
           /\ Range(q) = Range(SubSeq(q, 1, k)) \cup Range(SubSeq(q, k + 1, Len(q)))
  <1> DEFINE a == SubSeq(q, 1, k)
             b == SubSeq(q, k + 1, Len(q))
  <1>1. /\ a \in Seq(S) /\ Len(a) = k /\ \A i \in 1 .. k : a[i] = q[i]
        /\ b \in Seq(S) /\ Len(b) = Len(q) - k /\ \A i \in 1 .. Len(q) - k : b[i] = q[i + k]
        /\ Len(q) \in Nat
    OBVIOUS
  <1>2. DOMAIN a = 1 .. k /\ DOMAIN b = 1 .. Len(q) - k /\ DOMAIN q = 1 .. Len(q)
    BY <1>1
  <1> HIDE DEF a, b
  <1>3. \A i \in 1 .. Len(q) : q[i] \in Range(a) \cup Range(b)
    <2> SUFFICES ASSUME NEW i \in 1 .. Len(q) PROVE q[i] \in Range(a) \cup Range(b)
      OBVIOUS
    <2>1. CASE i <= k
      <3>1. i \in 1 .. k
        BY <2>1
      <3> QED
        BY <1>1, <1>2, <3>1 DEF Range
    <2>2. CASE i > k
      <3>1. i - k \in 1 .. Len(q) - k /\ (i - k) + k = i
        BY <1>1, <2>2
      <3> QED
        BY <1>1, <1>2, <3>1 DEF Range
    <2> QED
      BY <2>1, <2>2
  <1>4. \A i \in 1 .. k : a[i] \in Range(q)
    <2>1. \A i \in 1 .. k : i \in 1 .. Len(q)
      BY <1>1
    <2> QED
      BY <1>1, <1>2, <2>1 DEF Range
  <1>5. \A i \in 1 .. Len(q) - k : b[i] \in Range(q)
    <2>1. \A i \in 1 .. Len(q) - k : i + k \in 1 .. Len(q)
      BY <1>1
    <2> QED
      BY <1>1, <1>2, <2>1 DEF Range
  <1>6. Range(q) = Range(a) \cup Range(b)
    BY <1>2, <1>3, <1>4, <1>5 DEF Range
  <1> QED
    BY <1>1, <1>6 DEF a, b

SplitAs(S, q, k, a, b) ==
    /\ a \in Seq(S) /\ Len(a) = k /\ \A i \in 1 .. k : a[i] = q[i]
    /\ b \in Seq(S) /\ Len(b) = Len(q) - k /\ \A i \in 1 .. Len(q) - k : b[i] = q[i + k]

LEMMA SplitParts ==
    ASSUME NEW S, NEW q \in Seq(S), NEW k \in 1 .. Len(q)
    PROVE  SplitAs(S, q, k, SubSeq(q, 1, k), SubSeq(q, k + 1, Len(q)))
  BY SplitIs DEF SplitAs

LEMMA RangeIn ==
    ASSUME NEW S, NEW q \in Seq(S)
    PROVE  /\ Range(q) \subseteq S
           /\ \A k \in 1 .. Len(q) : q[k] \in Range(q) /\ q[k] \in S
           /\ \A x \in Range(q) : \E k \in 1 .. Len(q) : q[k] = x
           /\ Len(q) \in Nat
  BY DEF Range

LEMMA EmptyIs ==
    /\ Len(<<>>) = 0 /\ Range(<<>>) = {} /\ \A S : <<>> \in Seq(S)
    /\ \A S : \A q \in Seq(S) : Len(q) = 0 <=> q = <<>>
  BY DEF Range

-----------------------------------------------------------------------------
(* The numbers of a batch *)

LEMMA SnsIs ==
    ASSUME NEW q \in Seq(Token)
    PROVE  /\ SnsOf(q) \in Seq(Index) /\ Len(SnsOf(q)) = Len(q)
           /\ \A k \in 1 .. Len(q) : SnsOf(q)[k] = q[k].sn
           /\ \A i, e : [sn |-> i, epoch |-> e] \in Range(q) => i \in Range(SnsOf(q))
  <1>1. \A k \in 1 .. Len(q) : q[k].sn \in Index
    <2>1. \A k \in 1 .. Len(q) : q[k] \in Token
      BY RangeIn
    <2>2. \A x \in Token : x.sn \in Index
      BY DEF Token
    <2> QED
      BY <2>1, <2>2
  <1>2. /\ SnsOf(q) \in Seq(Index) /\ Len(SnsOf(q)) = Len(q) /\ DOMAIN SnsOf(q) = 1 .. Len(q)
        /\ \A k \in 1 .. Len(q) : SnsOf(q)[k] = q[k].sn
    BY <1>1 DEF SnsOf
  <1>3. ASSUME NEW i, NEW e, [sn |-> i, epoch |-> e] \in Range(q) PROVE i \in Range(SnsOf(q))
    <2>1. PICK k \in 1 .. Len(q) : q[k] = [sn |-> i, epoch |-> e]
      BY <1>3, RangeIn
    <2>2. q[k].sn = i
      BY <2>1
    <2> QED
      BY <1>2, <2>2 DEF Range
  <1> QED
    BY <1>2, <1>3

LEMMA SnsOfEmpty == SnsOf(<<>>) = <<>>
  BY DEF SnsOf

\* sequences with the same elements are the same
LEMMA SameSeq ==
    ASSUME NEW S, NEW a \in Seq(S), NEW b \in Seq(S), Len(a) = Len(b),
           \A k \in 1 .. Len(a) : a[k] = b[k]
    PROVE  a = b
  OBVIOUS

LEMMA SnsOfAppend ==
    ASSUME NEW q \in Seq(Token), NEW x \in Token
    PROVE  SnsOf(Append(q, x)) = Append(SnsOf(q), x.sn)
  <1>1. x.sn \in Index
    BY DEF Token
  <1>2. /\ Append(q, x) \in Seq(Token) /\ Len(Append(q, x)) = Len(q) + 1 /\ Len(q) \in Nat
        /\ \A k \in 1 .. Len(q) : Append(q, x)[k] = q[k]
        /\ Append(q, x)[Len(q) + 1] = x
    BY AppendIs
  <1> DEFINE a == SnsOf(Append(q, x))
             b == Append(SnsOf(q), x.sn)
  <1>3. /\ a \in Seq(Index) /\ Len(a) = Len(q) + 1
        /\ \A k \in 1 .. Len(q) + 1 : a[k] = Append(q, x)[k].sn
    BY <1>2, SnsIs
  <1>4. /\ SnsOf(q) \in Seq(Index) /\ Len(SnsOf(q)) = Len(q)
        /\ \A k \in 1 .. Len(q) : SnsOf(q)[k] = q[k].sn
    BY SnsIs
  <1>5. /\ b \in Seq(Index) /\ Len(b) = Len(q) + 1
        /\ \A k \in 1 .. Len(q) : b[k] = SnsOf(q)[k]
        /\ b[Len(q) + 1] = x.sn
    BY <1>1, <1>4, AppendIs
  <1> HIDE DEF a, b
  <1>6. ASSUME NEW k \in 1 .. Len(q) + 1 PROVE a[k] = b[k]
    <2>1. k \in 1 .. Len(q) \/ k = Len(q) + 1
      BY <1>2
    <2> QED
      BY <1>2, <1>3, <1>4, <1>5, <2>1
  <1>7. a = b
    BY <1>3, <1>5, <1>6, SameSeq
  <1> QED
    BY <1>7 DEF a, b

LEMMA SnsOfSplit ==
    ASSUME NEW q \in Seq(Token), NEW k \in 1 .. Len(q)
    PROVE  /\ SnsOf(SubSeq(q, 1, k)) = SubSeq(SnsOf(q), 1, k)
           /\ SnsOf(SubSeq(q, k + 1, Len(q))) = SubSeq(SnsOf(q), k + 1, Len(SnsOf(q)))
  <1>1. /\ SnsOf(q) \in Seq(Index) /\ Len(SnsOf(q)) = Len(q) /\ Len(q) \in Nat
        /\ \A i \in 1 .. Len(q) : SnsOf(q)[i] = q[i].sn
    BY SnsIs
  <1>2. /\ SubSeq(q, 1, k) \in Seq(Token) /\ Len(SubSeq(q, 1, k)) = k
        /\ \A i \in 1 .. k : SubSeq(q, 1, k)[i] = q[i]
        /\ SubSeq(q, k + 1, Len(q)) \in Seq(Token)
        /\ Len(SubSeq(q, k + 1, Len(q))) = Len(q) - k
        /\ \A i \in 1 .. Len(q) - k : SubSeq(q, k + 1, Len(q))[i] = q[i + k]
    BY SplitIs
  <1>3. k \in 1 .. Len(SnsOf(q))
    BY <1>1
  <1>4. /\ SubSeq(SnsOf(q), 1, k) \in Seq(Index) /\ Len(SubSeq(SnsOf(q), 1, k)) = k
        /\ \A i \in 1 .. k : SubSeq(SnsOf(q), 1, k)[i] = SnsOf(q)[i]
        /\ SubSeq(SnsOf(q), k + 1, Len(SnsOf(q))) \in Seq(Index)
        /\ Len(SubSeq(SnsOf(q), k + 1, Len(SnsOf(q)))) = Len(SnsOf(q)) - k
        /\ \A i \in 1 .. Len(SnsOf(q)) - k :
             SubSeq(SnsOf(q), k + 1, Len(SnsOf(q)))[i] = SnsOf(q)[i + k]
    BY <1>1, <1>3, SplitIs
  <1>5. SnsOf(SubSeq(q, 1, k)) = SubSeq(SnsOf(q), 1, k)
    <2> DEFINE a == SnsOf(SubSeq(q, 1, k))
               b == SubSeq(SnsOf(q), 1, k)
    <2>1. a \in Seq(Index) /\ Len(a) = k /\ \A i \in 1 .. k : a[i] = SubSeq(q, 1, k)[i].sn
      BY <1>2, SnsIs
    <2>2. b \in Seq(Index) /\ Len(b) = k
      BY <1>4
    <2>3. ASSUME NEW i \in 1 .. k PROVE a[i] = b[i]
      <3>1. i \in 1 .. Len(q)
        BY <1>1
      <3> QED
        BY <1>1, <1>2, <1>4, <2>1, <3>1
    <2> HIDE DEF a, b
    <2>4. a = b
      BY <2>1, <2>2, <2>3, SameSeq
    <2> QED
      BY <2>4 DEF a, b
  <1>6. SnsOf(SubSeq(q, k + 1, Len(q))) = SubSeq(SnsOf(q), k + 1, Len(SnsOf(q)))
    <2> DEFINE m == Len(q) - k
               a == SnsOf(SubSeq(q, k + 1, Len(q)))
               b == SubSeq(SnsOf(q), k + 1, Len(SnsOf(q)))
    <2>1. a \in Seq(Index) /\ Len(a) = m /\ \A i \in 1 .. m : a[i] = SubSeq(q, k + 1, Len(q))[i].sn
      BY <1>2, SnsIs
    <2>2. b \in Seq(Index) /\ Len(b) = m /\ \A i \in 1 .. m : b[i] = SnsOf(q)[i + k]
      BY <1>1, <1>4
    <2>3. ASSUME NEW i \in 1 .. m PROVE a[i] = b[i]
      <3>1. i + k \in 1 .. Len(q)
        BY <1>1
      <3> QED
        BY <1>1, <1>2, <2>1, <2>2, <3>1
    <2> HIDE DEF a, b, m
    <2>4. a = b
      BY <2>1, <2>2, <2>3, SameSeq
    <2> QED
      BY <2>4 DEF a, b
  <1> QED
    BY <1>5, <1>6

-----------------------------------------------------------------------------
(* The messages of a part of the log *)

LEMMA EnqueuedIs ==
    ASSUME NEW l, NEW k \in Nat
    PROVE  /\ Enqueued(l, k) \in Nat /\ Enqueued(l, 0) = 0
           /\ Enqueued(l, k + 1) =
                IF l[k + 1].kind = "enqueue" THEN Enqueued(l, k) + 1 ELSE Enqueued(l, k)
  <1> DEFINE S(m) == {i \in 1 .. m : l[i].kind = "enqueue"}
  <1>1. \A m \in Nat : IsFiniteSet(S(m)) /\ Cardinality(S(m)) \in Nat
    <2> SUFFICES ASSUME NEW m \in Nat PROVE IsFiniteSet(S(m)) /\ Cardinality(S(m)) \in Nat
      OBVIOUS
    <2>1. IsFiniteSet(1 .. m)
      BY FS_Interval
    <2>2. S(m) \in SUBSET (1 .. m)
      OBVIOUS
    <2> HIDE DEF S
    <2>3. IsFiniteSet(S(m))
      BY <2>1, <2>2, FS_Subset
    <2> QED
      BY <2>3, FS_CardinalityType
  <1>2. S(0) = {}
    OBVIOUS
  <1>3. S(k + 1) = IF l[k + 1].kind = "enqueue" THEN S(k) \cup {k + 1} ELSE S(k)
    <2>1. \A i : i \in 1 .. k + 1 <=> i \in 1 .. k \/ i = k + 1
      OBVIOUS
    <2> QED
      BY <2>1
  <1>4. k + 1 \notin S(k)
    OBVIOUS
  <1>5. Enqueued(l, k) = Cardinality(S(k)) /\ Enqueued(l, k + 1) = Cardinality(S(k + 1))
        /\ Enqueued(l, 0) = Cardinality(S(0))
    BY DEF Enqueued
  <1> HIDE DEF S
  <1>6. Cardinality(S(k) \cup {k + 1}) = Cardinality(S(k)) + 1
    BY <1>1, <1>4, FS_AddElement
  <1>7. Enqueued(l, k) \in Nat /\ Enqueued(l, 0) = 0
    BY <1>1, <1>2, <1>5, FS_EmptySet
  <1>8. Enqueued(l, k + 1) =
          IF l[k + 1].kind = "enqueue" THEN Enqueued(l, k) + 1 ELSE Enqueued(l, k)
    BY <1>3, <1>5, <1>6
  <1> QED
    BY <1>7, <1>8

LEMMA EnqueuedGrows ==
    ASSUME NEW l, NEW m \in Nat, NEW k \in 0 .. m
    PROVE  Enqueued(l, k) <= Enqueued(l, m)
  <1> DEFINE S(j) == {i \in 1 .. j : l[i].kind = "enqueue"}
  <1>1. IsFiniteSet(S(m))
    <2>1. IsFiniteSet(1 .. m)
      BY FS_Interval
    <2>2. S(m) \in SUBSET (1 .. m)
      OBVIOUS
    <2> HIDE DEF S
    <2> QED
      BY <2>1, <2>2, FS_Subset
  <1>2. S(k) \in SUBSET S(m)
    <2>1. \A i \in 1 .. k : i \in 1 .. m
      OBVIOUS
    <2> QED
      BY <2>1
  <1>3. Enqueued(l, k) = Cardinality(S(k)) /\ Enqueued(l, m) = Cardinality(S(m))
    BY DEF Enqueued
  <1> HIDE DEF S
  <1> QED
    BY <1>1, <1>2, <1>3, FS_Subset

LEMMA EnqueuedKept ==
    ASSUME NEW S, NEW l \in Seq(S), NEW x \in S, NEW k \in 0 .. Len(l)
    PROVE  Enqueued(Append(l, x), k) = Enqueued(l, k)
  <1>1. \A i \in 1 .. k : Append(l, x)[i] = l[i]
    <2>1. \A i \in 1 .. k : i \in 1 .. Len(l)
      OBVIOUS
    <2> QED
      BY <2>1, AppendIs
  <1>2. {i \in 1 .. k : Append(l, x)[i].kind = "enqueue"} = {i \in 1 .. k : l[i].kind = "enqueue"}
    BY <1>1
  <1> QED
    BY <1>2 DEF Enqueued

-----------------------------------------------------------------------------
(* Messages in order *)

LEMMA FollowsMore ==
    ASSUME NEW d, NEW p \in Nat, NEW pp \in Nat, p <= pp, NEW t, NEW E, NEW EE, E \subseteq EE,
           NEW q \in Seq(Nat), Follows(d, p, t, E, q)
    PROVE  Follows(d, pp, t, EE, q)
  <1> SUFFICES ASSUME NEW k \in 1 .. Len(q)
               PROVE  /\ d[q[k]] = t /\ q[k] < pp
                      /\ \A j \in 0 .. q[k] - 1 :
                           d[j] = t => j \in EE \/ \E l \in 1 .. k - 1 : q[l] = j
    BY DEF Follows
  <1>1. /\ d[q[k]] = t /\ q[k] < p
        /\ \A j \in 0 .. q[k] - 1 : d[j] = t => j \in E \/ \E l \in 1 .. k - 1 : q[l] = j
    BY DEF Follows
  <1>2. q[k] \in Nat
    BY RangeIn
  <1>3. q[k] < pp
    BY <1>1, <1>2
  <1> QED
    BY <1>1, <1>3

LEMMA FollowsAppend ==
    ASSUME NEW d, NEW p \in Nat, NEW t, NEW E, NEW q \in Seq(Nat), Follows(d, p, t, E, q),
           NEW i \in Nat, d[i] = t, i < p,
           \A j \in 0 .. i - 1 : d[j] = t => j \in E \/ j \in Range(q)
    PROVE  Follows(d, p, t, E, Append(q, i))
  <1> DEFINE a == Append(q, i)
  <1>1. /\ a \in Seq(Nat) /\ Len(a) = Len(q) + 1 /\ Len(q) \in Nat
        /\ \A k \in 1 .. Len(q) : a[k] = q[k]
        /\ a[Len(q) + 1] = i
    BY AppendIs
  <1> HIDE DEF a
  <1>2. ASSUME NEW k \in 1 .. Len(a)
        PROVE  /\ d[a[k]] = t /\ a[k] < p
               /\ \A j \in 0 .. a[k] - 1 :
                    d[j] = t => j \in E \/ \E l \in 1 .. k - 1 : a[l] = j
    <2>1. CASE k \in 1 .. Len(q)
      <3>1. a[k] = q[k]
        BY <1>1, <2>1
      <3>2. /\ d[q[k]] = t /\ q[k] < p
            /\ \A j \in 0 .. q[k] - 1 : d[j] = t => j \in E \/ \E l \in 1 .. k - 1 : q[l] = j
        BY <2>1 DEF Follows
      <3>3. \A l \in 1 .. k - 1 : a[l] = q[l]
        <4>1. \A l \in 1 .. k - 1 : l \in 1 .. Len(q)
          BY <1>1, <2>1
        <4> QED
          BY <1>1, <4>1
      <3> QED
        BY <3>1, <3>2, <3>3
    <2>2. CASE k = Len(q) + 1
      <3>1. a[k] = i /\ k - 1 = Len(q)
        BY <1>1, <2>2
      <3>2. \A j \in Range(q) : \E l \in 1 .. Len(q) : a[l] = j
        BY <1>1, RangeIn
      <3> QED
        BY <3>1, <3>2
    <2>3. k \in 1 .. Len(q) \/ k = Len(q) + 1
      BY <1>1
    <2> QED
      BY <2>1, <2>2, <2>3
  <1>3. Follows(d, p, t, E, a)
    BY <1>2 DEF Follows
  <1> QED
    BY <1>3 DEF a

LEMMA FollowsTail ==
    ASSUME NEW d, NEW p \in Nat, NEW t, NEW E, NEW EE, E \subseteq EE,
           NEW q \in Seq(Nat), q # <<>>, Follows(d, p, t, E, q), Head(q) \in EE
    PROVE  Follows(d, p, t, EE, Tail(q))
  <1> DEFINE a == Tail(q)
  <1>1. /\ a \in Seq(Nat) /\ Len(a) = Len(q) - 1 /\ Len(q) \in Nat /\ Head(q) = q[1]
        /\ \A k \in 1 .. Len(q) - 1 : a[k] = q[k + 1]
    BY TailIs
  <1> HIDE DEF a
  <1>2. ASSUME NEW k \in 1 .. Len(a)
        PROVE  /\ d[a[k]] = t /\ a[k] < p
               /\ \A j \in 0 .. a[k] - 1 :
                    d[j] = t => j \in EE \/ \E l \in 1 .. k - 1 : a[l] = j
    <2>1. a[k] = q[k + 1] /\ k + 1 \in 1 .. Len(q) /\ (k + 1) - 1 = k
      BY <1>1
    <2>2. /\ d[q[k + 1]] = t /\ q[k + 1] < p
          /\ \A j \in 0 .. q[k + 1] - 1 : d[j] = t => j \in E \/ \E l \in 1 .. k : q[l] = j
      BY <2>1 DEF Follows
    <2>3. ASSUME NEW l \in 1 .. k PROVE q[l] \in EE \/ \E m \in 1 .. k - 1 : a[m] = q[l]
      <3>1. CASE l = 1
        BY <1>1, <3>1
      <3>2. CASE l # 1
        <4>1. l - 1 \in 1 .. k - 1 /\ l - 1 \in 1 .. Len(q) - 1 /\ (l - 1) + 1 = l
          BY <1>1, <3>2
        <4> QED
          BY <1>1, <4>1
      <3> QED
        BY <3>1, <3>2
    <2>4. ASSUME NEW j \in 0 .. q[k + 1] - 1, d[j] = t
          PROVE  j \in EE \/ \E m \in 1 .. k - 1 : a[m] = j
      <3>1. j \in E \/ \E l \in 1 .. k : q[l] = j
        BY <2>2, <2>4
      <3> QED
        BY <2>3, <3>1
    <2> QED
      BY <2>1, <2>2, <2>4
  <1>3. Follows(d, p, t, EE, a)
    BY <1>2 DEF Follows
  <1> QED
    BY <1>3 DEF a

LEMMA FollowsSplit ==
    ASSUME NEW d, NEW p \in Nat, NEW t, NEW E, NEW q \in Seq(Nat), NEW k \in 1 .. Len(q),
           Follows(d, p, t, E, q)
    PROVE  /\ Follows(d, p, t, E, SubSeq(q, 1, k))
           /\ Follows(d, p, t, E \cup Range(SubSeq(q, 1, k)), SubSeq(q, k + 1, Len(q)))
  <1> DEFINE a == SubSeq(q, 1, k)
             b == SubSeq(q, k + 1, Len(q))
  <1>1. /\ a \in Seq(Nat) /\ Len(a) = k /\ \A i \in 1 .. k : a[i] = q[i]
        /\ b \in Seq(Nat) /\ Len(b) = Len(q) - k /\ \A i \in 1 .. Len(q) - k : b[i] = q[i + k]
        /\ Len(q) \in Nat
    <2>1. SplitAs(Nat, q, k, a, b)
      BY SplitParts
    <2>2. Len(q) \in Nat
      OBVIOUS
    <2> HIDE DEF a, b
    <2> QED
      BY <2>1, <2>2 DEF SplitAs
  <1> HIDE DEF a, b
  <1>2. \A i \in 1 .. k : a[i] \in Range(a)
    BY <1>1, RangeIn
  <1>3. ASSUME NEW i \in 1 .. Len(q)
        PROVE  /\ d[q[i]] = t /\ q[i] < p
               /\ \A j \in 0 .. q[i] - 1 : d[j] = t => j \in E \/ \E l \in 1 .. i - 1 : q[l] = j
    BY DEF Follows
  <1>4. ASSUME NEW i \in 1 .. Len(a)
        PROVE  /\ d[a[i]] = t /\ a[i] < p
               /\ \A j \in 0 .. a[i] - 1 : d[j] = t => j \in E \/ \E l \in 1 .. i - 1 : a[l] = j
    <2>1. i \in 1 .. Len(q) /\ a[i] = q[i]
      BY <1>1
    <2>2. \A l \in 1 .. i - 1 : a[l] = q[l]
      <3>1. \A l \in 1 .. i - 1 : l \in 1 .. k
        BY <1>1
      <3> QED
        BY <1>1, <3>1
    <2>3. /\ d[q[i]] = t /\ q[i] < p
          /\ \A j \in 0 .. q[i] - 1 : d[j] = t => j \in E \/ \E l \in 1 .. i - 1 : q[l] = j
      BY <1>3, <2>1
    <2>4. ASSUME NEW j \in 0 .. q[i] - 1, d[j] = t
          PROVE  j \in E \/ \E l \in 1 .. i - 1 : a[l] = j
      <3>1. j \in E \/ \E l \in 1 .. i - 1 : q[l] = j
        BY <2>3, <2>4
      <3> QED
        BY <2>2, <3>1
    <2> QED
      BY <2>1, <2>3, <2>4
  <1>5. ASSUME NEW i \in 1 .. Len(b)
        PROVE  /\ d[b[i]] = t /\ b[i] < p
               /\ \A j \in 0 .. b[i] - 1 :
                    d[j] = t => j \in E \cup Range(a) \/ \E l \in 1 .. i - 1 : b[l] = j
    <2>1. i + k \in 1 .. Len(q) /\ b[i] = q[i + k]
      BY <1>1
    <2>2. ASSUME NEW l \in 1 .. (i + k) - 1
          PROVE  q[l] \in Range(a) \/ \E m \in 1 .. i - 1 : b[m] = q[l]
      <3>1. CASE l <= k
        <4>1. l \in 1 .. k
          BY <3>1
        <4> QED
          BY <1>1, <1>2, <4>1
      <3>2. CASE l > k
        <4>1. l - k \in 1 .. i - 1 /\ l - k \in 1 .. Len(q) - k /\ (l - k) + k = l
          BY <1>1, <3>2
        <4> QED
          BY <1>1, <4>1
      <3> QED
        BY <3>1, <3>2
    <2>3. /\ d[q[i + k]] = t /\ q[i + k] < p
          /\ \A j \in 0 .. q[i + k] - 1 :
               d[j] = t => j \in E \/ \E l \in 1 .. (i + k) - 1 : q[l] = j
      BY <1>3, <2>1
    <2> QED
      BY <2>1, <2>2, <2>3
  <1>6. Follows(d, p, t, E, a) /\ Follows(d, p, t, E \cup Range(a), b)
    BY <1>4, <1>5 DEF Follows
  <1> QED
    BY <1>6 DEF a, b

-----------------------------------------------------------------------------
(* Recursion over the natural numbers *)

LEMMA LeastNat ==
    ASSUME NEW S, S \subseteq Nat, S # {}
    PROVE  \E x \in S : \A y \in S : x <= y
  <1> DEFINE R == OpToRel(<, Nat)
  <1>1. IsWellFoundedOn(R, Nat)
    BY NatLessThanWellFounded
  <1>2. \A a, b \in Nat : a < b => <<a, b>> \in R
    BY DEF OpToRel
  <1> HIDE DEF R
  <1>3. PICK x \in S : \A y \in S : <<y, x>> \notin R
    BY <1>1, WFMin
  <1>4. \A y \in S : ~(y < x)
    BY <1>2, <1>3
  <1> QED
    BY <1>4

LEMMA CountUp ==
    ASSUME NEW N \in Nat, NEW B, 0 \in B, \A n \in 1 .. N : n - 1 \in B => n \in B
    PROVE  \A n \in 0 .. N : n \in B
  <1> DEFINE Bad == {n \in 0 .. N : n \notin B}
  <1> SUFFICES ASSUME Bad # {} PROVE FALSE
    OBVIOUS
  <1>1. Bad \subseteq Nat
    OBVIOUS
  <1>2. PICK n \in Bad : \A m \in Bad : n <= m
    <2> HIDE DEF Bad
    <2> QED
      BY <1>1, LeastNat
  <1>3. n # 0 /\ n \in 0 .. N /\ n \notin B
    OBVIOUS
  <1>4. n \in 1 .. N /\ n - 1 \in 0 .. N /\ ~(n <= n - 1)
    BY <1>3
  <1>5. n - 1 \notin Bad
    <2> HIDE DEF Bad
    <2> QED
      BY <1>2, <1>4
  <1> QED
    BY <1>3, <1>4, <1>5

\* g has the results of the first N steps G from a base in W
Computes(g, N, W, base, G) ==
    g \in [0 .. N -> W] /\ g[0] = base /\ \A n \in 1 .. N : g[n] = G[n][g[n - 1]]

LEMMA RecursionExists ==
    ASSUME NEW N \in Nat, NEW W, NEW base \in W, NEW G \in [1 .. N -> [W -> W]]
    PROVE  \E g : Computes(g, N, W, base, G)
  <1> DEFINE Run(g, m) == /\ g \in [0 .. m -> W] /\ g[0] = base
                          /\ \A n \in 1 .. m : g[n] = G[n][g[n - 1]]
             B == {m \in 0 .. N : \E g : Run(g, m)}
  <1>1. 0 \in B
    <2> DEFINE g == [n \in 0 .. 0 |-> base]
    <2>1. Run(g, 0)
      OBVIOUS
    <2> HIDE DEF Run
    <2> QED
      BY <2>1
  <1>2. ASSUME NEW m \in 1 .. N, m - 1 \in B PROVE m \in B
    <2>1. PICK h : Run(h, m - 1)
      BY <1>2
    <2> DEFINE g == [n \in 0 .. m |-> IF n = m THEN G[m][h[m - 1]] ELSE h[n]]
    <2>2. m \in Nat /\ m # 0 /\ m - 1 \in 0 .. m - 1 /\ m - 1 \in Nat
      OBVIOUS
    <2>3. h[m - 1] \in W /\ G[m][h[m - 1]] \in W
      <3>1. h[m - 1] \in W
        BY <2>1, <2>2
      <3>2. G[m] \in [W -> W]
        OBVIOUS
      <3> QED
        BY <3>1, <3>2
    <2>4. \A n \in 0 .. m : n # m => n \in 0 .. m - 1
      BY <2>2
    <2>5. g \in [0 .. m -> W]
      BY <2>1, <2>3, <2>4
    <2>6. g[0] = base
      BY <2>1, <2>2
    <2>7. ASSUME NEW n \in 1 .. m PROVE g[n] = G[n][g[n - 1]]
      <3>1. n - 1 \in 0 .. m /\ n - 1 # m /\ n \in 0 .. m
        BY <2>2
      <3>2. g[n - 1] = h[n - 1]
        BY <3>1
      <3>3. CASE n = m
        BY <3>1, <3>2, <3>3
      <3>4. CASE n # m
        <4>1. n \in 1 .. m - 1
          BY <2>2, <3>4
        <4> QED
          BY <2>1, <3>1, <3>2, <3>4, <4>1
      <3> QED
        BY <3>3, <3>4
    <2>8. Run(g, m)
      BY <2>5, <2>6, <2>7
    <2>9. m \in 0 .. N
      OBVIOUS
    <2> HIDE DEF Run, g
    <2> QED
      BY <2>8, <2>9
  <1>3. N \in B
    <2> HIDE DEF B
    <2>1. N \in 0 .. N
      OBVIOUS
    <2> QED
      BY <1>1, <1>2, <2>1, CountUp
  <1> QED
    BY <1>3 DEF Computes

-----------------------------------------------------------------------------
(* A replica applies the log *)

Replicas == [lsn : Nat, epoch : 0 .. MaxEpoch, head : Nat, tail : Nat]

LEMMA ApplyIs ==
    ASSUME NEW r \in Replicas, NEW x \in Record
    PROVE  /\ ApplyRecord(r, x) \in Replicas
           /\ ApplyRecord(r, x).lsn = r.lsn + 1
           /\ ApplyRecord(r, x).tail = IF x.kind = "enqueue" THEN r.tail + 1 ELSE r.tail
           /\ ApplyRecord(r, x).head = r.head
              \/ (x.kind = "truncate" /\ ApplyRecord(r, x).head = x.index + 1)
  <1>1. PICK a \in Nat, e \in 0 .. MaxEpoch, h \in Nat, u \in Nat :
            r = [lsn |-> a, epoch |-> e, head |-> h, tail |-> u]
    BY DEF Replicas
  <1>2. /\ x.kind \in {"enqueue", "announce", "truncate"} /\ x.epoch \in 0 .. MaxEpoch
        /\ x.index \in NONE .. MaxMessages - 1
    BY DEF Record
  <1>3. x.index + 1 \in Nat /\ a + 1 \in Nat /\ u + 1 \in Nat
    BY <1>2, ShuffleAssumption DEF NONE
  <1>4. CASE x.kind = "enqueue"
    <2>1. ApplyRecord(r, x) = [[r EXCEPT !.tail = @ + 1] EXCEPT !.lsn = @ + 1]
      BY <1>4 DEF ApplyRecord
    <2>2. ApplyRecord(r, x) = [lsn |-> a + 1, epoch |-> e, head |-> h, tail |-> u + 1]
      BY <1>1, <2>1
    <2> QED
      BY <1>1, <1>3, <1>4, <2>2 DEF Replicas
  <1>5. CASE x.kind = "announce"
    <2>1. ApplyRecord(r, x) = [[r EXCEPT !.epoch = x.epoch] EXCEPT !.lsn = @ + 1]
      BY <1>5 DEF ApplyRecord
    <2>2. ApplyRecord(r, x) = [lsn |-> a + 1, epoch |-> x.epoch, head |-> h, tail |-> u]
      BY <1>1, <2>1
    <2> QED
      BY <1>1, <1>2, <1>3, <1>5, <2>2 DEF Replicas
  <1>6. CASE x.kind = "truncate"
    <2>1. \/ ApplyRecord(r, x) = [r EXCEPT !.lsn = @ + 1]
          \/ ApplyRecord(r, x) = [[r EXCEPT !.head = x.index + 1] EXCEPT !.lsn = @ + 1]
      BY <1>6 DEF ApplyRecord, TruncateOutboxTo
    <2>2. \/ ApplyRecord(r, x) = [lsn |-> a + 1, epoch |-> e, head |-> h, tail |-> u]
          \/ ApplyRecord(r, x) = [lsn |-> a + 1, epoch |-> e, head |-> x.index + 1, tail |-> u]
      BY <1>1, <2>1
    <2> QED
      BY <1>1, <1>3, <1>6, <2>2 DEF Replicas
  <1> QED
    BY <1>2, <1>4, <1>5, <1>6

LEMMA RecordsTyped ==
    ASSUME log \in Seq(Record), NEW p \in 1 .. Len(log)
    PROVE  log[p] \in Record /\ log[p].index \in Int /\ log[p].index + 1 \in Nat
  <1>1. log[p] \in Record
    BY RangeIn
  <1>2. log[p].index \in NONE .. MaxMessages - 1
    BY <1>1 DEF Record
  <1> QED
    BY <1>1, <1>2, ShuffleAssumption DEF NONE

LEMMA ApplyKeepsOutbox ==
    ASSUME log \in Seq(Record), LogOK, NEW r \in Replicas, OutboxOK(log, dest, applied, r),
           r.lsn < Len(log), NEW x, x = log[r.lsn + 1]
    PROVE  OutboxOK(log, dest, applied, ApplyRecord(r, x))
  <1> DEFINE p == r.lsn + 1
             s == ApplyRecord(r, x)
  <1>1. Len(log) \in Nat /\ r.lsn \in Nat /\ r.tail \in Nat /\ r.head \in Nat
    BY DEF Replicas
  <1>2. p \in 1 .. Len(log) /\ p - 1 = r.lsn /\ p \in Nat
    BY <1>1
  <1>3. x \in Record
    BY <1>2, RecordsTyped
  <1>4. /\ s \in Replicas /\ s.lsn = r.lsn + 1
        /\ s.tail = IF x.kind = "enqueue" THEN r.tail + 1 ELSE r.tail
        /\ s.head = r.head \/ (x.kind = "truncate" /\ s.head = x.index + 1)
    BY <1>3, ApplyIs
  <1>5. r.tail = Enqueued(log, r.lsn) /\ r.head <= r.tail /\ DeliveredBelow(dest, applied, r.head)
    BY DEF OutboxOK
  <1>6. Enqueued(log, p) = IF x.kind = "enqueue" THEN r.tail + 1 ELSE r.tail
    BY <1>1, <1>5, EnqueuedIs
  <1>7. x.kind = "truncate" =>
          /\ x.index < r.tail /\ x.index \in Int
          /\ DeliveredBelow(dest, applied, x.index + 1)
    BY <1>2, <1>5, RecordsTyped DEF LogOK, LogIs
  <1> HIDE DEF s
  <1>8. s.lsn <= Len(log) /\ s.tail = Enqueued(log, s.lsn)
    BY <1>1, <1>2, <1>4, <1>6
  <1>9. s.head <= s.tail
    BY <1>1, <1>4, <1>5, <1>7
  <1>10. DeliveredBelow(dest, applied, s.head)
    BY <1>4, <1>5, <1>7
  <1> QED
    BY <1>8, <1>9, <1>10 DEF OutboxOK, s

LEMMA EmptyOutbox ==
    ASSUME log \in Seq(Record)
    PROVE  /\ EmptyReplica \in Replicas /\ EmptyReplica.lsn = 0
           /\ OutboxOK(log, dest, applied, EmptyReplica)
  <1>1. EmptyReplica \in Replicas
    BY ShuffleAssumption DEF EmptyReplica, Replicas
  <1>2. Enqueued(log, 0) = 0
    BY EnqueuedIs
  <1> QED
    BY <1>1, <1>2 DEF EmptyReplica, OutboxOK, DeliveredBelow

LEMMA ReplayKeepsOutbox ==
    ASSUME log \in Seq(Record), LogOK, NEW n \in 0 .. Len(log)
    PROVE  /\ Replay(n) \in Replicas /\ Replay(n).lsn = n
           /\ OutboxOK(log, dest, applied, Replay(n))
  <1> DEFINE Run(g) == g = [k \in 0 .. n |-> IF k = 0 THEN EmptyReplica
                                              ELSE ApplyRecord(g[k - 1], log[k])]
             f == CHOOSE g : Run(g)
             G == [k \in 1 .. n |-> [r \in Replicas |-> ApplyRecord(r, log[k])]]
  <1>1. Replay(n) = f[n]
    BY DEF Replay
  <1>0. n \in Nat /\ n \in 0 .. n
    OBVIOUS
  <1>2. n \in Nat /\ \A k \in 1 .. n : k \in 1 .. Len(log) /\ log[k] \in Record
    <2>1. n \in Nat /\ \A k \in 1 .. n : k \in 1 .. Len(log)
      OBVIOUS
    <2> QED
      BY <2>1, RecordsTyped
  <1>3. \E g : Run(g)
    <2>1. G \in [1 .. n -> [Replicas -> Replicas]]
      BY <1>2, ApplyIs
    <2>2. EmptyReplica \in Replicas
      BY EmptyOutbox
    <2> HIDE DEF G
    <2>7. PICK g : Computes(g, n, Replicas, EmptyReplica, G)
      BY <1>0, <2>1, <2>2, RecursionExists
    <2>3. /\ g \in [0 .. n -> Replicas] /\ g[0] = EmptyReplica
          /\ \A k \in 1 .. n : g[k] = G[k][g[k - 1]]
      BY <2>7 DEF Computes
    <2>4. ASSUME NEW k \in 1 .. n PROVE g[k] = ApplyRecord(g[k - 1], log[k])
      <3>1. k - 1 \in 0 .. n
        OBVIOUS
      <3>2. g[k - 1] \in Replicas
        BY <2>3, <3>1
      <3> QED
        BY <2>3, <3>2 DEF G
    <2>5. \A k \in 0 .. n : k # 0 => k \in 1 .. n
      BY <1>2
    <2>6. \A k \in 0 .. n : g[k] = IF k = 0 THEN EmptyReplica ELSE ApplyRecord(g[k - 1], log[k])
      BY <2>3, <2>4, <2>5
    <2> QED
      BY <2>3, <2>6
  <1>4. Run(f)
    <2> HIDE DEF Run
    <2> QED
      BY <1>3
  <1> HIDE DEF f
  <1>5. f[0] = EmptyReplica /\ \A k \in 1 .. n : f[k] = ApplyRecord(f[k - 1], log[k])
    <2>1. \A k \in 1 .. n : k \in 0 .. n /\ k # 0
      BY <1>2
    <2>2. 0 \in 0 .. n
      BY <1>2
    <2> QED
      BY <1>4, <2>1, <2>2
  <1> DEFINE B == {k \in 0 .. n : /\ f[k] \in Replicas /\ f[k].lsn = k
                                  /\ OutboxOK(log, dest, applied, f[k])}
  <1>6. 0 \in B
    BY <1>2, <1>5, EmptyOutbox
  <1>7. ASSUME NEW k \in 1 .. n, k - 1 \in B PROVE k \in B
    <2>1. PICK r \in Replicas : r = f[k - 1] /\ r.lsn = k - 1 /\ OutboxOK(log, dest, applied, r)
      BY <1>7
    <2>2. k \in 1 .. Len(log) /\ log[k] \in Record /\ k \in 0 .. n /\ k \in Nat /\ Len(log) \in Nat
      BY <1>2
    <2>3. r.lsn + 1 = k /\ r.lsn < Len(log)
      BY <2>1, <2>2
    <2>4. f[k] = ApplyRecord(r, log[k])
      BY <1>5, <2>1
    <2>5. f[k] \in Replicas /\ f[k].lsn = k
      BY <2>2, <2>3, <2>4, ApplyIs
    <2>6. OutboxOK(log, dest, applied, f[k])
      BY <2>1, <2>3, <2>4, ApplyKeepsOutbox
    <2> QED
      BY <2>2, <2>5, <2>6
  <1> HIDE DEF B
  <1>8. n \in B
    <2>1. \A k \in 1 .. n : k - 1 \in B => k \in B
      BY <1>7
    <2> QED
      BY <1>0, <1>6, <2>1, CountUp
  <1> QED
    BY <1>1, <1>8 DEF B

-----------------------------------------------------------------------------
(* The messages for a target *)

\* q are the messages for target t among the first m, in their order
Ordered(d, m, t, q) ==
    /\ q \in Seq(Index)
    /\ \A k \in 1 .. Len(q) : d[q[k]] = t /\ q[k] < m /\ \A l \in 1 .. k - 1 : q[l] < q[k]
    /\ \A j \in 0 .. m - 1 : d[j] = t => \E k \in 1 .. Len(q) : q[k] = j

LEMMA IndexIs ==
    /\ MaxMessages \in Nat /\ Index \subseteq Nat
    /\ \A m \in Nat : m < MaxMessages => m \in Index
    /\ \A i \in Index : i < MaxMessages
  BY ShuffleAssumption DEF Index

LEMMA OrderedMore ==
    ASSUME NEW d, NEW t, NEW m \in Nat, m < MaxMessages, NEW q, Ordered(d, m, t, q)
    PROVE  Ordered(d, m + 1, t, IF d[m] = t THEN Append(q, m) ELSE q)
  <1>1. m \in Index /\ q \in Seq(Index) /\ Len(q) \in Nat
    BY IndexIs DEF Ordered
  <1>2. \A k \in 1 .. Len(q) : d[q[k]] = t /\ q[k] < m /\ q[k] \in Nat /\ \A l \in 1 .. k - 1 : q[l] < q[k]
    <2>1. \A k \in 1 .. Len(q) : q[k] \in Nat
      BY <1>1, IndexIs, RangeIn
    <2> QED
      BY <2>1 DEF Ordered
  <1>3. \A j \in 0 .. m - 1 : d[j] = t => \E k \in 1 .. Len(q) : q[k] = j
    BY DEF Ordered
  <1>4. \A k \in 1 .. Len(q) : q[k] < m + 1
    <2> SUFFICES ASSUME NEW k \in 1 .. Len(q) PROVE q[k] < m + 1
      OBVIOUS
    <2>1. q[k] \in Nat /\ q[k] < m
      BY <1>2
    <2> QED
      BY <2>1
  <1>5. \A j \in 0 .. (m + 1) - 1 : j \in 0 .. m - 1 \/ j = m
    OBVIOUS
  <1>6. CASE d[m] # t
    BY <1>1, <1>2, <1>3, <1>4, <1>5, <1>6 DEF Ordered
  <1>7. CASE d[m] = t
    <2> DEFINE a == Append(q, m)
    <2>1. /\ a \in Seq(Index) /\ Len(a) = Len(q) + 1
          /\ \A k \in 1 .. Len(q) : a[k] = q[k]
          /\ a[Len(q) + 1] = m
      BY <1>1, AppendIs
    <2> HIDE DEF a
    <2>2. ASSUME NEW k \in 1 .. Len(a)
          PROVE  d[a[k]] = t /\ a[k] < m + 1 /\ \A l \in 1 .. k - 1 : a[l] < a[k]
      <3>1. CASE k \in 1 .. Len(q)
        <4>1. \A l \in 1 .. k - 1 : l \in 1 .. Len(q)
          BY <1>1, <3>1
        <4>2. \A l \in 1 .. k - 1 : a[l] = q[l]
          BY <2>1, <4>1
        <4> QED
          BY <1>2, <1>4, <2>1, <3>1, <4>2
      <3>2. CASE k = Len(q) + 1
        <4>1. \A l \in 1 .. k - 1 : l \in 1 .. Len(q)
          BY <1>1, <3>2
        <4>2. a[k] = m /\ m < m + 1
          BY <2>1, <3>2
        <4> QED
          BY <1>2, <1>7, <2>1, <4>1, <4>2
      <3>3. k \in 1 .. Len(q) \/ k = Len(q) + 1
        BY <1>1, <2>1
      <3> QED
        BY <3>1, <3>2, <3>3
    <2>3. ASSUME NEW j \in 0 .. (m + 1) - 1, d[j] = t PROVE \E k \in 1 .. Len(a) : a[k] = j
      <3>1. Len(q) + 1 \in 1 .. Len(a) /\ \A k \in 1 .. Len(q) : k \in 1 .. Len(a)
        BY <1>1, <2>1
      <3> QED
        BY <1>3, <1>5, <2>1, <2>3, <3>1
    <2>4. Ordered(d, m + 1, t, a)
      BY <2>1, <2>2, <2>3 DEF Ordered
    <2> QED
      BY <1>7, <2>4 DEF a
  <1> QED
    BY <1>6, <1>7

\* f computes the messages for t among the first ones, up to p
Scan(d, t, p, f) ==
    /\ f[0] = <<>>
    /\ \A k \in 1 .. p : f[k] = IF d[k - 1] = t THEN Append(f[k - 1], k - 1) ELSE f[k - 1]

LEMMA ChosenIs ==
    ASSUME NEW d, NEW t, NEW p \in 0 .. MaxMessages
    PROVE  \E f : Scan(d, t, p, f) /\ Chosen(d, p, t) = f[p]
  <1> DEFINE Run(g) == g = [k \in 0 .. p |-> IF k = 0 THEN <<>>
                              ELSE IF d[k - 1] = t THEN Append(g[k - 1], k - 1) ELSE g[k - 1]]
             f == CHOOSE g : Run(g)
             G == [k \in 1 .. p |->
                     [q \in Seq(Index) |-> IF d[k - 1] = t THEN Append(q, k - 1) ELSE q]]
  <1>1. Chosen(d, p, t) = f[p]
    BY DEF Chosen
  <1>2. p \in Nat
    BY IndexIs
  <1>3. \A k \in 1 .. p : k - 1 \in Index
    <2> SUFFICES ASSUME NEW k \in 1 .. p PROVE k - 1 \in Index
      OBVIOUS
    <2>1. k - 1 \in Nat /\ k - 1 < MaxMessages
      BY IndexIs
    <2> QED
      BY <2>1, IndexIs
  <1>4. \E g : Run(g)
    <2>1. G \in [1 .. p -> [Seq(Index) -> Seq(Index)]]
      <3>1. ASSUME NEW k \in 1 .. p, NEW q \in Seq(Index)
            PROVE  (IF d[k - 1] = t THEN Append(q, k - 1) ELSE q) \in Seq(Index)
        BY <1>3, AppendIs
      <3> QED
        BY <3>1
    <2>2. <<>> \in Seq(Index)
      OBVIOUS
    <2> HIDE DEF G
    <2>7. PICK g : Computes(g, p, Seq(Index), <<>>, G)
      BY <1>2, <2>1, <2>2, RecursionExists
    <2>3. /\ g \in [0 .. p -> Seq(Index)] /\ g[0] = <<>>
          /\ \A k \in 1 .. p : g[k] = G[k][g[k - 1]]
      BY <2>7 DEF Computes
    <2>4. ASSUME NEW k \in 1 .. p
          PROVE  g[k] = IF d[k - 1] = t THEN Append(g[k - 1], k - 1) ELSE g[k - 1]
      <3>1. k - 1 \in 0 .. p
        BY <1>2
      <3>2. g[k - 1] \in Seq(Index)
        BY <2>3, <3>1
      <3> QED
        BY <2>3, <3>2 DEF G
    <2>5. \A k \in 0 .. p : k # 0 => k \in 1 .. p
      BY <1>2
    <2>6. \A k \in 0 .. p : g[k] = IF k = 0 THEN <<>>
                              ELSE IF d[k - 1] = t THEN Append(g[k - 1], k - 1) ELSE g[k - 1]
      BY <2>3, <2>4, <2>5
    <2> QED
      BY <2>3, <2>6
  <1>5. Run(f)
    <2> HIDE DEF Run
    <2> QED
      BY <1>4
  <1> HIDE DEF f
  <1>6. Scan(d, t, p, f)
    <2>1. \A k \in 1 .. p : k \in 0 .. p /\ k # 0
      BY <1>2
    <2>2. 0 \in 0 .. p
      BY <1>2
    <2> QED
      BY <1>5, <2>1, <2>2 DEF Scan
  <1> QED
    BY <1>1, <1>6

LEMMA ScanOrdered ==
    ASSUME NEW d, NEW t, NEW p \in 0 .. MaxMessages, NEW f, Scan(d, t, p, f)
    PROVE  Ordered(d, p, t, f[p])
  <1> DEFINE B == {k \in 0 .. p : Ordered(d, k, t, f[k])}
  <1>1. p \in Nat /\ p \in 0 .. p /\ 0 \in 0 .. p
    BY IndexIs
  <1>2. 0 \in B
    <2>1. f[0] = <<>>
      BY DEF Scan
    <2>2. Ordered(d, 0, t, <<>>)
      BY EmptyIs DEF Ordered
    <2> QED
      BY <1>1, <2>1, <2>2
  <1>3. ASSUME NEW k \in 1 .. p, k - 1 \in B PROVE k \in B
    <2>1. k - 1 \in Nat /\ k - 1 < MaxMessages /\ (k - 1) + 1 = k /\ k \in 0 .. p
      BY IndexIs
    <2>2. Ordered(d, k - 1, t, f[k - 1])
      BY <1>3
    <2>3. f[k] = IF d[k - 1] = t THEN Append(f[k - 1], k - 1) ELSE f[k - 1]
      BY DEF Scan
    <2>4. Ordered(d, (k - 1) + 1, t, f[k])
      BY <2>1, <2>2, <2>3, OrderedMore
    <2> QED
      BY <2>1, <2>4
  <1> HIDE DEF B
  <1>4. p \in B
    <2>1. \A k \in 1 .. p : k - 1 \in B => k \in B
      BY <1>3
    <2> QED
      BY <1>1, <1>2, <2>1, CountUp
  <1> QED
    BY <1>4 DEF B

LEMMA ChosenOrdered ==
    ASSUME NEW d, NEW t, NEW p \in 0 .. MaxMessages
    PROVE  Ordered(d, p, t, Chosen(d, p, t))
  BY ChosenIs, ScanOrdered

LEMMA ChosenNext ==
    ASSUME NEW d, NEW t, NEW p \in Nat, p < MaxMessages
    PROVE  Chosen(d, p + 1, t) =
             IF d[p] = t THEN Append(Chosen(d, p, t), p) ELSE Chosen(d, p, t)
  <1>1. p \in 0 .. MaxMessages /\ p + 1 \in 0 .. MaxMessages /\ p \in 0 .. p /\ p + 1 \in 1 .. p + 1
        /\ (p + 1) - 1 = p
    BY IndexIs
  <1>2. PICK f : Scan(d, t, p, f) /\ Chosen(d, p, t) = f[p]
    BY <1>1, ChosenIs
  <1>3. PICK g : Scan(d, t, p + 1, g) /\ Chosen(d, p + 1, t) = g[p + 1]
    BY <1>1, ChosenIs
  <1> DEFINE B == {k \in 0 .. p : f[k] = g[k]}
  <1>4. 0 \in B
    BY <1>2, <1>3 DEF Scan
  <1>5. ASSUME NEW k \in 1 .. p, k - 1 \in B PROVE k \in B
    <2>1. k \in 1 .. p + 1 /\ k \in 0 .. p
      OBVIOUS
    <2>2. f[k - 1] = g[k - 1]
      BY <1>5
    <2> QED
      BY <1>2, <1>3, <2>1, <2>2 DEF Scan
  <1> HIDE DEF B
  <1>6. p \in B
    <2>1. \A k \in 1 .. p : k - 1 \in B => k \in B
      BY <1>5
    <2> QED
      BY <1>1, <1>4, <2>1, CountUp
  <1>7. f[p] = g[p]
    BY <1>6 DEF B
  <1>8. g[p + 1] = IF d[p] = t THEN Append(g[p], p) ELSE g[p]
    BY <1>1, <1>3 DEF Scan
  <1> QED
    BY <1>2, <1>3, <1>7, <1>8

LEMMA DestinedIs == \A t : Destined(t) = Chosen(dest, Produced, t)
  BY DEF Destined, Chosen

\* what a target has applied, and the record that it gets next
LEMMA NextOne ==
    ASSUME NEW d, NEW t, NEW p \in 0 .. MaxMessages, NEW a \in Seq(Index),
           IsPrefixOf(a, Chosen(d, p, t)), NEW i \in Index, d[i] = t, i < p,
           \A j \in 0 .. i - 1 : d[j] = t => j \in Range(a)
    PROVE  /\ i \in Range(a) <=> (a # <<>> /\ Last(a) >= i)
           /\ i \notin Range(a) =>
                /\ Len(a) < Len(Chosen(d, p, t))
                /\ Chosen(d, p, t)[Len(a) + 1] = i
  <1> DEFINE q == Chosen(d, p, t)
             m == Len(a)
  <1>1. /\ q \in Seq(Index)
        /\ \A k \in 1 .. Len(q) : d[q[k]] = t /\ q[k] < p /\ \A l \in 1 .. k - 1 : q[l] < q[k]
        /\ \A j \in 0 .. p - 1 : d[j] = t => \E k \in 1 .. Len(q) : q[k] = j
    BY ChosenOrdered DEF Ordered
  <1>2. m <= Len(q) /\ \A k \in 1 .. m : a[k] = q[k]
    BY DEF IsPrefixOf
  <1> HIDE DEF q
  <1>3. /\ m \in Nat /\ Len(q) \in Nat /\ i \in Nat
        /\ \A k \in 1 .. Len(q) : q[k] \in Nat /\ q[k] \in Index
        /\ \A x \in Range(a) : \E k \in 1 .. m : a[k] = x
        /\ \A k \in 1 .. m : a[k] \in Range(a)
    <2>1. i \in Nat
      BY IndexIs
    <2>2. /\ m \in Nat /\ \A x \in Range(a) : \E k \in 1 .. m : a[k] = x
          /\ \A k \in 1 .. m : a[k] \in Range(a)
      BY RangeIn
    <2>3. Len(q) \in Nat /\ \A k \in 1 .. Len(q) : q[k] \in Index
      BY <1>1, RangeIn
    <2> QED
      BY <2>1, <2>2, <2>3, IndexIs
  <1>4. \A k, l \in 1 .. Len(q) : l < k => q[l] < q[k]
    <2> SUFFICES ASSUME NEW k \in 1 .. Len(q), NEW l \in 1 .. Len(q), l < k PROVE q[l] < q[k]
      OBVIOUS
    <2>1. l \in 1 .. k - 1
      OBVIOUS
    <2> QED
      BY <1>1, <2>1
  <1>5. PICK k \in 1 .. Len(q) : q[k] = i
    <2>1. i \in 0 .. p - 1
      BY <1>3
    <2> QED
      BY <1>1, <2>1
  <1>6. \A l \in 1 .. Len(q) : l < k => l <= m
    <2> SUFFICES ASSUME NEW l \in 1 .. Len(q), l < k PROVE l <= m
      OBVIOUS
    <2>1. q[l] < i /\ d[q[l]] = t /\ q[l] \in Nat
      BY <1>1, <1>3, <1>4, <1>5
    <2>2. q[l] \in 0 .. i - 1
      BY <1>3, <2>1
    <2>3. q[l] \in Range(a)
      BY <2>1, <2>2
    <2>4. PICK e \in 1 .. m : q[e] = q[l]
      BY <1>2, <1>3, <2>3
    <2>5. e \in 1 .. Len(q)
      BY <1>2, <1>3
    <2>6. q[e] \in Nat /\ ~(q[e] < q[l]) /\ ~(q[l] < q[e])
      BY <1>3, <2>4, <2>5
    <2>7. ~(e < l) /\ ~(l < e)
      BY <1>4, <2>5, <2>6
    <2> QED
      BY <2>7
  <1>7. k <= m + 1
    <2>1. CASE k = 1
      BY <1>3, <2>1
    <2>2. CASE k # 1
      <3>1. k - 1 \in 1 .. Len(q) /\ k - 1 < k
        BY <1>3, <2>2
      <3>2. k - 1 <= m
        BY <1>6, <3>1
      <3> QED
        BY <1>3, <3>2
    <2> QED
      BY <2>1, <2>2
  <1>8. a # <<>> <=> m # 0
    BY EmptyIs
  <1>9. m # 0 => Last(a) = a[m] /\ m \in 1 .. m /\ m \in 1 .. Len(q)
    BY <1>2, <1>3 DEF Last
  <1>10. CASE k <= m
    <2>1. k \in 1 .. m /\ m # 0
      BY <1>3, <1>10
    <2>2. i \in Range(a)
      BY <1>2, <1>3, <1>5, <2>1
    <2>3. k < m => q[k] < q[m]
      BY <1>4, <1>9, <2>1
    <2>4. q[m] \in Nat /\ Last(a) = q[m]
      BY <1>2, <1>3, <1>9, <2>1
    <2>5. k = m \/ k < m
      BY <1>3, <1>10
    <2>6. q[m] = i \/ i < q[m]
      BY <1>5, <2>3, <2>5
    <2>7. Last(a) >= i
      BY <1>3, <2>4, <2>6
    <2> QED
      BY <1>8, <2>1, <2>2, <2>7
  <1>11. CASE ~(k <= m)
    <2> HIDE DEF m
    <2>0. m \in Nat /\ Len(q) \in Nat
      BY <1>3
    <2>1. k = m + 1 /\ m < Len(q) /\ m < k
      BY <1>7, <1>11, <2>0
    <2>2. q[m + 1] = i
      BY <1>5, <2>1
    <2>3. \A l \in 1 .. m : l \in 1 .. Len(q) /\ l < k
      BY <1>3, <2>1
    <2>4. \A l \in 1 .. m : a[l] < i /\ a[l] \in Nat
      BY <1>2, <1>3, <1>4, <1>5, <2>3
    <2>5. \A l \in 1 .. m : a[l] # i
      BY <1>3, <2>4
    <2>6. i \notin Range(a)
      BY <1>3, <2>5
    <2>7. m # 0 => Last(a) < i /\ Last(a) \in Nat
      BY <1>9, <2>4
    <2>8. ~(m # 0 /\ Last(a) >= i)
      BY <1>3, <2>7
    <2> QED
      BY <1>8, <2>1, <2>2, <2>6, <2>8 DEF q, m
  <1> QED
    BY <1>10, <1>11

-----------------------------------------------------------------------------
(* What is known stays known while messages are added and applied *)

Leaders == [lsn : Nat, epoch : 0 .. MaxEpoch, head : 0 .. MaxMessages, tail : 0 .. MaxMessages]

Shuffles ==
    [epoch : 0 .. MaxEpoch, state : {"Stopped", "Idle", "ReadingOutbox"}, next : 0 .. MaxMessages,
     hints : Seq(Index), inflight : Seq(Index), committed : SUBSET Index,
     truncation : NONE .. MaxMessages - 1, changed : BOOLEAN]

Sessions ==
    [queue : Seq(Token), batch : Seq(Token), attempt : 0 .. MaxFaults, state : {"Connected", "Sent"}]

Requests ==
    [node : Node, target : Target, attempt : 0 .. MaxFaults, records : Seq(Index)]

LEMMA Shapes ==
    ASSUME TypeOK
    PROVE  /\ log \in Seq(Record) /\ dest \in Routes /\ dest \in [Index -> Target]
           /\ epoch \in 0 .. MaxEpoch /\ campaign \in [Node -> 0 .. MaxEpoch]
           /\ replica \in [Node -> Leaders]
           /\ shuffle \in [Node -> Shuffles] /\ session \in [Node -> [Target -> Sessions]]
           /\ requests \subseteq Requests
           /\ applied \in [Target -> Seq(Index)] /\ faults \in 0 .. MaxFaults
           /\ \A n \in Node : Len(shuffle[n].hints) <= MaxHints
  BY ShuffleAssumption DEF TypeOK, Leaders, Shuffles, Sessions, Requests

LEMMA ShapesMake ==
    ASSUME log \in Seq(Record), dest \in Routes,
           epoch \in 0 .. MaxEpoch, campaign \in [Node -> 0 .. MaxEpoch],
           replica \in [Node -> Leaders],
           shuffle \in [Node -> Shuffles], session \in [Node -> [Target -> Sessions]],
           requests \subseteq Requests,
           applied \in [Target -> Seq(Index)], faults \in 0 .. MaxFaults,
           \A n \in Node : Len(shuffle[n].hints) <= MaxHints
    PROVE  TypeOK
  BY DEF TypeOK, Leaders, Shuffles, Sessions, Requests

LEMMA Numbers == Seq(Index) \subseteq Seq(Nat)
  <1> SUFFICES ASSUME NEW q \in Seq(Index) PROVE q \in Seq(Nat)
    OBVIOUS
  <1>1. Len(q) \in Nat /\ q \in [1 .. Len(q) -> Index]
    OBVIOUS
  <1>2. q \in [1 .. Len(q) -> Nat]
    BY <1>1, IndexIs
  <1> QED
    BY <1>1, <1>2

\* app2 has all that app has
Grown(app, app2) == \A t \in Target : Range(app[t]) \subseteq Range(app2[t])

LEMMA DeliveredMore ==
    ASSUME NEW d \in [Index -> Target], NEW app, NEW app2, Grown(app, app2),
           NEW i \in Int, i <= MaxMessages, DeliveredBelow(d, app, i)
    PROVE  DeliveredBelow(d, app2, i)
  <1> SUFFICES ASSUME NEW j \in 0 .. i - 1 PROVE j \in Range(app2[d[j]])
    BY DEF DeliveredBelow
  <1>1. j \in Nat /\ j < MaxMessages
    BY IndexIs
  <1>2. d[j] \in Target
    BY <1>1, IndexIs
  <1>3. j \in Range(app[d[j]])
    BY DEF DeliveredBelow
  <1> QED
    BY <1>2, <1>3 DEF Grown

LEMMA RecordIs ==
    ASSUME NEW x \in Record
    PROVE  /\ x.kind \in {"enqueue", "announce", "truncate"} /\ x.epoch \in 0 .. MaxEpoch
           /\ x.index \in Int /\ x.index + 1 \in Nat /\ x.index + 1 <= MaxMessages
  <1>1. /\ x.kind \in {"enqueue", "announce", "truncate"} /\ x.epoch \in 0 .. MaxEpoch
        /\ x.index \in NONE .. MaxMessages - 1
    BY DEF Record
  <1>2. x.index \in Int /\ x.index + 1 \in Nat /\ x.index + 1 <= MaxMessages
    BY <1>1, IndexIs DEF NONE
  <1> QED
    BY <1>1, <1>2

LEMMA LogMore ==
    ASSUME NEW l \in Seq(Record), NEW d \in [Index -> Target], NEW app, NEW app2,
           Grown(app, app2), LogIs(l, d, app)
    PROVE  LogIs(l, d, app2)
  <1>1. ASSUME NEW p \in 1 .. Len(l), l[p].kind = "truncate"
        PROVE  DeliveredBelow(d, app2, l[p].index + 1)
    <2>1. l[p] \in Record
      BY RangeIn
    <2>2. l[p].index + 1 \in Int /\ l[p].index + 1 <= MaxMessages
      BY <2>1, RecordIs
    <2>3. DeliveredBelow(d, app, l[p].index + 1)
      BY <1>1 DEF LogIs
    <2> QED
      BY <2>2, <2>3, DeliveredMore
  <1> QED
    BY <1>1 DEF LogIs

LEMMA LogAppend ==
    ASSUME NEW l \in Seq(Record), NEW d, NEW app, LogIs(l, d, app), NEW x \in Record,
           Enqueued(Append(l, x), Len(l) + 1) <= MaxMessages,
           x.kind = "truncate" =>
             x.index < Enqueued(l, Len(l)) /\ DeliveredBelow(d, app, x.index + 1)
    PROVE  LogIs(Append(l, x), d, app)
  <1> DEFINE a == Append(l, x)
  <1>1. /\ a \in Seq(Record) /\ Len(a) = Len(l) + 1 /\ Len(l) \in Nat
        /\ \A k \in 1 .. Len(l) : a[k] = l[k]
        /\ a[Len(l) + 1] = x
    BY AppendIs
  <1>2. \A k \in 0 .. Len(l) : Enqueued(a, k) = Enqueued(l, k)
    BY EnqueuedKept
  <1>3. Enqueued(a, Len(a)) <= MaxMessages
    BY <1>1
  <1> HIDE DEF a
  <1>4. ASSUME NEW p \in 1 .. Len(a), a[p].kind = "truncate"
        PROVE  a[p].index < Enqueued(a, p - 1) /\ DeliveredBelow(d, app, a[p].index + 1)
    <2>1. CASE p \in 1 .. Len(l)
      <3>1. p - 1 \in 0 .. Len(l)
        BY <1>1, <2>1
      <3>2. a[p] = l[p] /\ Enqueued(a, p - 1) = Enqueued(l, p - 1)
        BY <1>1, <1>2, <2>1, <3>1
      <3> QED
        BY <1>4, <2>1, <3>2 DEF LogIs
    <2>2. CASE p = Len(l) + 1
      <3>1. p - 1 = Len(l) /\ Len(l) \in 0 .. Len(l)
        BY <1>1, <2>2
      <3>2. a[p] = x /\ Enqueued(a, p - 1) = Enqueued(l, Len(l))
        BY <1>1, <1>2, <2>2, <3>1
      <3> QED
        BY <1>4, <3>2
    <2>3. p \in 1 .. Len(l) \/ p = Len(l) + 1
      BY <1>1
    <2> QED
      BY <2>1, <2>2, <2>3
  <1>5. LogIs(a, d, app)
    BY <1>3, <1>4 DEF LogIs
  <1> QED
    BY <1>5 DEF a

LEMMA OutboxKept ==
    ASSUME NEW l \in Seq(Record), NEW d, NEW app, NEW x \in Record,
           NEW r \in Leaders, OutboxOK(l, d, app, r)
    PROVE  OutboxOK(Append(l, x), d, app, r)
  <1>1. r.lsn \in Nat /\ Len(l) \in Nat /\ r.lsn <= Len(l)
    BY DEF OutboxOK, Leaders
  <1>2. r.lsn \in 0 .. Len(l) /\ Len(Append(l, x)) = Len(l) + 1 /\ r.lsn <= Len(l) + 1
    BY <1>1, AppendIs
  <1>3. Enqueued(Append(l, x), r.lsn) = Enqueued(l, r.lsn)
    BY <1>2, EnqueuedKept
  <1> QED
    BY <1>2, <1>3 DEF OutboxOK

LEMMA OutboxMore ==
    ASSUME NEW l, NEW d \in [Index -> Target], NEW app, NEW app2, Grown(app, app2),
           NEW r \in Leaders, OutboxOK(l, d, app, r)
    PROVE  OutboxOK(l, d, app2, r)
  <1>1. r.head \in 0 .. MaxMessages
    BY DEF Leaders
  <1>2. r.head \in Int /\ r.head <= MaxMessages
    BY <1>1, IndexIs
  <1>3. DeliveredBelow(d, app2, r.head)
    BY <1>2, DeliveredMore DEF OutboxOK
  <1> QED
    BY <1>3 DEF OutboxOK

LEMMA ShuffleIs ==
    ASSUME NEW s \in Shuffles
    PROVE  /\ s.epoch \in 0 .. MaxEpoch /\ s.state \in {"Stopped", "Idle", "ReadingOutbox"}
           /\ s.next \in Nat /\ s.next <= MaxMessages
           /\ s.hints \in Seq(Index) /\ s.inflight \in Seq(Index) /\ s.committed \subseteq Index
           /\ s.truncation \in Int /\ s.truncation + 1 \in Nat /\ s.truncation + 1 <= MaxMessages
           /\ s.changed \in BOOLEAN
  <1>1. /\ s.epoch \in 0 .. MaxEpoch /\ s.state \in {"Stopped", "Idle", "ReadingOutbox"}
        /\ s.next \in 0 .. MaxMessages
        /\ s.hints \in Seq(Index) /\ s.inflight \in Seq(Index) /\ s.committed \subseteq Index
        /\ s.truncation \in NONE .. MaxMessages - 1 /\ s.changed \in BOOLEAN
    BY DEF Shuffles
  <1>2. /\ s.next \in Nat /\ s.next <= MaxMessages
        /\ s.truncation \in Int /\ s.truncation + 1 \in Nat /\ s.truncation + 1 <= MaxMessages
    BY <1>1, IndexIs DEF NONE
  <1> QED
    BY <1>1, <1>2

\* messages that leave a session have been applied
LEMMA ScanMore ==
    ASSUME NEW d \in [Index -> Target], NEW app, NEW app2, Grown(app, app2), NEW r,
           NEW sess, NEW sess2,
           \A t \in Target : Held(sess[t]) \subseteq Held(sess2[t]) \cup Range(app2[t]),
           NEW s \in Shuffles, ScanOK(d, app, r, sess, s)
    PROVE  ScanOK(d, app2, r, sess2, s)
  <1>1. /\ s.next \in Nat /\ s.next <= MaxMessages /\ s.committed \subseteq Index
        /\ s.truncation + 1 \in Int /\ s.truncation + 1 <= MaxMessages
    BY ShuffleIs
  <1>2. ASSUME NEW j \in 0 .. s.next - 1
        PROVE  \/ j \in Range(app2[d[j]])
               \/ j \in Range(s.inflight) /\ j \in Held(sess2[d[j]])
    <2>1. j \in Nat /\ j < MaxMessages
      BY <1>1, IndexIs
    <2>2. d[j] \in Target
      BY <2>1, IndexIs
    <2>3. j \in Range(app[d[j]]) \/ (j \in Range(s.inflight) /\ j \in Held(sess[d[j]]))
      BY DEF ScanOK
    <2> QED
      BY <2>2, <2>3 DEF Grown
  <1>3. ASSUME NEW i \in s.committed PROVE i \in Range(app2[d[i]])
    <2>1. d[i] \in Target
      BY <1>1
    <2>2. i \in Range(app[d[i]])
      BY DEF ScanOK
    <2> QED
      BY <2>1, <2>2 DEF Grown
  <1>4. DeliveredBelow(d, app2, s.truncation + 1)
    BY <1>1, DeliveredMore DEF ScanOK
  <1> QED
    BY <1>2, <1>3, <1>4 DEF ScanOK

LEMMA LeaderMore ==
    ASSUME NEW l, NEW d \in [Index -> Target], NEW app, NEW app2, Grown(app, app2),
           NEW r \in Leaders, NEW sess, NEW sess2,
           \A t \in Target : Held(sess[t]) \subseteq Held(sess2[t]) \cup Range(app2[t]),
           NEW s \in Shuffles, LeaderIs(l, d, app, r, sess, s)
    PROVE  LeaderIs(l, d, app2, r, sess2, s)
  <1>1. CASE s.state = "Stopped"
    BY <1>1 DEF LeaderIs
  <1>2. CASE s.state # "Stopped"
    <2>1. OutboxOK(l, d, app, r) /\ ScanOK(d, app, r, sess, s)
      BY <1>2 DEF LeaderIs
    <2>2. OutboxOK(l, d, app2, r)
      BY <2>1, OutboxMore
    <2>3. ScanOK(d, app2, r, sess2, s)
      BY <2>1, ScanMore
    <2> QED
      BY <1>2, <2>2, <2>3 DEF LeaderIs
  <1> QED
    BY <1>1, <1>2

LEMMA LeaderAppend ==
    ASSUME NEW l \in Seq(Record), NEW d, NEW app, NEW x \in Record, NEW r \in Leaders, NEW sess,
           NEW s, LeaderIs(l, d, app, r, sess, s)
    PROVE  LeaderIs(Append(l, x), d, app, r, sess, s)
  BY OutboxKept DEF LeaderIs

LEMMA SessionIs ==
    ASSUME NEW s \in Sessions
    PROVE  /\ s.queue \in Seq(Token) /\ s.batch \in Seq(Token) /\ s.attempt \in Nat
           /\ s.attempt <= MaxFaults /\ s.state \in {"Connected", "Sent"}
           /\ SnsOf(s.queue) \in Seq(Index) /\ SnsOf(s.batch) \in Seq(Index)
           /\ SnsOf(s.queue) \in Seq(Nat) /\ SnsOf(s.batch) \in Seq(Nat)
  <1>1. /\ s.queue \in Seq(Token) /\ s.batch \in Seq(Token) /\ s.attempt \in 0 .. MaxFaults
        /\ s.state \in {"Connected", "Sent"}
    BY DEF Sessions
  <1>2. s.attempt \in Nat /\ s.attempt <= MaxFaults
    BY <1>1, ShuffleAssumption
  <1>3. SnsOf(s.queue) \in Seq(Index) /\ SnsOf(s.batch) \in Seq(Index)
    BY <1>1, SnsIs
  <1> QED
    BY <1>1, <1>2, <1>3, Numbers

LEMMA SessionMore ==
    ASSUME NEW d, NEW p \in Nat, NEW pp \in Nat, p <= pp, NEW f \in Nat, NEW ff \in Nat, f <= ff,
           NEW t, NEW E, NEW EE, E \subseteq EE, NEW s \in Sessions, SessionOK(d, p, f, t, E, s)
    PROVE  SessionOK(d, pp, ff, t, EE, s)
  <1>1. s.attempt \in Nat /\ SnsOf(s.queue) \in Seq(Nat) /\ SnsOf(s.batch) \in Seq(Nat)
    BY SessionIs
  <1>2. /\ s.attempt <= f /\ Follows(d, p, t, E, SnsOf(s.batch))
        /\ Follows(d, p, t, E \cup Batch(s), SnsOf(s.queue))
    BY DEF SessionOK
  <1>3. s.attempt <= ff
    BY <1>1, <1>2
  <1>4. Follows(d, pp, t, EE, SnsOf(s.batch))
    BY <1>1, <1>2, FollowsMore
  <1>5. E \cup Batch(s) \subseteq EE \cup Batch(s)
    OBVIOUS
  <1>6. Follows(d, pp, t, EE \cup Batch(s), SnsOf(s.queue))
    BY <1>1, <1>2, <1>5, FollowsMore
  <1> QED
    BY <1>3, <1>4, <1>6 DEF SessionOK

LEMMA RequestIs ==
    ASSUME NEW r \in Requests
    PROVE  /\ r.node \in Node /\ r.target \in Target /\ r.attempt \in Nat
           /\ r.attempt <= MaxFaults /\ r.records \in Seq(Index) /\ r.records \in Seq(Nat)
  <1>1. /\ r.node \in Node /\ r.target \in Target /\ r.attempt \in 0 .. MaxFaults
        /\ r.records \in Seq(Index)
    BY DEF Requests
  <1>2. r.attempt \in Nat /\ r.attempt <= MaxFaults
    BY <1>1, ShuffleAssumption
  <1> QED
    BY <1>1, <1>2, Numbers

\* the session is as it was, or has begun another attempt
LEMMA RequestMore ==
    ASSUME NEW d, NEW p \in Nat, NEW pp \in Nat, p <= pp, NEW E, NEW EE, E \subseteq EE,
           NEW s \in Sessions, NEW ss \in Sessions,
           \/ ss.attempt > s.attempt
           \/ ss.attempt = s.attempt /\ ss.state = s.state /\ ss.batch = s.batch,
           NEW r \in Requests, RequestOK(d, p, E, s, r)
    PROVE  RequestOK(d, pp, EE, ss, r)
  <1>1. r.attempt \in Nat /\ r.records \in Seq(Nat)
    BY RequestIs
  <1>2. s.attempt \in Nat /\ ss.attempt \in Nat
    BY SessionIs
  <1>3. /\ r.records # <<>> /\ Follows(d, p, r.target, E, r.records)
        /\ r.attempt <= s.attempt
        /\ r.attempt = s.attempt => s.state = "Sent" /\ Batch(s) \subseteq E \cup Range(r.records)
    BY DEF RequestOK
  <1>4. Follows(d, pp, r.target, EE, r.records)
    BY <1>1, <1>3, FollowsMore
  <1>5. r.attempt <= ss.attempt
    BY <1>1, <1>2, <1>3
  <1>6. r.attempt = ss.attempt => r.attempt = s.attempt /\ ss.state = s.state /\ ss.batch = s.batch
    BY <1>1, <1>2, <1>3
  <1>7. r.attempt = ss.attempt => ss.state = "Sent" /\ Batch(ss) \subseteq EE \cup Range(r.records)
    BY <1>3, <1>6 DEF Batch
  <1> QED
    BY <1>3, <1>4, <1>5, <1>7 DEF RequestOK

LEMMA PrefixMore ==
    ASSUME NEW d, NEW t, NEW p \in Nat, p < MaxMessages, NEW a \in Seq(Index),
           IsPrefixOf(a, Chosen(d, p, t))
    PROVE  IsPrefixOf(a, Chosen(d, p + 1, t))
  <1> DEFINE q == Chosen(d, p, t)
  <1>1. p \in 0 .. MaxMessages /\ p \in Index
    BY IndexIs
  <1>2. q \in Seq(Index)
    BY <1>1, ChosenOrdered DEF Ordered
  <1>3. Chosen(d, p + 1, t) = IF d[p] = t THEN Append(q, p) ELSE q
    BY ChosenNext
  <1> HIDE DEF q
  <1>4. Len(a) \in Nat /\ Len(q) \in Nat
    BY <1>2
  <1>5. Len(a) <= Len(q) /\ \A k \in 1 .. Len(a) : a[k] = q[k]
    BY DEF IsPrefixOf, q
  <1>6. \A k \in 1 .. Len(a) : k \in 1 .. Len(q)
    BY <1>4, <1>5
  <1>7. /\ Len(Append(q, p)) = Len(q) + 1
        /\ \A k \in 1 .. Len(q) : Append(q, p)[k] = q[k]
    BY <1>1, <1>2, AppendIs
  <1>8. Len(a) <= Len(q) + 1
    BY <1>4, <1>5
  <1> QED
    BY <1>3, <1>5, <1>6, <1>7, <1>8 DEF IsPrefixOf

-----------------------------------------------------------------------------
(* The log grows *)

LEMMA ProducedIs ==
    ASSUME log \in Seq(Record), LogOK
    PROVE  /\ Produced = Enqueued(log, Len(log)) /\ Produced \in Nat /\ Produced <= MaxMessages
           /\ Produced \in 0 .. MaxMessages
  <1>1. Produced = Enqueued(log, Len(log))
    BY DEF Produced, Enqueued
  <1>2. Len(log) \in Nat
    OBVIOUS
  <1>3. Enqueued(log, Len(log)) \in Nat
    BY <1>2, EnqueuedIs
  <1>4. Enqueued(log, Len(log)) <= MaxMessages
    BY DEF LogOK, LogIs
  <1>5. Produced \in 0 .. MaxMessages
    BY <1>1, <1>3, <1>4, IndexIs
  <1> QED
    BY <1>1, <1>3, <1>4, <1>5

LEMMA EnqueuedAppend ==
    ASSUME NEW l \in Seq(Record), NEW x \in Record
    PROVE  Enqueued(Append(l, x), Len(l) + 1) =
             IF x.kind = "enqueue" THEN Enqueued(l, Len(l)) + 1 ELSE Enqueued(l, Len(l))
  <1>1. Len(l) \in Nat /\ Len(l) \in 0 .. Len(l) /\ Append(l, x)[Len(l) + 1] = x
    OBVIOUS
  <1>2. Enqueued(Append(l, x), Len(l)) = Enqueued(l, Len(l))
    BY <1>1, EnqueuedKept
  <1> DEFINE a == Append(l, x)
             m == Len(l)
  <1>3. a[m + 1] = x /\ m \in Nat
    BY <1>1
  <1> HIDE DEF a, m
  <1>4. Enqueued(a, m + 1) = IF a[m + 1].kind = "enqueue" THEN Enqueued(a, m) + 1 ELSE Enqueued(a, m)
    BY <1>3, EnqueuedIs
  <1> QED
    BY <1>2, <1>3, <1>4 DEF a, m

LEMMA SameTravel ==
    ASSUME TravelOK, UNCHANGED <<dest, session, requests, applied, faults>>, Produced' = Produced
    PROVE  TravelOK'
  BY DEF TravelOK, OneRequest

LEMMA SameApplied ==
    ASSUME \A t \in Target : AppliedOK(t), UNCHANGED <<dest, applied>>, Produced' = Produced
    PROVE  \A t \in Target : AppliedOK(t)'
  BY DEF AppliedOK

LEMMA SameLog ==
    ASSUME LogOK, UNCHANGED <<log, dest, applied>>
    PROVE  LogOK' /\ Produced' = Produced
  BY DEF LogOK, Produced

\* what every appended record leaves as it is
LEMMA RecordAppended ==
    ASSUME ShuffleInv, NEW x \in Record, log' = Append(log, x), UNCHANGED <<dest, applied>>,
           x.kind = "enqueue" => Produced < MaxMessages,
           x.kind = "truncate" =>
             x.index < Produced /\ DeliveredBelow(dest, applied, x.index + 1)
    PROVE  /\ log' \in Seq(Record) /\ LogOK'
           /\ Produced' = IF x.kind = "enqueue" THEN Produced + 1 ELSE Produced
  <1>1. log \in Seq(Record) /\ LogOK /\ LogIs(log, dest, applied)
    BY Shapes DEF ShuffleInv, LogOK
  <1>2. Produced = Enqueued(log, Len(log)) /\ Produced \in Nat /\ Produced <= MaxMessages
    BY <1>1, ProducedIs
  <1>3. log' \in Seq(Record) /\ Len(log') = Len(log) + 1
    BY <1>1, AppendIs
  <1>4. Produced' = Enqueued(log', Len(log'))
    BY DEF Produced, Enqueued
  <1>5. Enqueued(Append(log, x), Len(log) + 1) =
          IF x.kind = "enqueue" THEN Enqueued(log, Len(log)) + 1 ELSE Enqueued(log, Len(log))
    BY <1>1, EnqueuedAppend
  <1>6. Produced' = IF x.kind = "enqueue" THEN Produced + 1 ELSE Produced
    BY <1>2, <1>3, <1>4, <1>5
  <1>7. Enqueued(Append(log, x), Len(log) + 1) <= MaxMessages
    <2>1. MaxMessages \in Nat
      BY IndexIs
    <2>2. CASE x.kind = "enqueue"
      BY <1>2, <1>5, <2>1, <2>2
    <2>3. CASE x.kind # "enqueue"
      BY <1>2, <1>5, <2>3
    <2> QED
      BY <2>2, <2>3
  <1>8. x.kind = "truncate" =>
          x.index < Enqueued(log, Len(log)) /\ DeliveredBelow(dest, applied, x.index + 1)
    BY <1>2
  <1>9. LogIs(Append(log, x), dest, applied)
    BY <1>1, <1>7, <1>8, LogAppend
  <1> QED
    BY <1>3, <1>6, <1>9 DEF LogOK

LEMMA LeaderSame ==
    ASSUME ShuffleInv, NEW n \in Node, UNCHANGED <<dest, applied>>,
           UNCHANGED log \/ \E x \in Record : log' = Append(log, x),
           replica'[n] = replica[n], session'[n] = session[n], shuffle'[n] = shuffle[n]
    PROVE  LeaderOK(n)'
  <1>1. /\ log \in Seq(Record) /\ replica[n] \in Leaders
        /\ LeaderIs(log, dest, applied, replica[n], session[n], shuffle[n])
    BY Shapes DEF ShuffleInv, LeaderOK
  <1>2. LeaderIs(log', dest, applied, replica[n], session[n], shuffle[n])
    BY <1>1, LeaderAppend
  <1> QED
    BY <1>2 DEF LeaderOK

LEMMA LeaderStopped ==
    ASSUME NEW n \in Node, shuffle'[n] = Stopped
    PROVE  LeaderOK(n)'
  BY DEF LeaderOK, LeaderIs, Stopped

LEMMA FixedValues ==
    /\ Stopped \in Shuffles /\ EmptyReplica \in Leaders /\ NoSession \in Sessions
    /\ Stopped.state = "Stopped" /\ Stopped.inflight = <<>> /\ Stopped.hints = <<>>
    /\ Stopped.changed = FALSE
    /\ \A e \in 0 .. MaxEpoch : Started(e) \in Shuffles /\ Started(e).hints = <<>>
    /\ \A e \in 0 .. MaxEpoch, k \in {"enqueue", "announce", "truncate"} :
         [kind |-> k, epoch |-> e, index |-> NONE] \in Record
  <1>1. /\ 0 \in 0 .. MaxEpoch /\ 0 \in 0 .. MaxMessages /\ 0 \in 0 .. MaxFaults
        /\ NONE \in NONE .. MaxMessages - 1 /\ <<>> \in Seq(Index) /\ <<>> \in Seq(Token)
        /\ 0 \in Nat
    BY ShuffleAssumption DEF NONE
  <1> QED
    BY <1>1 DEF Stopped, Shuffles, EmptyReplica, Leaders, NoSession, Sessions, Started, Record

LEMMA HintsFit == Len(Stopped.hints) <= MaxHints
  <1>1. 0 <= MaxHints
    BY ShuffleAssumption
  <1> QED
    BY <1>1, FixedValues, EmptyIs

LEMMA ProduceStep == ASSUME ShuffleInv, Produce PROVE ShuffleInv'
  <1> DEFINE x == [kind |-> "enqueue", epoch |-> 0, index |-> NONE]
  <1>1. /\ TypeOK /\ LogOK /\ TravelOK /\ (\A t \in Target : AppliedOK(t))
        /\ log \in Seq(Record) /\ session \in [Node -> [Target -> Sessions]]
        /\ requests \subseteq Requests /\ applied \in [Target -> Seq(Index)]
        /\ faults \in 0 .. MaxFaults /\ faults \in Nat
    BY Shapes, ShuffleAssumption DEF ShuffleInv
  <1>2. /\ Produced < MaxMessages /\ log' = Append(log, x)
        /\ UNCHANGED <<dest, epoch, campaign, replica, shuffle, session, requests, applied, faults>>
    BY DEF Produce
  <1>3. x \in Record /\ x.kind = "enqueue"
    <2>1. 0 \in 0 .. MaxEpoch
      BY ShuffleAssumption
    <2> QED
      BY <2>1, FixedValues
  <1> HIDE DEF x
  <1>4. log' \in Seq(Record) /\ LogOK' /\ Produced' = Produced + 1
    BY <1>2, <1>3, RecordAppended
  <1>5. TypeOK'
    BY <1>1, <1>2, <1>4 DEF TypeOK
  <1>6. \A n \in Node : LeaderOK(n)'
    BY <1>2, <1>3, LeaderSame
  <1>7. Produced \in Nat /\ Produced' \in Nat /\ Produced <= Produced' /\ faults <= faults
    <2>1. Produced \in Nat
      BY <1>1, ProducedIs
    <2> QED
      BY <1>1, <1>4, <2>1
  <1>8. TravelOK'
    <2>1. ASSUME NEW n \in Node, NEW t \in Target
          PROVE  SessionOK(dest, Produced', faults, t, Range(applied[t]), session[n][t])
      <3>1. /\ SessionOK(dest, Produced, faults, t, Range(applied[t]), session[n][t])
            /\ session[n][t] \in Sessions
        BY <1>1 DEF TravelOK
      <3> QED
        BY <1>1, <1>7, <3>1, SessionMore
    <2>2. ASSUME NEW r \in requests
          PROVE  RequestOK(dest, Produced', Range(applied[r.target]), session[r.node][r.target], r)
      <3>1. r \in Requests /\ r.node \in Node /\ r.target \in Target
        BY <1>1, RequestIs
      <3>2. session[r.node][r.target] \in Sessions
        BY <1>1, <3>1
      <3>3. RequestOK(dest, Produced, Range(applied[r.target]), session[r.node][r.target], r)
        BY <1>1 DEF TravelOK
      <3> QED
        BY <1>7, <3>1, <3>2, <3>3, RequestMore
    <2> QED
      BY <1>1, <1>2, <2>1, <2>2 DEF TravelOK, OneRequest
  <1>9. ASSUME NEW t \in Target PROVE AppliedOK(t)'
    <2>1. applied[t] \in Seq(Index) /\ IsPrefixOf(applied[t], Chosen(dest, Produced, t))
      BY <1>1 DEF AppliedOK
    <2>2. IsPrefixOf(applied[t], Chosen(dest, Produced + 1, t))
      BY <1>2, <1>7, <2>1, PrefixMore
    <2> QED
      BY <1>2, <1>4, <2>2 DEF AppliedOK
  <1> QED
    BY <1>4, <1>5, <1>6, <1>8, <1>9 DEF ShuffleInv

LEMMA RunForLeaderStep ==
    ASSUME ShuffleInv, NEW n \in Node, RunForLeader(n) PROVE ShuffleInv'
  <1> DEFINE x == [kind |-> "announce", epoch |-> epoch + 1, index |-> NONE]
  <1>1. /\ TypeOK /\ LogOK /\ TravelOK /\ (\A t \in Target : AppliedOK(t))
        /\ campaign \in [Node -> 0 .. MaxEpoch] /\ epoch \in 0 .. MaxEpoch
        /\ replica \in [Node -> Leaders] /\ shuffle \in [Node -> Shuffles]
        /\ \A m \in Node : Len(shuffle[m].hints) <= MaxHints
    BY Shapes DEF ShuffleInv
  <1>2. /\ epoch < MaxEpoch /\ epoch' = epoch + 1
        /\ campaign' = [campaign EXCEPT ![n] = epoch + 1]
        /\ shuffle' = [shuffle EXCEPT ![n] = Stopped]
        /\ replica' = [replica EXCEPT ![n] = EmptyReplica]
        /\ log' = Append(log, x)
        /\ UNCHANGED <<dest, session, requests, applied, faults>>
    BY DEF RunForLeader, BecomeFollower
  <1>3. epoch + 1 \in 0 .. MaxEpoch
    BY <1>1, <1>2, ShuffleAssumption
  <1>4. x \in Record /\ x.kind = "announce"
    BY <1>3, FixedValues
  <1> HIDE DEF x
  <1>5. log' \in Seq(Record) /\ LogOK' /\ Produced' = Produced
    BY <1>2, <1>4, RecordAppended
  <1>6. /\ shuffle' \in [Node -> Shuffles] /\ replica' \in [Node -> Leaders]
        /\ campaign' \in [Node -> 0 .. MaxEpoch]
    BY <1>1, <1>2, <1>3, FixedValues
  <1>7. \A m \in Node : m # n => shuffle'[m] = shuffle[m] /\ replica'[m] = replica[m]
    BY <1>1, <1>2
  <1>8. shuffle'[n] = Stopped
    BY <1>1, <1>2
  <1>9. \A m \in Node : Len(shuffle'[m].hints) <= MaxHints
    <2>1. Len(shuffle'[n].hints) <= MaxHints
      BY <1>8, HintsFit
    <2> QED
      BY <1>1, <1>7, <2>1
  <1>10. TypeOK'
    BY <1>1, <1>2, <1>3, <1>5, <1>6, <1>9 DEF TypeOK, Shuffles, Leaders
  <1>11. ASSUME NEW m \in Node PROVE LeaderOK(m)'
    <2>1. CASE m = n
      BY <1>8, <2>1, LeaderStopped
    <2>2. CASE m # n
      BY <1>2, <1>4, <1>7, <2>2, LeaderSame
    <2> QED
      BY <2>1, <2>2
  <1>12. TravelOK' /\ \A t \in Target : AppliedOK(t)'
    BY <1>1, <1>2, <1>5, SameTravel, SameApplied
  <1> QED
    BY <1>5, <1>10, <1>11, <1>12 DEF ShuffleInv

-----------------------------------------------------------------------------
(* A leader and its shuffle *)

LEMMA LeaderStep ==
    ASSUME ShuffleInv, NEW n \in Node, NEW r \in Leaders, NEW s \in Shuffles,
           Len(s.hints) <= MaxHints, LeaderIs(log, dest, applied, r, session[n], s),
           replica' = [replica EXCEPT ![n] = r], shuffle' = [shuffle EXCEPT ![n] = s],
           campaign' \in [Node -> 0 .. MaxEpoch],
           UNCHANGED <<log, dest, epoch, session, requests, applied, faults>>
    PROVE  ShuffleInv'
  <1>1. /\ TypeOK /\ LogOK /\ TravelOK /\ (\A t \in Target : AppliedOK(t))
        /\ replica \in [Node -> Leaders] /\ shuffle \in [Node -> Shuffles]
        /\ \A m \in Node : Len(shuffle[m].hints) <= MaxHints
    BY Shapes DEF ShuffleInv
  <1>2. shuffle' \in [Node -> Shuffles] /\ replica' \in [Node -> Leaders]
    BY <1>1
  <1>3. /\ \A m \in Node : m # n => shuffle'[m] = shuffle[m] /\ replica'[m] = replica[m]
        /\ shuffle'[n] = s /\ replica'[n] = r
    BY <1>1
  <1>4. \A m \in Node : Len(shuffle'[m].hints) <= MaxHints
    BY <1>1, <1>3
  <1>5. TypeOK'
    BY <1>1, <1>2, <1>4 DEF TypeOK, Shuffles, Leaders
  <1>6. ASSUME NEW m \in Node PROVE LeaderOK(m)'
    <2>1. CASE m = n
      BY <1>3, <2>1 DEF LeaderOK
    <2>2. CASE m # n
      BY <1>3, <2>2, LeaderSame
    <2> QED
      BY <2>1, <2>2
  <1>7. LogOK' /\ Produced' = Produced
    BY <1>1, SameLog
  <1>8. TravelOK' /\ \A t \in Target : AppliedOK(t)'
    BY <1>1, <1>7, SameTravel, SameApplied
  <1> QED
    BY <1>5, <1>6, <1>7, <1>8 DEF ShuffleInv

LEMMA OutboxIs ==
    ASSUME log \in Seq(Record), LogOK, NEW r \in Replicas, OutboxOK(log, dest, applied, r)
    PROVE  r \in Leaders /\ r.tail <= Produced
  <1>1. PICK a \in Nat, e \in 0 .. MaxEpoch, h \in Nat, u \in Nat :
            r = [lsn |-> a, epoch |-> e, head |-> h, tail |-> u]
    BY DEF Replicas
  <1>2. r.lsn = a /\ r.epoch = e /\ r.head = h /\ r.tail = u
    BY <1>1
  <1>3. a <= Len(log) /\ u = Enqueued(log, a) /\ h <= u
    BY <1>2 DEF OutboxOK
  <1>4. Len(log) \in Nat /\ a \in 0 .. Len(log)
    BY <1>3
  <1>5. u <= Enqueued(log, Len(log))
    BY <1>3, <1>4, EnqueuedGrows
  <1>6. Produced = Enqueued(log, Len(log)) /\ Produced \in Nat /\ Produced <= MaxMessages
    BY ProducedIs
  <1>7. u \in 0 .. MaxMessages /\ h \in 0 .. MaxMessages /\ u <= Produced
    BY <1>3, <1>5, <1>6, IndexIs
  <1> QED
    BY <1>1, <1>2, <1>7 DEF Leaders

LEMMA LeadersAre == Leaders \subseteq Replicas
  BY IndexIs DEF Leaders, Replicas

LEMMA BecomeLeaderStep ==
    ASSUME ShuffleInv, NEW n \in Node, BecomeLeader(n) PROVE ShuffleInv'
  <1>1. /\ log \in Seq(Record) /\ LogOK /\ campaign \in [Node -> 0 .. MaxEpoch]
        /\ campaign[n] \in 0 .. MaxEpoch
    BY Shapes DEF ShuffleInv
  <1>2. PICK i \in 1 .. Len(log) :
          /\ campaign[n] # 0
          /\ campaign' = [campaign EXCEPT ![n] = 0]
          /\ replica' = [replica EXCEPT ![n] = Replay(i)]
          /\ shuffle' = [shuffle EXCEPT ![n] = Started(campaign[n])]
          /\ UNCHANGED <<log, dest, epoch, session, requests, applied, faults>>
    BY DEF BecomeLeader
  <1>3. i \in 0 .. Len(log)
    OBVIOUS
  <1>4. Replay(i) \in Replicas /\ OutboxOK(log, dest, applied, Replay(i))
    BY <1>1, <1>3, ReplayKeepsOutbox
  <1>5. Replay(i) \in Leaders
    BY <1>1, <1>4, OutboxIs
  <1>6. campaign' \in [Node -> 0 .. MaxEpoch]
    <2>1. 0 \in 0 .. MaxEpoch
      BY ShuffleAssumption
    <2> QED
      BY <1>1, <1>2, <2>1
  <1> DEFINE r == Replay(i)
             e == campaign[n]
  <1>7. Started(e) \in Shuffles /\ Len(Started(e).hints) <= MaxHints
    BY <1>1, FixedValues, EmptyIs, ShuffleAssumption
  <1>8. /\ Started(e).epoch = e /\ Started(e).next = 0 /\ Started(e).hints = <<>>
        /\ Started(e).inflight = <<>> /\ Started(e).committed = {} /\ Started(e).truncation = -1
        /\ Started(e).state = "ReadingOutbox"
    BY DEF Started, Stopped, NONE
  <1>9. r.tail \in Nat /\ e \in Nat /\ e >= 1
    <2>1. r.tail \in Nat
      BY <1>4 DEF Replicas
    <2> QED
      BY <1>1, <1>2, <2>1, ShuffleAssumption
  <1> DEFINE s == Started(e)
  <1> HIDE DEF r, s, e
  <1>10. ScanOK(dest, applied, r, session[n], s)
    <2>1. /\ s.epoch = e /\ s.next = 0 /\ s.hints = <<>> /\ s.inflight = <<>> /\ s.committed = {}
          /\ s.truncation = -1
      BY <1>8 DEF s
    <2>2. Len(s.hints) = 0 /\ Len(s.inflight) = 0
      BY <2>1, EmptyIs
    <2>3. s.epoch >= 1 /\ s.next <= r.tail /\ s.truncation < s.next
      BY <1>9, <2>1
    <2>4. \A k \in 1 .. 0 : FALSE
      OBVIOUS
    <2>5. \A k \in 0 .. s.next - 1 : FALSE
      BY <2>1
    <2>6. DeliveredBelow(dest, applied, s.truncation + 1)
      BY <2>1 DEF DeliveredBelow
    <2> QED
      BY <2>1, <2>2, <2>3, <2>4, <2>5, <2>6 DEF ScanOK
  <1>11. LeaderIs(log, dest, applied, r, session[n], s)
    <2>1. s.state # "Stopped"
      BY <1>8 DEF s
    <2> QED
      BY <1>4, <1>10, <2>1 DEF LeaderIs, r
  <1>12. /\ replica' = [replica EXCEPT ![n] = r] /\ shuffle' = [shuffle EXCEPT ![n] = s]
         /\ r \in Leaders /\ s \in Shuffles /\ Len(s.hints) <= MaxHints
    BY <1>2, <1>5, <1>7 DEF r, s, e
  <1> QED
    BY <1>2, <1>6, <1>11, <1>12, LeaderStep

LEMMA ScanTail ==
    ASSUME NEW d, NEW app, NEW r, NEW r2, r.tail \in Nat, r2.tail \in Nat, r.tail <= r2.tail,
           NEW sess, NEW s \in Shuffles, ScanOK(d, app, r, sess, s)
    PROVE  ScanOK(d, app, r2, sess, s)
  <1>1. s.next \in Nat /\ s.next <= r.tail
    BY ShuffleIs DEF ScanOK
  <1>2. s.next <= r2.tail
    BY <1>1
  <1>3. ASSUME NEW k \in 1 .. Len(s.hints) PROVE s.hints[k] < r2.tail
    <2>1. s.hints[k] \in Index
      BY ShuffleIs, RangeIn
    <2>2. s.hints[k] \in Nat /\ s.hints[k] < r.tail
      BY <2>1, IndexIs DEF ScanOK
    <2> QED
      BY <2>2
  <1> QED
    BY <1>2, <1>3 DEF ScanOK

LEMMA ScanHints ==
    ASSUME NEW d, NEW app, NEW r, NEW sess, NEW s \in Shuffles, ScanOK(d, app, r, sess, s),
           NEW q \in Seq(Index), \A k \in 1 .. Len(q) : q[k] < r.tail
    PROVE  /\ [s EXCEPT !.hints = q] \in Shuffles
           /\ ScanOK(d, app, r, sess, [s EXCEPT !.hints = q])
  <1> DEFINE u == [s EXCEPT !.hints = q]
  <1>1. u \in Shuffles
    BY DEF Shuffles
  <1>2. /\ u.epoch = s.epoch /\ u.next = s.next /\ u.hints = q /\ u.inflight = s.inflight
        /\ u.committed = s.committed /\ u.truncation = s.truncation
    BY DEF Shuffles
  <1> HIDE DEF u
  <1>3. ScanOK(d, app, r, sess, u)
    BY <1>2 DEF ScanOK
  <1> QED
    BY <1>1, <1>3 DEF u

LEMMA ApplyStep == ASSUME ShuffleInv, NEW n \in Node, Apply(n) PROVE ShuffleInv'
  <1> DEFINE r == replica[n]
             s == shuffle[n]
             x == log[r.lsn + 1]
  <1>1. /\ log \in Seq(Record) /\ LogOK /\ r \in Leaders /\ s \in Shuffles
        /\ Len(s.hints) <= MaxHints /\ campaign \in [Node -> 0 .. MaxEpoch]
        /\ replica \in [Node -> Leaders] /\ shuffle \in [Node -> Shuffles]
    BY Shapes DEF ShuffleInv
  <1>2. /\ s.state # "Stopped" /\ r.lsn < Len(log)
        /\ UNCHANGED <<log, dest, epoch, campaign, session, requests, applied, faults>>
    BY DEF Apply
  <1>3. OutboxOK(log, dest, applied, r) /\ ScanOK(dest, applied, r, session[n], s)
    BY <1>2 DEF ShuffleInv, LeaderOK, LeaderIs
  <1>4. CASE x.kind = "announce" /\ BecomeFollower(n)
    <2>1. /\ shuffle' = [shuffle EXCEPT ![n] = Stopped]
          /\ replica' = [replica EXCEPT ![n] = EmptyReplica]
      BY <1>4 DEF BecomeFollower
    <2>2. LeaderIs(log, dest, applied, EmptyReplica, session[n], Stopped)
      BY FixedValues DEF LeaderIs
    <2>3. Len(Stopped.hints) <= MaxHints
      BY FixedValues, EmptyIs, ShuffleAssumption
    <2> QED
      BY <1>1, <1>2, <2>1, <2>2, <2>3, FixedValues, LeaderStep
  <1>5. CASE /\ x.kind # "announce"
             /\ replica' = [replica EXCEPT ![n] = ApplyRecord(@, x)]
             /\ shuffle' = IF x.kind = "enqueue"
                           THEN [shuffle EXCEPT ![n] = SendHint(@, r.tail)] ELSE shuffle
    <2> DEFINE r2 == ApplyRecord(r, x)
    <2>1. r \in Replicas /\ r.lsn + 1 \in 1 .. Len(log) /\ r.tail \in Nat
      <3>1. r \in Replicas /\ r.lsn \in Nat /\ r.tail \in Nat
        BY <1>1, LeadersAre DEF Replicas
      <3> QED
        BY <1>1, <1>2, <3>1
    <2>2. x \in Record
      BY <1>1, <2>1, RangeIn
    <2>3. r2 \in Replicas /\ r2.tail = IF x.kind = "enqueue" THEN r.tail + 1 ELSE r.tail
      BY <2>1, <2>2, ApplyIs
    <2>4. OutboxOK(log, dest, applied, r2)
      BY <1>1, <1>2, <1>3, <2>1, ApplyKeepsOutbox
    <2>5. r2 \in Leaders /\ r2.tail <= Produced
      BY <1>1, <2>3, <2>4, OutboxIs
    <2>6. replica' = [replica EXCEPT ![n] = r2]
      BY <1>1, <1>5
    <2> HIDE DEF r2
    <2>7. r2.tail \in Nat /\ r.tail <= r2.tail
      BY <2>1, <2>3
    <2>8. ScanOK(dest, applied, r2, session[n], s)
      BY <1>1, <1>3, <2>1, <2>7, ScanTail
    <2>9. CASE x.kind # "enqueue"
      <3>1. shuffle' = [shuffle EXCEPT ![n] = s]
        BY <1>1, <1>5, <2>9
      <3>2. LeaderIs(log, dest, applied, r2, session[n], s)
        BY <1>2, <2>4, <2>8 DEF LeaderIs
      <3> HIDE DEF r, s, x
      <3> QED
        BY <1>1, <1>2, <2>5, <2>6, <3>1, <3>2, LeaderStep
    <2>10. CASE x.kind = "enqueue"
      <3> DEFINE h == IF Len(s.hints) < MaxHints THEN s.hints ELSE Tail(s.hints)
                 q == Append(h, r.tail)
                 u == [s EXCEPT !.hints = q]
      <3>1. shuffle' = [shuffle EXCEPT ![n] = u]
        BY <1>1, <1>5, <2>10 DEF SendHint
      <3>2. r.tail \in Index /\ r.tail < r2.tail
        <4>1. r.tail < r2.tail /\ r2.tail <= MaxMessages
          <5>1. Produced \in Nat /\ Produced <= MaxMessages
            BY <1>1, ProducedIs
          <5> QED
            BY <2>1, <2>3, <2>5, <2>7, <2>10, <5>1, IndexIs
        <4>2. r.tail < MaxMessages
          BY <2>1, <2>7, <4>1, IndexIs
        <4> QED
          BY <2>1, <4>1, <4>2, IndexIs
      <3>3. /\ s.hints \in Seq(Index) /\ Len(s.hints) \in Nat
            /\ \A k \in 1 .. Len(s.hints) : s.hints[k] < r2.tail
        BY <1>1, <2>8, ShuffleIs, RangeIn DEF ScanOK
      <3>4. MaxHints \in Nat /\ MaxHints # 0
        BY ShuffleAssumption
      <3>5. /\ h \in Seq(Index) /\ Len(h) \in Nat /\ Len(h) + 1 <= MaxHints
            /\ \A k \in 1 .. Len(h) : h[k] < r2.tail
        <4>1. CASE Len(s.hints) < MaxHints
          BY <3>3, <3>4, <4>1
        <4>2. CASE ~(Len(s.hints) < MaxHints)
          <5>1. Len(s.hints) = MaxHints /\ s.hints # <<>>
            BY <1>1, <3>3, <3>4, <4>2, EmptyIs
          <5>2. /\ Tail(s.hints) \in Seq(Index) /\ Len(Tail(s.hints)) = Len(s.hints) - 1
                /\ \A k \in 1 .. Len(s.hints) - 1 : Tail(s.hints)[k] = s.hints[k + 1]
            BY <3>3, <5>1, TailIs
          <5>3. \A k \in 1 .. Len(s.hints) - 1 : k + 1 \in 1 .. Len(s.hints)
            BY <3>3
          <5>4. h = Tail(s.hints) /\ Len(h) \in Nat /\ Len(h) + 1 <= MaxHints
            BY <3>4, <4>2, <5>1, <5>2
          <5> QED
            BY <3>3, <5>2, <5>3, <5>4
        <4> QED
          BY <4>1, <4>2
      <3> HIDE DEF h
      <3>6. /\ q \in Seq(Index) /\ Len(q) = Len(h) + 1
            /\ \A k \in 1 .. Len(h) : q[k] = h[k]
            /\ q[Len(h) + 1] = r.tail
        BY <3>2, <3>5, AppendIs
      <3> HIDE DEF q
      <3>7. ASSUME NEW k \in 1 .. Len(q) PROVE q[k] < r2.tail
        <4>1. k \in 1 .. Len(h) \/ k = Len(h) + 1
          BY <3>5, <3>6
        <4> QED
          BY <3>2, <3>5, <3>6, <4>1
      <3>8. u \in Shuffles /\ ScanOK(dest, applied, r2, session[n], u)
        BY <1>1, <2>8, <3>6, <3>7, ScanHints
      <3>9. u.hints = q /\ u.state = s.state
        BY <1>1 DEF Shuffles
      <3> HIDE DEF u, r, s, x
      <3>10. LeaderIs(log, dest, applied, r2, session[n], u)
        BY <1>2, <2>4, <3>8, <3>9 DEF LeaderIs
      <3>11. Len(u.hints) <= MaxHints
        BY <3>5, <3>6, <3>9
      <3> QED
        BY <1>1, <1>2, <2>5, <2>6, <3>1, <3>8, <3>10, <3>11, LeaderStep
    <2> QED
      BY <2>9, <2>10
  <1> QED
    BY <1>4, <1>5 DEF Apply

LEMMA RemoveOldest ==
    ASSUME NEW S, NEW q \in Seq(S), q # <<>>
    PROVE  RemoveAt(q, 1) = Tail(q)
  <1>1. Len(q) \in Nat /\ Len(q) >= 1
    BY EmptyIs
  <1>2. PICK k \in 1 .. Len(q) : k = 1
    BY <1>1
  <1> DEFINE a == SubSeq(q, 1, k - 1)
             b == SubSeq(q, k + 1, Len(q))
  <1>3. a = <<>>
    BY <1>2
  <1>4. b \in Seq(S) /\ Len(b) = Len(q) - k /\ \A i \in 1 .. Len(q) - k : b[i] = q[i + k]
    BY SplitIs
  <1>5. /\ Tail(q) \in Seq(S) /\ Len(Tail(q)) = Len(q) - 1
        /\ \A i \in 1 .. Len(q) - 1 : Tail(q)[i] = q[i + 1]
    BY TailIs
  <1>6. RemoveAt(q, k) = a \o b
    BY DEF RemoveAt
  <1> HIDE DEF b
  <1>7. b = Tail(q)
    <2>1. Len(b) = Len(Tail(q)) /\ \A i \in 1 .. Len(b) : b[i] = Tail(q)[i]
      BY <1>2, <1>4, <1>5
    <2> QED
      BY <1>4, <1>5, <2>1, SameSeq
  <1>8. a \o b = b
    <2> DEFINE c == a \o b
    <2>1. a \in Seq(S) /\ Len(a) = 0
      BY <1>3, EmptyIs
    <2> HIDE DEF a
    <2>2. c \in Seq(S) /\ Len(c) = Len(b) /\ \A i \in 1 .. Len(b) : c[i] = b[i]
      BY <1>4, <2>1
    <2> HIDE DEF c
    <2>3. c = b
      BY <1>4, <2>2, SameSeq
    <2> QED
      BY <2>3 DEF c
  <1> QED
    BY <1>2, <1>6, <1>7, <1>8

\* the first message in flight is committed
LEMMA CommitKeeps ==
    ASSUME NEW d, NEW app, NEW r, NEW sess, NEW s \in Shuffles, ScanOK(d, app, r, sess, s),
           s.inflight # <<>>, NEW i, i = s.inflight[1], i \in s.committed,
           NEW u \in Shuffles, u.epoch = s.epoch, u.next = s.next, u.hints = s.hints,
           u.inflight = Tail(s.inflight), u.committed = s.committed \ {i},
           u.truncation = IF i > s.truncation THEN i ELSE s.truncation
    PROVE  ScanOK(d, app, r, sess, u)
  <1> DEFINE q == s.inflight
             a == Tail(q)
  <1>1. /\ s.next \in Nat /\ q \in Seq(Index) /\ s.truncation \in Int
    BY ShuffleIs
  <1>2. /\ a \in Seq(Index) /\ Len(a) = Len(q) - 1 /\ Len(q) \in Nat /\ 1 \in 1 .. Len(q)
        /\ \A k \in 1 .. Len(q) - 1 : a[k] = q[k + 1]
        /\ Range(q) = Range(a) \cup {i}
    BY <1>1, TailIs
  <1>3. \A k \in 1 .. Len(q) : q[k] < s.next /\ \A l \in k + 1 .. Len(q) : q[k] < q[l]
    BY DEF ScanOK
  <1>4. /\ \A k \in 1 .. Len(q) : q[k] \in Nat
        /\ i \in Nat /\ i < s.next
    <2>1. \A k \in 1 .. Len(q) : q[k] \in Nat
      BY <1>1, RangeIn, IndexIs
    <2> QED
      BY <1>2, <1>3, <2>1
  <1>5. i \in Range(app[d[i]])
    BY DEF ScanOK
  <1>6. \A j \in 0 .. s.next - 1 :
          j \in Range(app[d[j]]) \/ (j \in Range(q) /\ j \in Held(sess[d[j]]))
    BY DEF ScanOK
  <1> HIDE DEF a, q
  <1>7. ASSUME NEW k \in 1 .. Len(a)
        PROVE  a[k] < s.next /\ \A l \in k + 1 .. Len(a) : a[k] < a[l]
    <2>1. k + 1 \in 1 .. Len(q) /\ k \in 1 .. Len(q) - 1
      BY <1>2
    <2>2. a[k] = q[k + 1]
      BY <1>2, <2>1
    <2>3. ASSUME NEW l \in k + 1 .. Len(a) PROVE a[k] < a[l]
      <3>1. l + 1 \in (k + 1) + 1 .. Len(q) /\ l \in 1 .. Len(q) - 1
        BY <1>2
      <3>2. a[l] = q[l + 1]
        BY <1>2, <3>1
      <3> QED
        BY <1>3, <2>1, <2>2, <3>1, <3>2
    <2> QED
      BY <1>3, <2>1, <2>2, <2>3
  <1>8. ASSUME NEW j \in 0 .. s.next - 1
        PROVE  j \in Range(app[d[j]]) \/ (j \in Range(a) /\ j \in Held(sess[d[j]]))
    BY <1>2, <1>5, <1>6
  <1>9. DeliveredBelow(d, app, i + 1)
    <2> SUFFICES ASSUME NEW j \in 0 .. (i + 1) - 1 PROVE j \in Range(app[d[j]])
      BY DEF DeliveredBelow
    <2>1. CASE j = i
      BY <1>5, <2>1
    <2>2. CASE j # i
      <3>1. j \in 0 .. s.next - 1 /\ j \in Nat /\ j < i
        BY <1>1, <1>4, <2>2
      <3>2. ASSUME j \in Range(q) PROVE FALSE
        <4>1. PICK k \in 1 .. Len(q) : q[k] = j
          BY <1>1, <3>2, RangeIn DEF q
        <4>2. CASE k = 1
          BY <2>2, <4>1, <4>2 DEF q
        <4>3. CASE k # 1
          <5>1. k \in 1 + 1 .. Len(q)
            BY <1>2, <4>3
          <5>2. q[1] < q[k]
            BY <1>2, <1>3, <5>1
          <5>3. i < j
            BY <4>1, <5>2 DEF q
          <5> QED
            BY <1>4, <3>1, <5>3
        <4> QED
          BY <4>2, <4>3
      <3> QED
        BY <1>6, <3>1, <3>2
    <2> QED
      BY <2>1, <2>2
  <1>10. u.truncation < u.next /\ DeliveredBelow(d, app, u.truncation + 1)
    <2>1. s.truncation < s.next /\ DeliveredBelow(d, app, s.truncation + 1)
      BY DEF ScanOK
    <2> QED
      BY <1>4, <1>9, <2>1
  <1>11. \A k \in u.committed : k \in Range(app[d[k]])
    BY DEF ScanOK
  <1>12. u.inflight = a
    BY DEF a, q
  <1>13. u.epoch >= 1 /\ u.next <= r.tail /\ \A k \in 1 .. Len(u.hints) : u.hints[k] < r.tail
    BY DEF ScanOK
  <1> QED
    BY <1>7, <1>8, <1>10, <1>11, <1>12, <1>13 DEF ScanOK

LEMMA OnCommittedStep ==
    ASSUME ShuffleInv, NEW n \in Node, OnCommitted(n) PROVE ShuffleInv'
  <1> DEFINE r == replica[n]
             s == shuffle[n]
  <1>1. /\ log \in Seq(Record) /\ LogOK /\ r \in Leaders /\ s \in Shuffles
        /\ Len(s.hints) <= MaxHints /\ campaign \in [Node -> 0 .. MaxEpoch]
        /\ replica \in [Node -> Leaders] /\ shuffle \in [Node -> Shuffles]
    BY Shapes DEF ShuffleInv
  <1>2. PICK k \in Committable(s) :
          LET i == s.inflight[k] IN
          /\ shuffle' = [shuffle EXCEPT
                 ![n].inflight = RemoveAt(@, k),
                 ![n].committed = @ \ {i},
                 ![n].truncation = IF i > @ THEN i ELSE @,
                 ![n].changed = @ \/ i > shuffle[n].truncation]
          /\ UNCHANGED <<log, dest, epoch, campaign, replica, session, requests, applied, faults>>
    BY DEF OnCommitted
  <1>3. k = 1 /\ k \in 1 .. Len(s.inflight) /\ s.inflight[1] \in s.committed
    BY DEF Committable
  <1> DEFINE i == s.inflight[1]
             u == [s EXCEPT !.inflight = Tail(@), !.committed = @ \ {i},
                            !.truncation = IF i > @ THEN i ELSE @,
                            !.changed = @ \/ i > s.truncation]
  <1>4. s.inflight \in Seq(Index) /\ s.inflight # <<>>
    BY <1>1, <1>3, ShuffleIs, EmptyIs
  <1>5. s.state # "Stopped"
    BY <1>4, FixedValues DEF ShuffleInv, LeaderOK, LeaderIs
  <1>6. OutboxOK(log, dest, applied, r) /\ ScanOK(dest, applied, r, session[n], s)
    BY <1>5 DEF ShuffleInv, LeaderOK, LeaderIs
  <1>7. RemoveAt(s.inflight, 1) = Tail(s.inflight) /\ Tail(s.inflight) \in Seq(Index)
    BY <1>4, RemoveOldest, TailIs
  <1>8. shuffle' = [shuffle EXCEPT ![n] = u]
    BY <1>1, <1>2, <1>3, <1>7
  <1>9. /\ u.epoch = s.epoch /\ u.state = s.state /\ u.next = s.next /\ u.hints = s.hints
        /\ u.inflight = Tail(s.inflight) /\ u.committed = s.committed \ {i}
        /\ u.truncation = IF i > s.truncation THEN i ELSE s.truncation
    BY <1>1 DEF Shuffles
  <1>10. i \in NONE .. MaxMessages - 1
    <2>1. i \in Index
      BY <1>3, <1>4, RangeIn
    <2> QED
      BY <2>1, ShuffleAssumption DEF Index, NONE
  <1>11. u \in Shuffles
    BY <1>1, <1>7, <1>10 DEF Shuffles
  <1> HIDE DEF u, i
  <1>12. i = s.inflight[1]
    BY DEF i
  <1> HIDE DEF r, s
  <1>13. ScanOK(dest, applied, r, session[n], u)
    BY <1>1, <1>3, <1>4, <1>6, <1>9, <1>11, <1>12, CommitKeeps
  <1>14. LeaderIs(log, dest, applied, r, session[n], u)
    BY <1>5, <1>6, <1>9, <1>13 DEF LeaderIs
  <1>15. replica' = [replica EXCEPT ![n] = r]
    BY <1>1, <1>2 DEF r
  <1>16. UNCHANGED <<log, dest, epoch, campaign, session, requests, applied, faults>>
    BY <1>2
  <1> QED
    BY <1>1, <1>8, <1>9, <1>11, <1>14, <1>15, <1>16, LeaderStep

LEMMA ProposeTruncationStep ==
    ASSUME ShuffleInv, NEW n \in Node, ProposeTruncation(n) PROVE ShuffleInv'
  <1> DEFINE r == replica[n]
             s == shuffle[n]
             x == [kind |-> "truncate", epoch |-> s.epoch, index |-> s.truncation]
             u == [s EXCEPT !.changed = FALSE]
  <1>1. /\ TypeOK /\ LogOK /\ TravelOK /\ (\A t \in Target : AppliedOK(t))
        /\ log \in Seq(Record) /\ r \in Leaders /\ s \in Shuffles
        /\ replica \in [Node -> Leaders] /\ shuffle \in [Node -> Shuffles]
        /\ \A m \in Node : Len(shuffle[m].hints) <= MaxHints
    BY Shapes DEF ShuffleInv
  <1>2. /\ s.changed /\ log' = Append(log, x)
        /\ shuffle' = [shuffle EXCEPT ![n].changed = FALSE]
        /\ UNCHANGED <<dest, epoch, campaign, replica, session, requests, applied, faults>>
    BY DEF ProposeTruncation
  <1>3. s.state # "Stopped"
    BY <1>2, FixedValues DEF ShuffleInv, LeaderOK, LeaderIs
  <1>4. OutboxOK(log, dest, applied, r) /\ ScanOK(dest, applied, r, session[n], s)
    BY <1>3 DEF ShuffleInv, LeaderOK, LeaderIs
  <1>5. x \in Record /\ x.kind = "truncate" /\ x.index = s.truncation
    BY <1>1 DEF Shuffles, Record
  <1>6. u \in Shuffles /\ u.state = s.state /\ u.hints = s.hints
    BY <1>1 DEF Shuffles
  <1>7. ScanOK(dest, applied, r, session[n], u)
    <2>1. /\ u.epoch = s.epoch /\ u.next = s.next /\ u.hints = s.hints /\ u.inflight = s.inflight
          /\ u.committed = s.committed /\ u.truncation = s.truncation
      BY <1>1 DEF Shuffles
    <2> HIDE DEF u, s, r
    <2> QED
      BY <1>4, <2>1 DEF ScanOK
  <1>8. shuffle' = [shuffle EXCEPT ![n] = u]
    BY <1>1, <1>2
  <1> HIDE DEF x, u
  <1>9. s.truncation < Produced /\ DeliveredBelow(dest, applied, s.truncation + 1)
    <2>1. r.tail <= Produced /\ r.tail \in Nat
      BY <1>1, <1>4, OutboxIs, LeadersAre DEF Replicas
    <2>2. s.truncation < s.next /\ s.next <= r.tail
      BY <1>4 DEF ScanOK
    <2>3. s.truncation \in Int /\ s.next \in Nat
      BY <1>1, ShuffleIs
    <2>4. Produced \in Nat
      BY <1>1, ProducedIs
    <2>5. DeliveredBelow(dest, applied, s.truncation + 1)
      BY <1>4 DEF ScanOK
    <2> QED
      BY <2>1, <2>2, <2>3, <2>4, <2>5
  <1>10. log' \in Seq(Record) /\ LogOK' /\ Produced' = Produced
    BY <1>2, <1>5, <1>9, RecordAppended
  <1>11. shuffle' \in [Node -> Shuffles]
    BY <1>1, <1>6, <1>8
  <1>12. /\ \A m \in Node : m # n => shuffle'[m] = shuffle[m]
         /\ shuffle'[n] = u
    BY <1>1, <1>8
  <1>13. \A m \in Node : Len(shuffle'[m].hints) <= MaxHints
    BY <1>1, <1>6, <1>12
  <1>14. TypeOK'
    BY <1>1, <1>2, <1>10, <1>11, <1>13 DEF TypeOK, Shuffles
  <1>15. ASSUME NEW m \in Node PROVE LeaderOK(m)'
    <2>1. CASE m = n
      <3>1. LeaderIs(log, dest, applied, r, session[n], u)
        BY <1>3, <1>4, <1>6, <1>7 DEF LeaderIs
      <3>2. LeaderIs(log', dest, applied, r, session[n], u)
        BY <1>1, <1>2, <1>5, <3>1, LeaderAppend
      <3> QED
        BY <1>2, <1>12, <2>1, <3>2 DEF LeaderOK
    <2>2. CASE m # n
      BY <1>2, <1>5, <1>12, <2>2, LeaderSame
    <2> QED
      BY <2>1, <2>2
  <1>16. TravelOK' /\ \A t \in Target : AppliedOK(t)'
    BY <1>1, <1>2, <1>10, SameTravel, SameApplied
  <1> QED
    BY <1>10, <1>14, <1>15, <1>16 DEF ShuffleInv

\* a message is ingested when all before it are on their way or applied
LEMMA IngestScan ==
    ASSUME NEW d, NEW app, NEW r, r.tail \in Nat, NEW sess, NEW sess2,
           NEW s \in Shuffles, ScanOK(d, app, r, sess, s),
           NEW i \in Index, s.next <= i, i < r.tail,
           \A j \in s.next .. i - 1 : j \in Range(app[d[j]]),
           \A j \in 0 .. i : Held(sess[d[j]]) \subseteq Held(sess2[d[j]]),
           i \in Held(sess2[d[i]]),
           NEW u \in Shuffles, u.epoch = s.epoch, u.next = i + 1, u.hints = s.hints,
           u.inflight = Append(s.inflight, i), u.committed = s.committed,
           u.truncation = s.truncation
    PROVE  ScanOK(d, app, r, sess2, u)
  <1> DEFINE q == s.inflight
             a == Append(q, i)
  <1>1. /\ s.next \in Nat /\ q \in Seq(Index) /\ s.truncation \in Int /\ i \in Nat
        /\ Len(q) \in Nat
    BY ShuffleIs, IndexIs
  <1>2. /\ a \in Seq(Index) /\ Len(a) = Len(q) + 1
        /\ \A k \in 1 .. Len(q) : a[k] = q[k]
        /\ a[Len(q) + 1] = i
        /\ Range(a) = Range(q) \cup {i}
    BY <1>1, AppendIs
  <1>3. \A k \in 1 .. Len(q) : q[k] < s.next /\ \A l \in k + 1 .. Len(q) : q[k] < q[l]
    BY DEF ScanOK
  <1>4. \A k \in 1 .. Len(q) : q[k] \in Nat
    BY <1>1, RangeIn, IndexIs
  <1>5. \A j \in 0 .. s.next - 1 :
          j \in Range(app[d[j]]) \/ (j \in Range(q) /\ j \in Held(sess[d[j]]))
    BY DEF ScanOK
  <1> HIDE DEF a, q
  <1>6. \A k \in 1 .. Len(q) : q[k] < i
    <2> SUFFICES ASSUME NEW k \in 1 .. Len(q) PROVE q[k] < i
      OBVIOUS
    <2>1. q[k] \in Nat /\ q[k] < s.next
      BY <1>3, <1>4
    <2> QED
      BY <1>1, <2>1
  <1>7. ASSUME NEW k \in 1 .. Len(a)
        PROVE  a[k] < i + 1 /\ \A l \in k + 1 .. Len(a) : a[k] < a[l]
    <2>1. CASE k = Len(q) + 1
      <3>1. a[k] = i /\ \A l \in k + 1 .. Len(a) : FALSE
        BY <1>1, <1>2, <2>1
      <3> QED
        BY <1>1, <3>1
    <2>2. CASE k \in 1 .. Len(q)
      <3>1. a[k] = q[k] /\ q[k] < i /\ q[k] \in Nat
        BY <1>2, <1>4, <1>6, <2>2
      <3>2. a[k] < i + 1
        BY <1>1, <3>1
      <3>3. ASSUME NEW l \in k + 1 .. Len(a) PROVE a[k] < a[l]
        <4>1. (l \in k + 1 .. Len(q) /\ l \in 1 .. Len(q)) \/ l = Len(q) + 1
          BY <1>1, <1>2, <2>2
        <4> QED
          BY <1>2, <1>3, <2>2, <3>1, <4>1
      <3> QED
        BY <3>2, <3>3
    <2>3. k = Len(q) + 1 \/ k \in 1 .. Len(q)
      BY <1>1, <1>2
    <2> QED
      BY <2>1, <2>2, <2>3
  <1>8. ASSUME NEW j \in 0 .. (i + 1) - 1
        PROVE  j \in Range(app[d[j]]) \/ (j \in Range(a) /\ j \in Held(sess2[d[j]]))
    <2>1. j \in 0 .. i /\ (j \in 0 .. s.next - 1 \/ j \in s.next .. i - 1 \/ j = i)
      BY <1>1
    <2>2. CASE j \in 0 .. s.next - 1
      BY <1>2, <1>5, <2>1, <2>2
    <2>3. CASE j \in s.next .. i - 1
      BY <2>3
    <2>4. CASE j = i
      BY <1>2, <2>4
    <2> QED
      BY <2>1, <2>2, <2>3, <2>4
  <1>9. s.truncation < s.next /\ DeliveredBelow(d, app, s.truncation + 1)
    BY DEF ScanOK
  <1>10. u.truncation < u.next /\ u.next <= r.tail
    BY <1>1, <1>9
  <1>11. /\ u.epoch >= 1 /\ \A k \in 1 .. Len(u.hints) : u.hints[k] < r.tail
         /\ \A k \in u.committed : k \in Range(app[d[k]])
    BY DEF ScanOK
  <1>12. u.inflight = a
    BY DEF a, q
  <1> QED
    BY <1>7, <1>8, <1>9, <1>10, <1>11, <1>12 DEF ScanOK

LEMMA IngestSession ==
    ASSUME NEW d, NEW p \in Nat, NEW f, NEW t, NEW E, NEW s \in Sessions,
           SessionOK(d, p, f, t, E, s), NEW x \in Token, d[x.sn] = t, x.sn < p,
           \A j \in 0 .. x.sn - 1 : d[j] = t => j \in E \cup Held(s),
           NEW w, w = [s EXCEPT !.queue = Append(@, x)]
    PROVE  /\ w \in Sessions /\ SessionOK(d, p, f, t, E, w)
           /\ w.attempt = s.attempt /\ w.state = s.state /\ w.batch = s.batch
           /\ Held(w) = Held(s) \cup {x.sn}
  <1>1. /\ s.queue \in Seq(Token) /\ SnsOf(s.queue) \in Seq(Index) /\ SnsOf(s.queue) \in Seq(Nat)
        /\ Append(s.queue, x) \in Seq(Token)
    BY SessionIs, AppendIs
  <1>2. /\ w \in Sessions /\ w.attempt = s.attempt /\ w.state = s.state /\ w.batch = s.batch
        /\ w.queue = Append(s.queue, x)
    BY <1>1 DEF Sessions
  <1>3. SnsOf(w.queue) = Append(SnsOf(s.queue), x.sn)
    BY <1>1, <1>2, SnsOfAppend
  <1>4. x.sn \in Index /\ x.sn \in Nat
    BY IndexIs DEF Token
  <1>5. Range(SnsOf(w.queue)) = Range(SnsOf(s.queue)) \cup {x.sn}
    <2> DEFINE q == SnsOf(s.queue)
               i == x.sn
    <2>1. q \in Seq(Index) /\ i \in Index /\ SnsOf(w.queue) = Append(q, i)
      BY <1>1, <1>3, <1>4
    <2> HIDE DEF q, i
    <2>2. Range(Append(q, i)) = Range(q) \cup {i}
      BY <2>1, AppendIs
    <2> QED
      BY <2>1, <2>2 DEF q, i
  <1>6. Batch(w) = Batch(s)
    BY <1>2 DEF Batch
  <1>7. Held(w) = Held(s) \cup {x.sn}
    BY <1>5, <1>6 DEF Held
  <1>8. /\ s.attempt <= f /\ Follows(d, p, t, E, SnsOf(s.batch))
        /\ Follows(d, p, t, E \cup Batch(s), SnsOf(s.queue))
    BY DEF SessionOK
  <1>9. \A j \in 0 .. x.sn - 1 : d[j] = t => j \in E \cup Batch(s) \/ j \in Range(SnsOf(s.queue))
    BY DEF Held
  <1> DEFINE i == x.sn
             F == E \cup Batch(s)
             q == SnsOf(s.queue)
  <1>10. /\ i \in Nat /\ d[i] = t /\ i < p /\ q \in Seq(Nat) /\ Follows(d, p, t, F, q)
         /\ \A j \in 0 .. i - 1 : d[j] = t => j \in F \/ j \in Range(q)
    BY <1>1, <1>4, <1>8, <1>9
  <1> HIDE DEF i, F, q
  <1>11. Follows(d, p, t, F, Append(q, i))
    BY <1>10, FollowsAppend
  <1>12. Follows(d, p, t, E \cup Batch(w), SnsOf(w.queue))
    BY <1>3, <1>6, <1>11 DEF i, F, q
  <1>13. SessionOK(d, p, f, t, E, w)
    BY <1>2, <1>8, <1>12 DEF SessionOK
  <1> QED
    BY <1>2, <1>7, <1>13

LEMMA IngestStep ==
    ASSUME ShuffleInv, NEW n \in Node, NEW s \in Shuffles, Len(s.hints) <= MaxHints,
           OutboxOK(log, dest, applied, replica[n]),
           ScanOK(dest, applied, replica[n], session[n], s),
           NEW i \in Nat, s.next <= i, i < replica[n].tail,
           \A j \in s.next .. i - 1 : j \in Range(applied[dest[j]]),
           Ingest(n, s, i),
           UNCHANGED <<log, dest, epoch, campaign, replica, requests, applied, faults>>
    PROVE  ShuffleInv'
  <1> DEFINE r == replica[n]
             t == dest[i]
             v == session[n][t]
             x == [sn |-> i, epoch |-> s.epoch]
             w == [v EXCEPT !.queue = Append(@, x)]
             u == [s EXCEPT !.inflight = Append(@, i), !.next = i + 1, !.state = "ReadingOutbox"]
  <1>1. /\ TypeOK /\ LogOK /\ TravelOK /\ (\A m \in Target : AppliedOK(m))
        /\ log \in Seq(Record) /\ dest \in [Index -> Target]
        /\ replica \in [Node -> Leaders] /\ shuffle \in [Node -> Shuffles]
        /\ session \in [Node -> [Target -> Sessions]]
        /\ requests \subseteq Requests /\ r \in Leaders
        /\ \A m \in Node : Len(shuffle[m].hints) <= MaxHints
    BY Shapes DEF ShuffleInv
  <1>2. Produced \in Nat /\ Produced <= MaxMessages
    BY <1>1, ProducedIs
  <1>3. r.tail \in Nat /\ r.tail <= Produced
    BY <1>1, OutboxIs, LeadersAre DEF Replicas
  <1>4. i < Produced /\ i \in Index
    <2>1. i < Produced /\ i < MaxMessages
      BY <1>2, <1>3, IndexIs
    <2> QED
      BY <2>1, IndexIs
  <1>5. t \in Target /\ v \in Sessions
    BY <1>1, <1>4
  <1>6. x \in Token /\ x.sn = i
    <2>1. s.epoch \in 0 .. MaxEpoch /\ s.epoch >= 1
      BY ShuffleIs DEF ScanOK
    <2>2. s.epoch \in 1 .. MaxEpoch
      BY <2>1, ShuffleAssumption
    <2> QED
      BY <1>4, <2>2 DEF Token
  <1>7. /\ session' = [session EXCEPT ![n][t].queue = Append(@, x)]
        /\ shuffle' = [shuffle EXCEPT ![n] = u]
    BY DEF Ingest
  <1>8. /\ session'[n][t] = w
        /\ \A m \in Target : m # t => session'[n][m] = session[n][m]
        /\ \A m \in Node : m # n => session'[m] = session[m]
    BY <1>1, <1>5, <1>7
  <1>9. SessionOK(dest, Produced, faults, t, Range(applied[t]), v)
    BY <1>1, <1>5 DEF TravelOK
  <1>10. ASSUME NEW j \in 0 .. i - 1, dest[j] = t PROVE j \in Range(applied[t]) \cup Held(v)
    <2>1. j \in 0 .. s.next - 1 \/ j \in s.next .. i - 1
      BY ShuffleIs
    <2>2. \A l \in 0 .. s.next - 1 :
            l \in Range(applied[dest[l]]) \/ l \in Held(session[n][dest[l]])
      BY DEF ScanOK
    <2> QED
      BY <1>10, <2>1, <2>2
  <1> HIDE DEF x, v, t
  <1>11. /\ w \in Sessions /\ SessionOK(dest, Produced, faults, t, Range(applied[t]), w)
         /\ w.attempt = v.attempt /\ w.state = v.state /\ w.batch = v.batch
         /\ Held(w) = Held(v) \cup {i}
    <2>1. dest[x.sn] = t /\ x.sn < Produced
      BY <1>4, <1>6 DEF t
    <2>2. \A j \in 0 .. x.sn - 1 : dest[j] = t => j \in Range(applied[t]) \cup Held(v)
      BY <1>6, <1>10
    <2> HIDE DEF w
    <2>3. w = [v EXCEPT !.queue = Append(@, x)]
      BY DEF w
    <2> DEFINE E == Range(applied[t])
               p == Produced
    <2>4. /\ p \in Nat /\ v \in Sessions /\ x \in Token
          /\ SessionOK(dest, p, faults, t, E, v) /\ dest[x.sn] = t /\ x.sn < p
      BY <1>2, <1>5, <1>6, <1>9, <2>1
    <2>5. \A j \in 0 .. x.sn - 1 : dest[j] = t => j \in E \cup Held(v)
      BY <2>2
    <2> HIDE DEF E, p
    <2>6. /\ w \in Sessions /\ SessionOK(dest, p, faults, t, E, w)
          /\ w.attempt = v.attempt /\ w.state = v.state /\ w.batch = v.batch
          /\ Held(w) = Held(v) \cup {x.sn}
      BY <2>3, <2>4, <2>5, IngestSession
    <2> QED
      BY <1>6, <2>6 DEF E, p
  <1> HIDE DEF w
  <1>12. session' \in [Node -> [Target -> Sessions]]
    <2>1. session' = [session EXCEPT ![n] = [session[n] EXCEPT ![t] = w]]
      BY <1>1, <1>5, <1>7 DEF w, v
    <2> QED
      BY <1>1, <1>11, <2>1
  <1>13. u \in Shuffles /\ u.hints = s.hints /\ u.state = "ReadingOutbox"
         /\ u.epoch = s.epoch /\ u.next = i + 1 /\ u.inflight = Append(s.inflight, i)
         /\ u.committed = s.committed /\ u.truncation = s.truncation
    <2>1. i + 1 \in 0 .. MaxMessages
      BY <1>4, IndexIs
    <2>2. Append(s.inflight, i) \in Seq(Index)
      BY <1>4, ShuffleIs, AppendIs
    <2> QED
      BY <2>1, <2>2 DEF Shuffles
  <1> HIDE DEF u
  <1>14. ScanOK(dest, applied, r, session'[n], u)
    <2>1. \A m \in Target : Held(session[n][m]) \subseteq Held(session'[n][m])
      <3> SUFFICES ASSUME NEW m \in Target PROVE Held(session[n][m]) \subseteq Held(session'[n][m])
        OBVIOUS
      <3>1. CASE m = t
        BY <1>8, <1>11, <3>1 DEF v
      <3>2. CASE m # t
        BY <1>8, <3>2
      <3> QED
        BY <3>1, <3>2
    <2>2. \A j \in 0 .. i : dest[j] \in Target
      <3> SUFFICES ASSUME NEW j \in 0 .. i PROVE dest[j] \in Target
        OBVIOUS
      <3>1. j \in Nat /\ j < MaxMessages
        BY <1>4, IndexIs
      <3> QED
        BY <1>1, <3>1, IndexIs
    <2>3. \A j \in 0 .. i : Held(session[n][dest[j]]) \subseteq Held(session'[n][dest[j]])
      BY <2>1, <2>2
    <2>4. i \in Held(session'[n][dest[i]])
      BY <1>8, <1>11 DEF t
    <2> HIDE DEF r
    <2> DEFINE sess == session[n]
               sess2 == session'[n]
    <2>5. /\ ScanOK(dest, applied, r, sess, s) /\ i < r.tail
          /\ \A j \in 0 .. i : Held(sess[dest[j]]) \subseteq Held(sess2[dest[j]])
          /\ i \in Held(sess2[dest[i]])
      BY <2>3, <2>4 DEF r
    <2> HIDE DEF sess, sess2
    <2>6. ScanOK(dest, applied, r, sess2, u)
      BY <1>3, <1>4, <1>13, <2>5, IngestScan
    <2> QED
      BY <2>6 DEF sess2
  <1>15. shuffle' \in [Node -> Shuffles] /\ shuffle'[n] = u
         /\ \A m \in Node : m # n => shuffle'[m] = shuffle[m]
    BY <1>1, <1>7, <1>13
  <1>16. \A m \in Node : Len(shuffle'[m].hints) <= MaxHints
    BY <1>1, <1>13, <1>15
  <1>17. TypeOK'
    BY <1>1, <1>12, <1>15, <1>16 DEF TypeOK, Shuffles, Sessions
  <1>18. ASSUME NEW m \in Node PROVE LeaderOK(m)'
    <2>1. CASE m = n
      <3>1. LeaderIs(log, dest, applied, r, session'[n], u)
        BY <1>13, <1>14 DEF LeaderIs
      <3> QED
        BY <1>15, <2>1, <3>1 DEF LeaderOK
    <2>2. CASE m # n
      BY <1>8, <1>15, <2>2, LeaderSame
    <2> QED
      BY <2>1, <2>2
  <1>19. LogOK' /\ Produced' = Produced
    BY <1>1, SameLog
  <1>20. TravelOK'
    <2>1. ASSUME NEW m \in Node, NEW y \in Target
          PROVE  SessionOK(dest, Produced, faults, y, Range(applied[y]), session'[m][y])
      <3>1. CASE m = n /\ y = t
        BY <1>8, <1>11, <3>1
      <3>2. CASE ~(m = n /\ y = t)
        <4>1. session'[m][y] = session[m][y]
          BY <1>8, <3>2
        <4> QED
          BY <1>1, <4>1 DEF TravelOK
      <3> QED
        BY <3>1, <3>2
    <2>2. ASSUME NEW q \in requests
          PROVE  RequestOK(dest, Produced, Range(applied[q.target]), session'[q.node][q.target], q)
      <3>1. q \in Requests /\ q.node \in Node /\ q.target \in Target
        BY <1>1, RequestIs
      <3>2. session[q.node][q.target] \in Sessions /\ session'[q.node][q.target] \in Sessions
        BY <1>1, <1>12, <3>1
      <3>3. RequestOK(dest, Produced, Range(applied[q.target]), session[q.node][q.target], q)
        BY <1>1 DEF TravelOK
      <3>4. /\ session'[q.node][q.target].attempt = session[q.node][q.target].attempt
            /\ session'[q.node][q.target].state = session[q.node][q.target].state
            /\ session'[q.node][q.target].batch = session[q.node][q.target].batch
        <4>1. CASE q.node = n /\ q.target = t
          BY <1>8, <1>11, <4>1 DEF v
        <4>2. CASE ~(q.node = n /\ q.target = t)
          BY <1>8, <3>1, <4>2
        <4> QED
          BY <4>1, <4>2
      <3>5. Produced <= Produced
        BY <1>2
      <3> QED
        BY <1>2, <3>1, <3>2, <3>3, <3>4, <3>5, RequestMore
    <2> QED
      BY <1>1, <1>19, <2>1, <2>2 DEF TravelOK, OneRequest
  <1>21. \A m \in Target : AppliedOK(m)'
    BY <1>1, <1>19, SameApplied
  <1> QED
    BY <1>17, <1>18, <1>19, <1>20, <1>21 DEF ShuffleInv

LEMMA ScanState ==
    ASSUME NEW d, NEW app, NEW r, NEW sess, NEW s \in Shuffles, ScanOK(d, app, r, sess, s),
           NEW x \in {"Idle", "ReadingOutbox"}, NEW u, u = [s EXCEPT !.state = x]
    PROVE  u \in Shuffles /\ ScanOK(d, app, r, sess, u) /\ u.state # "Stopped" /\ u.hints = s.hints
  <1>1. u \in Shuffles /\ u.state = x
    BY DEF Shuffles
  <1>2. /\ u.epoch = s.epoch /\ u.next = s.next /\ u.hints = s.hints /\ u.inflight = s.inflight
        /\ u.committed = s.committed /\ u.truncation = s.truncation
    BY DEF Shuffles
  <1>3. ScanOK(d, app, r, sess, u)
    BY <1>2 DEF ScanOK
  <1> QED
    BY <1>1, <1>2, <1>3

LEMMA OnHintStep == ASSUME ShuffleInv, NEW n \in Node, OnHint(n) PROVE ShuffleInv'
  <1> DEFINE r == replica[n]
             v == shuffle[n]
             q == Tail(v.hints)
             s == [v EXCEPT !.hints = q]
             i == Head(v.hints)
  <1>1. /\ log \in Seq(Record) /\ r \in Leaders /\ v \in Shuffles
        /\ Len(v.hints) <= MaxHints /\ campaign \in [Node -> 0 .. MaxEpoch]
        /\ replica \in [Node -> Leaders] /\ shuffle \in [Node -> Shuffles]
    BY Shapes DEF ShuffleInv
  <1>2. /\ v.state = "Idle" /\ v.hints # <<>>
        /\ UNCHANGED <<log, dest, epoch, campaign, replica, requests, applied, faults>>
    BY DEF OnHint
  <1>3. \/ i = s.next /\ Ingest(n, s, i)
        \/ /\ shuffle' = [shuffle EXCEPT ![n] = [s EXCEPT !.state = "ReadingOutbox"]]
           /\ UNCHANGED session
        \/ shuffle' = [shuffle EXCEPT ![n] = s] /\ UNCHANGED session
    BY DEF OnHint
  <1>4. OutboxOK(log, dest, applied, r) /\ ScanOK(dest, applied, r, session[n], v)
    BY <1>2 DEF ShuffleInv, LeaderOK, LeaderIs
  <1>5. /\ v.hints \in Seq(Index) /\ Len(v.hints) \in Nat
        /\ \A k \in 1 .. Len(v.hints) : v.hints[k] < r.tail
    BY <1>1, <1>4, ShuffleIs DEF ScanOK
  <1>6. /\ q \in Seq(Index) /\ Len(q) = Len(v.hints) - 1 /\ i = v.hints[1] /\ i \in Index
        /\ 1 \in 1 .. Len(v.hints)
        /\ \A k \in 1 .. Len(v.hints) - 1 : q[k] = v.hints[k + 1]
    BY <1>2, <1>5, TailIs
  <1>7. \A k \in 1 .. Len(q) : k + 1 \in 1 .. Len(v.hints) /\ k \in 1 .. Len(v.hints) - 1
    BY <1>5, <1>6
  <1>8. \A k \in 1 .. Len(q) : q[k] < r.tail
    BY <1>5, <1>6, <1>7
  <1>9. i \in Nat /\ i < r.tail
    BY <1>5, <1>6, IndexIs
  <1> HIDE DEF q, i
  <1>10. s \in Shuffles /\ ScanOK(dest, applied, r, session[n], s)
    BY <1>1, <1>4, <1>6, <1>8, ScanHints
  <1>11. s.hints = q /\ s.state = v.state
    BY <1>1 DEF Shuffles
  <1> HIDE DEF s, v
  <1>12. Len(s.hints) <= MaxHints
    <2>1. MaxHints \in Nat
      BY ShuffleAssumption
    <2> QED
      BY <1>1, <1>5, <1>6, <1>11, <2>1
  <1>13. CASE i = s.next /\ Ingest(n, s, i)
    <2>1. s.next <= i /\ \A j \in s.next .. i - 1 : FALSE
      BY <1>9, <1>13
    <2> QED
      BY <1>2, <1>4, <1>9, <1>10, <1>12, <1>13, <2>1, IngestStep
  <1>14. replica' = [replica EXCEPT ![n] = r] /\ campaign' \in [Node -> 0 .. MaxEpoch]
    BY <1>1, <1>2
  <1> HIDE DEF r
  <1>15. CASE shuffle' = [shuffle EXCEPT ![n] = [s EXCEPT !.state = "ReadingOutbox"]]
              /\ UNCHANGED session
    <2> DEFINE u == [s EXCEPT !.state = "ReadingOutbox"]
    <2>0. u = [s EXCEPT !.state = "ReadingOutbox"] /\ shuffle' = [shuffle EXCEPT ![n] = u]
      BY <1>15
    <2> HIDE DEF u
    <2>1. /\ u \in Shuffles /\ ScanOK(dest, applied, r, session[n], u) /\ u.state # "Stopped"
          /\ u.hints = s.hints
      BY <1>10, <2>0, ScanState
    <2>2. LeaderIs(log, dest, applied, r, session[n], u)
      BY <1>4, <2>1 DEF LeaderIs
    <2>3. /\ r \in Leaders /\ u \in Shuffles /\ Len(u.hints) <= MaxHints
          /\ LeaderIs(log, dest, applied, r, session[n], u)
      BY <1>1, <1>10, <1>12, <2>1, <2>2
    <2>4. /\ UNCHANGED <<log, dest, epoch, session, requests, applied, faults>>
          /\ replica' = [replica EXCEPT ![n] = r] /\ campaign' \in [Node -> 0 .. MaxEpoch]
      BY <1>1, <1>2, <1>14, <1>15
    <2> QED
      BY <2>0, <2>3, <2>4, LeaderStep
  <1>16. CASE shuffle' = [shuffle EXCEPT ![n] = s] /\ UNCHANGED session
    <2>1. LeaderIs(log, dest, applied, r, session[n], s)
      BY <1>2, <1>4, <1>10, <1>11 DEF LeaderIs
    <2> QED
      BY <1>1, <1>2, <1>10, <1>12, <1>14, <1>16, <2>1, LeaderStep
  <1> QED
    BY <1>3, <1>13, <1>15, <1>16

LEMMA ReadOutboxStep == ASSUME ShuffleInv, NEW n \in Node, ReadOutbox(n) PROVE ShuffleInv'
  <1> DEFINE r == replica[n]
             s == shuffle[n]
             outbox == {i \in r.head .. r.tail - 1 : i >= s.next}
  <1>1. /\ r \in Leaders /\ s \in Shuffles
        /\ Len(s.hints) <= MaxHints /\ campaign \in [Node -> 0 .. MaxEpoch]
        /\ replica \in [Node -> Leaders] /\ shuffle \in [Node -> Shuffles]
    BY Shapes DEF ShuffleInv
  <1>2. /\ s.state = "ReadingOutbox"
        /\ UNCHANGED <<log, dest, epoch, campaign, replica, requests, applied, faults>>
    BY DEF ReadOutbox
  <1>3. \/ shuffle' = [shuffle EXCEPT ![n].state = "Idle"] /\ UNCHANGED session
        \/ \E i \in outbox : (\A j \in outbox : i <= j) /\ Ingest(n, s, i)
    BY DEF ReadOutbox
  <1>4. OutboxOK(log, dest, applied, r) /\ ScanOK(dest, applied, r, session[n], s)
    BY <1>2 DEF ShuffleInv, LeaderOK, LeaderIs
  <1>5. r.head \in Nat /\ r.tail \in Nat /\ s.next \in Nat
    BY <1>1, LeadersAre, ShuffleIs DEF Replicas
  <1>6. replica' = [replica EXCEPT ![n] = r] /\ campaign' \in [Node -> 0 .. MaxEpoch]
    BY <1>1, <1>2
  <1>7. CASE shuffle' = [shuffle EXCEPT ![n].state = "Idle"] /\ UNCHANGED session
    <2> DEFINE u == [s EXCEPT !.state = "Idle"]
    <2>0. u = [s EXCEPT !.state = "Idle"] /\ shuffle' = [shuffle EXCEPT ![n] = u]
      BY <1>1, <1>7
    <2> HIDE DEF u, r, s, outbox
    <2>1. /\ u \in Shuffles /\ ScanOK(dest, applied, r, session[n], u) /\ u.state # "Stopped"
          /\ u.hints = s.hints
      BY <1>1, <1>4, <2>0, ScanState
    <2>2. LeaderIs(log, dest, applied, r, session[n], u)
      BY <1>4, <2>1 DEF LeaderIs
    <2>3. /\ r \in Leaders /\ u \in Shuffles /\ Len(u.hints) <= MaxHints
          /\ LeaderIs(log, dest, applied, r, session[n], u)
      BY <1>1, <2>1, <2>2
    <2>4. UNCHANGED <<log, dest, epoch, session, requests, applied, faults>>
      BY <1>2, <1>7
    <2>5. replica' = [replica EXCEPT ![n] = r] /\ shuffle' = [shuffle EXCEPT ![n] = u]
      BY <1>6, <2>0
    <2> QED
      BY <1>6, <2>3, <2>4, <2>5, LeaderStep
  <1>8. CASE \E i \in outbox : (\A j \in outbox : i <= j) /\ Ingest(n, s, i)
    <2>1. PICK i \in outbox : (\A j \in outbox : i <= j) /\ Ingest(n, s, i)
      BY <1>8
    <2>2. i \in Nat /\ s.next <= i /\ i < r.tail
      BY <1>5
    <2>3. ASSUME NEW j \in s.next .. i - 1 PROVE j \in Range(applied[dest[j]])
      <3>1. j \in Nat /\ j < i /\ j < r.tail /\ j >= s.next
        BY <1>5, <2>2
      <3>2. j \notin outbox
        <4> HIDE DEF outbox
        <4> QED
          BY <2>1, <2>2, <3>1
      <3>3. j < r.head
        BY <1>5, <3>1, <3>2
      <3>4. j \in 0 .. r.head - 1
        BY <1>5, <3>1, <3>3
      <3> QED
        BY <1>4, <3>4 DEF OutboxOK, DeliveredBelow
    <2> HIDE DEF outbox
    <2> QED
      BY <1>1, <1>2, <1>4, <2>1, <2>2, <2>3, IngestStep
  <1> QED
    BY <1>3, <1>7, <1>8

-----------------------------------------------------------------------------
(* The sessions *)

\* a step of one session, and what it leaves as it is
LEMMA SessionStep ==
    ASSUME ShuffleInv, NEW n \in Node, NEW t \in Target, NEW w \in Sessions,
           session' = [session EXCEPT ![n] = [session[n] EXCEPT ![t] = w]],
           faults' \in 0 .. MaxFaults, faults <= faults', requests' \subseteq Requests,
           UNCHANGED <<log, dest, epoch, campaign, replica, shuffle, applied>>,
           Held(session[n][t]) = Held(w),
           SessionOK(dest, Produced, faults', t, Range(applied[t]), w),
           \A r \in requests' :
             RequestOK(dest, Produced, Range(applied[r.target]), session'[r.node][r.target], r),
           OneRequest'
    PROVE  ShuffleInv'
  <1>1. /\ TypeOK /\ LogOK /\ TravelOK /\ (\A m \in Target : AppliedOK(m))
        /\ log \in Seq(Record) /\ dest \in [Index -> Target]
        /\ replica \in [Node -> Leaders] /\ shuffle \in [Node -> Shuffles]
        /\ session \in [Node -> [Target -> Sessions]] /\ faults \in 0 .. MaxFaults
    BY Shapes DEF ShuffleInv
  <1>2. /\ session' \in [Node -> [Target -> Sessions]]
        /\ session'[n][t] = w
        /\ \A m \in Target : m # t => session'[n][m] = session[n][m]
        /\ \A m \in Node : m # n => session'[m] = session[m]
    BY <1>1
  <1>3. TypeOK'
    BY <1>1, <1>2 DEF TypeOK, Sessions, Requests
  <1>4. LogOK' /\ Produced' = Produced
    BY <1>1, SameLog
  <1>5. \A m \in Target : AppliedOK(m)'
    BY <1>1, <1>4, SameApplied
  <1>6. ASSUME NEW m \in Node PROVE LeaderOK(m)'
    <2>1. Grown(applied, applied)
      BY DEF Grown
    <2>2. ASSUME NEW y \in Target PROVE Held(session[m][y]) \subseteq Held(session'[m][y]) \cup Range(applied[y])
      <3>1. CASE m = n /\ y = t
        BY <1>2, <3>1
      <3>2. CASE ~(m = n /\ y = t)
        BY <1>2, <3>2
      <3> QED
        BY <3>1, <3>2
    <2>3. /\ replica[m] \in Leaders /\ shuffle[m] \in Shuffles
          /\ LeaderIs(log, dest, applied, replica[m], session[m], shuffle[m])
      BY <1>1 DEF ShuffleInv, LeaderOK
    <2> DEFINE sess == session[m]
               sess2 == session'[m]
    <2>4. /\ \A y \in Target : Held(sess[y]) \subseteq Held(sess2[y]) \cup Range(applied[y])
          /\ LeaderIs(log, dest, applied, replica[m], sess, shuffle[m])
      BY <2>2, <2>3
    <2> HIDE DEF sess, sess2
    <2>5. LeaderIs(log, dest, applied, replica[m], sess2, shuffle[m])
      BY <1>1, <2>1, <2>3, <2>4, LeaderMore
    <2> QED
      BY <2>5 DEF LeaderOK, sess2
  <1>7. ASSUME NEW m \in Node, NEW y \in Target
        PROVE  SessionOK(dest, Produced, faults', y, Range(applied[y]), session'[m][y])
    <2>1. CASE m = n /\ y = t
      BY <1>2, <2>1
    <2>2. CASE ~(m = n /\ y = t)
      <3>1. session'[m][y] = session[m][y] /\ session[m][y] \in Sessions
        BY <1>1, <1>2, <2>2
      <3>2. SessionOK(dest, Produced, faults, y, Range(applied[y]), session[m][y])
        BY <1>1 DEF TravelOK
      <3>3. Produced \in Nat /\ Produced <= Produced /\ faults \in Nat /\ faults' \in Nat
        <4>1. Produced \in Nat
          BY <1>1, ProducedIs
        <4> QED
          BY <1>1, <4>1, ShuffleAssumption
      <3>4. SessionOK(dest, Produced, faults', y, Range(applied[y]), session[m][y])
        BY <3>1, <3>2, <3>3, SessionMore
      <3> QED
        BY <3>1, <3>4
    <2> QED
      BY <2>1, <2>2
  <1>8. TravelOK'
    BY <1>4, <1>7 DEF TravelOK
  <1> QED
    BY <1>3, <1>4, <1>5, <1>6, <1>8 DEF ShuffleInv

LEMMA FollowsNothing ==
    ASSUME NEW d, NEW p, NEW t, NEW E PROVE Follows(d, p, t, E, <<>>)
  <1>1. Len(<<>>) = 0 /\ \A k \in 1 .. 0 : FALSE
    OBVIOUS
  <1> QED
    BY <1>1 DEF Follows

\* a request for the batch b, which leaves q in the queue
LEMMA SendStep ==
    ASSUME ShuffleInv, NEW n \in Node, NEW t \in Target, NEW b \in Seq(Token), NEW q \in Seq(Token),
           b # <<>>, session[n][t].state = "Connected",
           Follows(dest, Produced, t, Range(applied[t]), SnsOf(b)),
           Follows(dest, Produced, t, Range(applied[t]) \cup Range(SnsOf(b)), SnsOf(q)),
           Held(session[n][t]) = Range(SnsOf(b)) \cup Range(SnsOf(q)),
           session' = [session EXCEPT ![n][t].batch = b, ![n][t].queue = q,
                                      ![n][t].state = "Sent"],
           requests' = requests \cup
             {[node |-> n, target |-> t, attempt |-> session[n][t].attempt, records |-> SnsOf(b)]},
           UNCHANGED <<log, dest, epoch, campaign, replica, shuffle, applied, faults>>
    PROVE  ShuffleInv'
  <1> DEFINE s == session[n][t]
             w == [s EXCEPT !.batch = b, !.queue = q, !.state = "Sent"]
             x == [node |-> n, target |-> t, attempt |-> s.attempt, records |-> SnsOf(b)]
  <1>1. /\ TravelOK /\ session \in [Node -> [Target -> Sessions]] /\ s \in Sessions
        /\ requests \subseteq Requests /\ faults \in 0 .. MaxFaults
    BY Shapes DEF ShuffleInv
  <1>2. session' = [session EXCEPT ![n] = [session[n] EXCEPT ![t] = w]]
    BY <1>1
  <1>3. /\ w \in Sessions /\ w.attempt = s.attempt /\ w.state = "Sent" /\ w.batch = b /\ w.queue = q
    BY <1>1 DEF Sessions
  <1>4. /\ x \in Requests /\ x.node = n /\ x.target = t /\ x.attempt = s.attempt
        /\ x.records = SnsOf(b)
    <2>1. s.attempt \in 0 .. MaxFaults
      BY <1>1 DEF Sessions
    <2>2. SnsOf(b) \in Seq(Index)
      BY SnsIs
    <2> QED
      BY <2>1, <2>2 DEF Requests
  <1>5. SnsOf(b) # <<>>
    BY SnsIs, EmptyIs
  <1>6. requests' = requests \cup {x}
    OBVIOUS
  <1> HIDE DEF w, x
  <1>7. session'[n][t] = w /\ \A m \in Node, y \in Target : ~(m = n /\ y = t) => session'[m][y] = session[m][y]
    <2> DEFINE z == [session[n] EXCEPT ![t] = w]
    <2>1. session[n] \in [Target -> Sessions]
      BY <1>1
    <2>2. z[t] = w /\ \A y \in Target : y # t => z[y] = session[n][y]
      BY <2>1
    <2> HIDE DEF z
    <2>3. session' = [session EXCEPT ![n] = z]
      BY <1>2 DEF z
    <2>4. session'[n] = z /\ \A m \in Node : m # n => session'[m] = session[m]
      BY <1>1, <2>3
    <2> QED
      BY <2>2, <2>4
  <1>8. /\ s.attempt <= faults /\ SessionOK(dest, Produced, faults, t, Range(applied[t]), s)
    BY <1>1 DEF TravelOK, SessionOK
  <1>9. Batch(w) = Range(SnsOf(b)) /\ Held(w) = Held(s)
    BY <1>3 DEF Batch, Held
  <1>10. SessionOK(dest, Produced, faults, t, Range(applied[t]), w)
    BY <1>3, <1>8, <1>9 DEF SessionOK
  <1>11. ASSUME NEW r \in requests, r.node = n, r.target = t PROVE r.attempt # s.attempt
    <2>1. RequestOK(dest, Produced, Range(applied[t]), s, r)
      BY <1>1, <1>11 DEF TravelOK
    <2> QED
      BY <2>1 DEF RequestOK
  <1>12. ASSUME NEW r \in requests
         PROVE  RequestOK(dest, Produced, Range(applied[r.target]), session'[r.node][r.target], r)
    <2>1. RequestOK(dest, Produced, Range(applied[r.target]), session[r.node][r.target], r)
      BY <1>1 DEF TravelOK
    <2>2. r.node \in Node /\ r.target \in Target
      BY <1>1, RequestIs
    <2>3. CASE r.node = n /\ r.target = t
      BY <1>3, <1>7, <1>11, <2>1, <2>3 DEF RequestOK
    <2>4. CASE ~(r.node = n /\ r.target = t)
      BY <1>7, <2>1, <2>2, <2>4
    <2> QED
      BY <2>3, <2>4
  <1>13. RequestOK(dest, Produced, Range(applied[x.target]), session'[x.node][x.target], x)
    <2>1. x.attempt <= w.attempt
      BY <1>1, <1>3, <1>4, SessionIs
    <2>2. x.records # <<>> /\ Follows(dest, Produced, x.target, Range(applied[x.target]), x.records)
      BY <1>4, <1>5
    <2>3. w.state = "Sent" /\ Batch(w) \subseteq Range(applied[x.target]) \cup Range(x.records)
      BY <1>3, <1>4, <1>9
    <2>4. RequestOK(dest, Produced, Range(applied[x.target]), w, x)
      BY <2>1, <2>2, <2>3 DEF RequestOK
    <2> QED
      BY <1>4, <1>7, <2>4
  <1>14. OneRequest'
    <2> SUFFICES ASSUME NEW a \in requests \cup {x}, NEW c \in requests \cup {x},
                        a.node = c.node, a.target = c.target, a.attempt = c.attempt
                 PROVE  a = c
      BY <1>6 DEF OneRequest
    <2>1. CASE a \in requests /\ c \in requests
      BY <1>1, <2>1 DEF TravelOK, OneRequest
    <2>2. CASE a = x /\ c \in requests
      BY <1>4, <1>11, <2>2
    <2>3. CASE c = x /\ a \in requests
      BY <1>4, <1>11, <2>3
    <2> QED
      BY <2>1, <2>2, <2>3
  <1>15. /\ \A r \in requests' :
              RequestOK(dest, Produced, Range(applied[r.target]), session'[r.node][r.target], r)
         /\ requests' \subseteq Requests
    BY <1>1, <1>4, <1>6, <1>12, <1>13
  <1>16. faults' \in 0 .. MaxFaults /\ faults <= faults' /\ faults' = faults
    BY <1>1
  <1>17. SessionOK(dest, Produced, faults', t, Range(applied[t]), w)
    BY <1>10, <1>16
  <1> QED
    BY <1>2, <1>3, <1>9, <1>14, <1>15, <1>16, <1>17, SessionStep

LEMMA SendBatchStep ==
    ASSUME ShuffleInv, NEW n \in Node, NEW t \in Target, SendBatch(n, t) PROVE ShuffleInv'
  <1> DEFINE s == session[n][t]
             Send(b, q) ==
               /\ session' = [session EXCEPT ![n][t].batch = b, ![n][t].queue = q,
                                             ![n][t].state = "Sent"]
               /\ requests' = requests \cup
                    {[node |-> n, target |-> t, attempt |-> s.attempt, records |-> SnsOf(b)]}
  <1>1. s \in Sessions /\ TravelOK
    BY Shapes DEF ShuffleInv
  <1>2. /\ s.state = "Connected"
        /\ UNCHANGED <<log, dest, epoch, campaign, replica, shuffle, applied, faults>>
    BY DEF SendBatch
  <1>3. \/ s.batch # <<>> /\ Send(s.batch, s.queue)
        \/ /\ s.batch = <<>>
           /\ \E k \in 1 .. MaxBatch :
                /\ k <= Len(s.queue)
                /\ Send(SubSeq(s.queue, 1, k), SubSeq(s.queue, k + 1, Len(s.queue)))
    BY DEF SendBatch
  <1>4. /\ Follows(dest, Produced, t, Range(applied[t]), SnsOf(s.batch))
        /\ Follows(dest, Produced, t, Range(applied[t]) \cup Range(SnsOf(s.batch)), SnsOf(s.queue))
    BY <1>1 DEF TravelOK, SessionOK, Batch
  <1>5. s.queue \in Seq(Token) /\ s.batch \in Seq(Token) /\ SnsOf(s.queue) \in Seq(Nat)
    BY <1>1, SessionIs
  <1>6. Held(s) = Range(SnsOf(s.batch)) \cup Range(SnsOf(s.queue))
    BY DEF Held, Batch
  <1>7. CASE s.batch # <<>> /\ Send(s.batch, s.queue)
    BY <1>2, <1>4, <1>5, <1>6, <1>7, SendStep
  <1>8. CASE /\ s.batch = <<>>
             /\ \E k \in 1 .. MaxBatch :
                  /\ k <= Len(s.queue)
                  /\ Send(SubSeq(s.queue, 1, k), SubSeq(s.queue, k + 1, Len(s.queue)))
    <2> HIDE DEF Send
    <2>1. PICK k \in 1 .. MaxBatch :
            /\ k <= Len(s.queue)
            /\ Send(SubSeq(s.queue, 1, k), SubSeq(s.queue, k + 1, Len(s.queue)))
      BY <1>8
    <2>2. k \in 1 .. Len(s.queue)
      BY <1>5, <2>1, ShuffleAssumption
    <2> DEFINE b == SubSeq(s.queue, 1, k)
               q == SubSeq(s.queue, k + 1, Len(s.queue))
               z == SnsOf(s.queue)
    <2>3. b \in Seq(Token) /\ q \in Seq(Token) /\ Len(b) = k
      BY <1>5, <2>2, SplitIs
    <2>4. b # <<>>
      BY <2>2, <2>3, EmptyIs
    <2>5. SnsOf(b) = SubSeq(z, 1, k) /\ SnsOf(q) = SubSeq(z, k + 1, Len(z))
      BY <1>5, <2>2, SnsOfSplit
    <2>6. Range(SnsOf(s.batch)) = {}
      BY <1>8, SnsOfEmpty, EmptyIs
    <2>7. Follows(dest, Produced, t, Range(applied[t]), z)
      <3>1. Range(applied[t]) \cup {} = Range(applied[t])
        OBVIOUS
      <3> QED
        BY <1>4, <2>6, <3>1
    <2>8. k \in 1 .. Len(z) /\ z \in Seq(Nat)
      BY <1>5, <2>2, SnsIs
    <2>9. Produced \in Nat
      BY Shapes, ProducedIs DEF ShuffleInv
    <2>10. Held(s) = Range(z)
      BY <1>6, <2>6
    <2>11. Send(b, q)
      BY <2>1
    <2> HIDE DEF b, q, z
    <2>12. /\ Follows(dest, Produced, t, Range(applied[t]), SubSeq(z, 1, k))
           /\ Follows(dest, Produced, t, Range(applied[t]) \cup Range(SubSeq(z, 1, k)),
                      SubSeq(z, k + 1, Len(z)))
      BY <2>7, <2>8, <2>9, FollowsSplit
    <2>13. Range(z) = Range(SubSeq(z, 1, k)) \cup Range(SubSeq(z, k + 1, Len(z)))
      BY <2>8, SplitIs
    <2>14. /\ Follows(dest, Produced, t, Range(applied[t]), SnsOf(b))
           /\ Follows(dest, Produced, t, Range(applied[t]) \cup Range(SnsOf(b)), SnsOf(q))
           /\ Held(s) = Range(SnsOf(b)) \cup Range(SnsOf(q))
      BY <2>5, <2>10, <2>12, <2>13
    <2>15. /\ session' = [session EXCEPT ![n][t].batch = b, ![n][t].queue = q,
                                         ![n][t].state = "Sent"]
           /\ requests' = requests \cup
                {[node |-> n, target |-> t, attempt |-> s.attempt, records |-> SnsOf(b)]}
      BY <2>11 DEF Send
    <2> QED
      BY <1>2, <2>3, <2>4, <2>14, <2>15, SendStep
  <1> QED
    BY <1>3, <1>7, <1>8

LEMMA RequestFailsStep ==
    ASSUME ShuffleInv, NEW n \in Node, NEW t \in Target, RequestFails(n, t) PROVE ShuffleInv'
  <1> DEFINE s == session[n][t]
             w == [s EXCEPT !.state = "Connected", !.attempt = @ + 1]
  <1>1. /\ TravelOK /\ session \in [Node -> [Target -> Sessions]] /\ s \in Sessions
        /\ requests \subseteq Requests /\ faults \in 0 .. MaxFaults
    BY Shapes DEF ShuffleInv
  <1>2. /\ faults < MaxFaults /\ faults' = faults + 1
        /\ session' = [session EXCEPT ![n][t].state = "Connected", ![n][t].attempt = @ + 1]
        /\ requests' \subseteq requests
        /\ UNCHANGED <<log, dest, epoch, campaign, replica, shuffle, applied>>
    BY DEF RequestFails
  <1>3. session' = [session EXCEPT ![n] = [session[n] EXCEPT ![t] = w]]
    BY <1>1, <1>2
  <1>4. faults \in Nat /\ MaxFaults \in Nat /\ faults' \in 0 .. MaxFaults /\ faults <= faults'
    BY <1>1, <1>2, ShuffleAssumption
  <1>5. SessionOK(dest, Produced, faults, t, Range(applied[t]), s) /\ s.attempt <= faults
    BY <1>1 DEF TravelOK, SessionOK
  <1>6. s.attempt \in Nat /\ s.attempt + 1 \in 0 .. MaxFaults /\ s.attempt + 1 <= faults'
    <2>1. s.attempt \in Nat
      BY <1>1, SessionIs
    <2> QED
      BY <1>2, <1>4, <1>5, <2>1
  <1>7. /\ w \in Sessions /\ w.attempt = s.attempt + 1 /\ w.batch = s.batch /\ w.queue = s.queue
    BY <1>1, <1>6 DEF Sessions
  <1> HIDE DEF w
  <1>8. session'[n][t] = w /\ \A m \in Node, y \in Target : ~(m = n /\ y = t) => session'[m][y] = session[m][y]
    BY <1>1, <1>3
  <1>9. Batch(w) = Batch(s) /\ Held(w) = Held(s)
    BY <1>7 DEF Batch, Held
  <1>10. SessionOK(dest, Produced, faults', t, Range(applied[t]), w)
    BY <1>5, <1>6, <1>7, <1>9 DEF SessionOK
  <1>11. ASSUME NEW r \in requests
         PROVE  RequestOK(dest, Produced, Range(applied[r.target]), session'[r.node][r.target], r)
    <2>1. RequestOK(dest, Produced, Range(applied[r.target]), session[r.node][r.target], r)
      BY <1>1 DEF TravelOK
    <2>2. r \in Requests /\ r.node \in Node /\ r.target \in Target
      BY <1>1, RequestIs
    <2>3. CASE r.node = n /\ r.target = t
      <3>1. w.attempt > s.attempt
        BY <1>6, <1>7
      <3>2. Produced \in Nat
        BY Shapes, ProducedIs DEF ShuffleInv
      <3>3. Produced <= Produced
        BY <3>2
      <3>4. RequestOK(dest, Produced, Range(applied[t]), s, r)
        BY <2>1, <2>3
      <3>5. RequestOK(dest, Produced, Range(applied[t]), w, r)
        BY <1>1, <1>7, <2>2, <3>1, <3>2, <3>3, <3>4, RequestMore
      <3> QED
        BY <1>8, <2>3, <3>5
    <2>4. CASE ~(r.node = n /\ r.target = t)
      BY <1>8, <2>1, <2>2, <2>4
    <2> QED
      BY <2>3, <2>4
  <1>12. OneRequest'
    BY <1>1, <1>2 DEF TravelOK, OneRequest
  <1>13. /\ \A r \in requests' :
              RequestOK(dest, Produced, Range(applied[r.target]), session'[r.node][r.target], r)
         /\ requests' \subseteq Requests
    BY <1>1, <1>2, <1>11
  <1> QED
    BY <1>2, <1>3, <1>4, <1>7, <1>9, <1>10, <1>12, <1>13, SessionStep

LEMMA RestartStep == ASSUME ShuffleInv, NEW n \in Node, Restart(n) PROVE ShuffleInv'
  <1> DEFINE w == [NoSession EXCEPT !.attempt = faults + 1]
  <1>1. /\ TypeOK /\ LogOK /\ TravelOK /\ (\A t \in Target : AppliedOK(t))
        /\ campaign \in [Node -> 0 .. MaxEpoch]
        /\ replica \in [Node -> Leaders] /\ shuffle \in [Node -> Shuffles]
        /\ session \in [Node -> [Target -> Sessions]]
        /\ requests \subseteq Requests /\ faults \in 0 .. MaxFaults
        /\ \A m \in Node : Len(shuffle[m].hints) <= MaxHints
    BY Shapes DEF ShuffleInv
  <1>2. /\ faults < MaxFaults /\ faults' = faults + 1
        /\ campaign' = [campaign EXCEPT ![n] = 0]
        /\ shuffle' = [shuffle EXCEPT ![n] = Stopped]
        /\ replica' = [replica EXCEPT ![n] = EmptyReplica]
        /\ UNCHANGED session \/ session' = [session EXCEPT ![n] = [t \in Target |-> w]]
        /\ UNCHANGED <<log, dest, epoch, requests, applied>>
    BY DEF Restart, BecomeFollower
  <1>3. faults \in Nat /\ faults' \in Nat /\ faults' \in 0 .. MaxFaults /\ faults <= faults'
    BY <1>1, <1>2, ShuffleAssumption
  <1>4. 0 \in 0 .. MaxEpoch
    BY ShuffleAssumption
  <1>5. /\ shuffle' \in [Node -> Shuffles] /\ replica' \in [Node -> Leaders]
        /\ campaign' \in [Node -> 0 .. MaxEpoch]
    BY <1>1, <1>2, <1>4, FixedValues
  <1>6. /\ \A m \in Node : m # n => shuffle'[m] = shuffle[m] /\ replica'[m] = replica[m]
        /\ shuffle'[n] = Stopped
    BY <1>1, <1>2
  <1>7. \A m \in Node : Len(shuffle'[m].hints) <= MaxHints
    <2>1. Len(Stopped.hints) = 0
      BY FixedValues, EmptyIs
    <2>2. 0 <= MaxHints
      BY ShuffleAssumption
    <2> QED
      BY <1>1, <1>6, <2>1, <2>2
  <1>8. /\ w \in Sessions /\ w.attempt = faults' /\ w.batch = <<>> /\ w.queue = <<>>
    BY <1>2, <1>3, FixedValues DEF NoSession, Sessions
  <1> HIDE DEF w
  <1>9. /\ session' \in [Node -> [Target -> Sessions]]
        /\ \A m \in Node : m # n => session'[m] = session[m]
        /\ \A t \in Target : session'[n][t] = session[n][t] \/ session'[n][t] = w
    <2>1. CASE UNCHANGED session
      BY <1>1, <2>1
    <2>2. CASE session' = [session EXCEPT ![n] = [t \in Target |-> w]]
      <3> DEFINE z == [t \in Target |-> w]
      <3>1. z \in [Target -> Sessions] /\ \A t \in Target : z[t] = w
        BY <1>8
      <3> HIDE DEF z
      <3>2. session' = [session EXCEPT ![n] = z]
        BY <2>2 DEF z
      <3>3. /\ session' \in [Node -> [Target -> Sessions]]
            /\ \A m \in Node : m # n => session'[m] = session[m]
            /\ session'[n] = z
        BY <1>1, <3>1, <3>2
      <3> QED
        BY <3>1, <3>3
    <2> QED
      BY <1>2, <2>1, <2>2
  <1>10. TypeOK'
    BY <1>1, <1>2, <1>3, <1>5, <1>7, <1>9 DEF TypeOK, Shuffles, Leaders, Sessions
  <1>11. ASSUME NEW m \in Node PROVE LeaderOK(m)'
    <2>1. CASE m = n
      BY <1>6, <2>1, LeaderStopped
    <2>2. CASE m # n
      BY <1>2, <1>6, <1>9, <2>2, LeaderSame
    <2> QED
      BY <2>1, <2>2
  <1>12. LogOK' /\ Produced' = Produced
    BY <1>1, <1>2, SameLog
  <1>13. \A t \in Target : AppliedOK(t)'
    BY <1>1, <1>2, <1>12, SameApplied
  <1>14. Produced \in Nat /\ Produced <= Produced
    <2>1. Produced \in Nat
      BY <1>1, Shapes, ProducedIs
    <2> QED
      BY <2>1
  <1>15. ASSUME NEW m \in Node, NEW t \in Target
         PROVE  SessionOK(dest, Produced, faults', t, Range(applied[t]), session'[m][t])
    <2>1. CASE session'[m][t] = session[m][t]
      <3>1. /\ SessionOK(dest, Produced, faults, t, Range(applied[t]), session[m][t])
            /\ session[m][t] \in Sessions
        BY <1>1 DEF TravelOK
      <3>2. SessionOK(dest, Produced, faults', t, Range(applied[t]), session[m][t])
        BY <1>3, <1>14, <3>1, SessionMore
      <3> QED
        BY <2>1, <3>2
    <2>2. CASE session'[m][t] = w
      <3>1. SnsOf(w.batch) = <<>> /\ SnsOf(w.queue) = <<>>
        BY <1>8, SnsOfEmpty
      <3>2. w.attempt <= faults'
        BY <1>3, <1>8
      <3>3. SessionOK(dest, Produced, faults', t, Range(applied[t]), w)
        BY <3>1, <3>2, FollowsNothing DEF SessionOK
      <3> QED
        BY <2>2, <3>3
    <2>3. session'[m][t] = session[m][t] \/ session'[m][t] = w
      BY <1>9
    <2> QED
      BY <2>1, <2>2, <2>3
  <1>16. ASSUME NEW r \in requests
         PROVE  RequestOK(dest, Produced, Range(applied[r.target]), session'[r.node][r.target], r)
    <2> DEFINE s == session[r.node][r.target]
               v == session'[r.node][r.target]
    <2>1. /\ r \in Requests /\ r.node \in Node /\ r.target \in Target
      BY <1>1, RequestIs
    <2>2. /\ RequestOK(dest, Produced, Range(applied[r.target]), s, r)
          /\ SessionOK(dest, Produced, faults, r.target, Range(applied[r.target]), s)
          /\ s \in Sessions /\ v \in Sessions
      BY <1>1, <1>9, <2>1 DEF TravelOK
    <2>3. v = s \/ v = w
      BY <1>9, <2>1
    <2>4. s.attempt \in Nat /\ s.attempt <= faults
      BY <2>2, SessionIs DEF SessionOK
    <2> HIDE DEF s, v
    <2>5. v.attempt > s.attempt \/ v = s
      BY <1>2, <1>3, <1>8, <2>3, <2>4
    <2>6. \/ v.attempt > s.attempt
          \/ v.attempt = s.attempt /\ v.state = s.state /\ v.batch = s.batch
      BY <2>5
    <2>7. RequestOK(dest, Produced, Range(applied[r.target]), v, r)
      BY <1>14, <2>1, <2>2, <2>6, RequestMore
    <2> QED
      BY <2>7 DEF v
  <1>17. TravelOK'
    BY <1>1, <1>2, <1>12, <1>15, <1>16 DEF TravelOK, OneRequest
  <1> QED
    BY <1>10, <1>11, <1>12, <1>13, <1>17 DEF ShuffleInv

-----------------------------------------------------------------------------
(* A target applies a record *)

\* the messages of a target when the next record is i
With(a, i) == IF a # <<>> /\ Last(a) >= i THEN a ELSE Append(a, i)

Within(A, B) == A \subseteq B

FirstOf(r) == Head(r.records)

\* a request without its first record
Rest(r) == [r EXCEPT !.records = Tail(r.records)]

\* a session whose batch is acknowledged
Acked(s) == [s EXCEPT !.batch = <<>>, !.state = "Connected"]

LEMMA NextApplied ==
    ASSUME NEW d, NEW t, NEW p \in 0 .. MaxMessages, NEW a \in Seq(Index),
           IsPrefixOf(a, Chosen(d, p, t)), NEW i \in Index, d[i] = t, i < p,
           \A j \in 0 .. i - 1 : d[j] = t => j \in Range(a),
           NEW b, b = With(a, i)
    PROVE  /\ b \in Seq(Index) /\ Range(b) = Range(a) \cup {i}
           /\ IsPrefixOf(b, Chosen(d, p, t))
  <1> DEFINE q == Chosen(d, p, t)
  <1>1. /\ i \in Range(a) <=> (a # <<>> /\ Last(a) >= i)
        /\ i \notin Range(a) => Len(a) < Len(q) /\ q[Len(a) + 1] = i
    BY NextOne
  <1>2. q \in Seq(Index)
    BY ChosenOrdered DEF Ordered
  <1>3. Len(a) \in Nat /\ Len(q) \in Nat /\ Len(a) <= Len(q) /\ \A k \in 1 .. Len(a) : a[k] = q[k]
    BY <1>2 DEF IsPrefixOf
  <1> HIDE DEF q
  <1>4. CASE i \in Range(a)
    <2>1. b = a
      BY <1>1, <1>4 DEF With
    <2> QED
      BY <1>4, <2>1
  <1>5. CASE i \notin Range(a)
    <2>1. b = Append(a, i) /\ Len(a) < Len(q) /\ q[Len(a) + 1] = i
      BY <1>1, <1>5 DEF With
    <2>2. /\ b \in Seq(Index) /\ Len(b) = Len(a) + 1
          /\ \A k \in 1 .. Len(a) : b[k] = a[k]
          /\ b[Len(a) + 1] = i
          /\ Range(b) = Range(a) \cup {i}
      BY <2>1, AppendIs
    <2>3. Len(b) <= Len(q)
      BY <1>3, <2>1, <2>2
    <2>4. ASSUME NEW k \in 1 .. Len(b) PROVE b[k] = q[k]
      <3>1. k \in 1 .. Len(a) \/ k = Len(a) + 1
        BY <1>3, <2>2
      <3> QED
        BY <1>3, <2>1, <2>2, <3>1
    <2>5. IsPrefixOf(b, q)
      BY <2>3, <2>4 DEF IsPrefixOf
    <2> QED
      BY <2>2, <2>5 DEF q
  <1> QED
    BY <1>4, <1>5

\* the tokens of a batch are resolved
LEMMA ScanResolved ==
    ASSUME NEW d, NEW app, NEW r, NEW sess, NEW s \in Shuffles, ScanOK(d, app, r, sess, s),
           NEW C, C \subseteq Index, \A i \in C : i \in Range(app[d[i]]),
           NEW u, u = [s EXCEPT !.committed = @ \cup C]
    PROVE  u \in Shuffles /\ u.state = s.state /\ u.hints = s.hints /\ ScanOK(d, app, r, sess, u)
  <1>1. u \in Shuffles
    BY DEF Shuffles
  <1>2. /\ u.epoch = s.epoch /\ u.next = s.next /\ u.hints = s.hints /\ u.inflight = s.inflight
        /\ u.committed = s.committed \cup C /\ u.truncation = s.truncation /\ u.state = s.state
    BY DEF Shuffles
  <1>3. \A i \in u.committed : i \in Range(app[d[i]])
    BY <1>2 DEF ScanOK
  <1>4. ScanOK(d, app, r, sess, u)
    BY <1>2, <1>3 DEF ScanOK
  <1> QED
    BY <1>1, <1>2, <1>4

\* what a request that is appended next says
LEMMA RequestFirst ==
    ASSUME NEW d, NEW p \in Nat, NEW E, NEW s, NEW r \in Requests, RequestOK(d, p, E, s, r)
    PROVE  /\ r.records # <<>> /\ Head(r.records) \in Index /\ d[Head(r.records)] = r.target
           /\ Head(r.records) < p
           /\ \A j \in 0 .. Head(r.records) - 1 : d[j] = r.target => j \in E
           /\ Tail(r.records) \in Seq(Index)
           /\ Range(r.records) = Range(Tail(r.records)) \cup {Head(r.records)}
  <1> DEFINE q == r.records
  <1>1. q \in Seq(Index) /\ q # <<>> /\ Follows(d, p, r.target, E, q)
    BY RequestIs DEF RequestOK
  <1>2. /\ Head(q) = q[1] /\ Head(q) \in Index /\ 1 \in 1 .. Len(q) /\ Tail(q) \in Seq(Index)
        /\ Range(q) = Range(Tail(q)) \cup {Head(q)}
    BY <1>1, TailIs
  <1> HIDE DEF q
  <1>3. /\ d[q[1]] = r.target /\ q[1] < p
        /\ \A j \in 0 .. q[1] - 1 : d[j] = r.target => j \in E \/ \E l \in 1 .. 1 - 1 : q[l] = j
    BY <1>1, <1>2 DEF Follows
  <1>4. \A l \in 1 .. 1 - 1 : FALSE
    OBVIOUS
  <1> QED
    BY <1>1, <1>2, <1>3, <1>4 DEF q

\* a request with the rest of its records
LEMMA RestIs ==
    ASSUME NEW r \in Requests, r.records # <<>>
    PROVE  /\ Rest(r) \in Requests /\ Rest(r).node = r.node /\ Rest(r).target = r.target
           /\ Rest(r).attempt = r.attempt /\ Rest(r).records = Tail(r.records)
  <1>1. r.records \in Seq(Index) /\ Tail(r.records) \in Seq(Index)
    BY RequestIs, TailIs
  <1> QED
    BY <1>1 DEF Requests, Rest

LEMMA RequestRest ==
    ASSUME NEW d, NEW p \in Nat, NEW E, NEW EE, NEW s, NEW r \in Requests, RequestOK(d, p, E, s, r),
           Within(E, EE), FirstOf(r) \in EE, Rest(r).records # <<>>
    PROVE  RequestOK(d, p, EE, s, Rest(r))
  <1> DEFINE x == Rest(r)
  <1>1. /\ r.records \in Seq(Nat) /\ Tail(r.records) \in Seq(Index) /\ r.records # <<>>
        /\ Range(r.records) = Range(Tail(r.records)) \cup {Head(r.records)}
    <2>1. r.records \in Seq(Nat) /\ r.records \in Seq(Index)
      BY RequestIs
    <2>2. r.records # <<>>
      BY DEF RequestOK
    <2> QED
      BY <2>1, <2>2, TailIs
  <1>2. /\ x \in Requests /\ x.node = r.node /\ x.target = r.target /\ x.attempt = r.attempt
        /\ x.records = Tail(r.records)
    BY <1>1, RestIs
  <1> HIDE DEF x
  <1>3. /\ Follows(d, p, r.target, E, r.records) /\ r.attempt <= s.attempt
        /\ r.attempt = s.attempt => s.state = "Sent" /\ Batch(s) \subseteq E \cup Range(r.records)
    BY DEF RequestOK
  <1>4. Follows(d, p, r.target, EE, Tail(r.records))
    BY <1>1, <1>3, FollowsTail DEF Within, FirstOf
  <1>5. x.attempt = s.attempt => s.state = "Sent" /\ Batch(s) \subseteq EE \cup Range(x.records)
    BY <1>1, <1>2, <1>3 DEF Within, FirstOf
  <1> QED
    <2>1. x.records # <<>> /\ Follows(d, p, x.target, EE, x.records) /\ x.attempt <= s.attempt
      BY <1>2, <1>3, <1>4 DEF x
    <2>2. RequestOK(d, p, EE, s, x)
      BY <1>5, <2>1 DEF RequestOK
    <2> QED
      BY <2>2 DEF x

\* a session whose batch is acknowledged
LEMMA SessionAcked ==
    ASSUME NEW d, NEW p \in Nat, NEW f, NEW t, NEW E, NEW EE, Within(E, EE), NEW s \in Sessions,
           SessionOK(d, p, f, t, E, s), Within(Batch(s), EE),
           NEW w, w = Acked(s)
    PROVE  /\ w \in Sessions /\ w.attempt = s.attempt /\ SessionOK(d, p, f, t, EE, w)
           /\ Held(s) \subseteq Held(w) \cup EE
  <1>1. /\ w \in Sessions /\ w.attempt = s.attempt /\ w.batch = <<>> /\ w.queue = s.queue
    BY EmptyIs DEF Sessions, Acked
  <1>2. SnsOf(w.batch) = <<>> /\ Batch(w) = {}
    BY <1>1, SnsOfEmpty, EmptyIs DEF Batch
  <1>3. /\ s.attempt <= f /\ Follows(d, p, t, E \cup Batch(s), SnsOf(s.queue))
        /\ SnsOf(s.queue) \in Seq(Nat)
    BY SessionIs DEF SessionOK
  <1>4. E \cup Batch(s) \subseteq EE \cup Batch(w) /\ p <= p
    BY DEF Within
  <1>5. Follows(d, p, t, EE \cup Batch(w), SnsOf(w.queue))
    BY <1>1, <1>3, <1>4, FollowsMore
  <1>6. Follows(d, p, t, EE, SnsOf(w.batch))
    BY <1>2, FollowsNothing
  <1>7. SessionOK(d, p, f, t, EE, w)
    BY <1>1, <1>3, <1>5, <1>6 DEF SessionOK
  <1>8. Held(s) \subseteq Held(w) \cup EE
    BY <1>1 DEF Held, Within
  <1> QED
    BY <1>1, <1>7, <1>8

LEMMA AppendRecordStep ==
    ASSUME ShuffleInv, NEW r \in requests, AppendRecord(r) PROVE ShuffleInv'
  <1> DEFINE n == r.node
             t == r.target
             s == session[n][t]
             i == Head(r.records)
             rest == Tail(r.records)
             acked == rest = <<>> /\ IsCurrent(r)
             E == Range(applied[t])
             a == With(applied[t], i)
             x == Rest(r)
             w == Acked(s)
             C == Resolved(shuffle[n], s.batch)
             u == [shuffle[n] EXCEPT !.committed = @ \cup C]
  <1>1. /\ TypeOK /\ LogOK /\ TravelOK /\ (\A y \in Target : AppliedOK(y))
        /\ log \in Seq(Record) /\ dest \in [Index -> Target]
        /\ replica \in [Node -> Leaders] /\ shuffle \in [Node -> Shuffles]
        /\ session \in [Node -> [Target -> Sessions]] /\ requests \subseteq Requests
        /\ applied \in [Target -> Seq(Index)] /\ faults \in 0 .. MaxFaults
        /\ \A m \in Node : Len(shuffle[m].hints) <= MaxHints
    BY Shapes DEF ShuffleInv
  <1>2. /\ r \in Requests /\ n \in Node /\ t \in Target /\ r.attempt \in Nat
    BY <1>1, RequestIs
  <1>3. /\ s \in Sessions /\ shuffle[n] \in Shuffles /\ applied[t] \in Seq(Index)
    BY <1>1, <1>2
  <1>4. /\ Produced \in 0 .. MaxMessages /\ Produced \in Nat /\ Produced <= Produced
        /\ faults \in Nat /\ faults <= faults
    <2>1. Produced \in 0 .. MaxMessages /\ Produced \in Nat
      BY <1>1, ProducedIs
    <2>2. faults \in Nat
      BY <1>1, ShuffleAssumption
    <2> QED
      BY <2>1, <2>2
  <1>5. /\ applied' = [applied EXCEPT ![t] = a]
        /\ requests' = (requests \ {r}) \cup (IF rest = <<>> THEN {} ELSE {x})
        /\ UNCHANGED <<log, dest, epoch, campaign, replica, faults>>
    BY <1>1, <1>2 DEF AppendRecord, IsDuplicate, With, Rest
  <1>6. \/ /\ acked
           /\ session' = [session EXCEPT ![n] = [session[n] EXCEPT ![t] = w]]
           /\ shuffle' = [shuffle EXCEPT ![n] = u]
        \/ ~acked /\ session' = session /\ shuffle' = shuffle
    <2>1. \/ /\ acked
             /\ session' = [session EXCEPT ![n][t].batch = <<>>, ![n][t].state = "Connected"]
             /\ shuffle' = [shuffle EXCEPT ![n].committed = @ \cup C]
          \/ ~acked /\ session' = session /\ shuffle' = shuffle
      BY DEF AppendRecord
    <2>2. [session EXCEPT ![n][t].batch = <<>>, ![n][t].state = "Connected"]
            = [session EXCEPT ![n] = [session[n] EXCEPT ![t] = w]]
      BY <1>1, <1>2 DEF Acked
    <2>3. [shuffle EXCEPT ![n].committed = @ \cup C] = [shuffle EXCEPT ![n] = u]
      BY <1>1, <1>2
    <2> HIDE DEF acked, C, u, w
    <2> QED
      BY <2>1, <2>2, <2>3
  <1>7. RequestOK(dest, Produced, E, s, r)
    BY <1>1 DEF TravelOK
  <1>8. SessionOK(dest, Produced, faults, t, E, s)
    BY <1>1, <1>2 DEF TravelOK
  <1> HIDE DEF n, t, s, rest, acked, E, a, x, w, C, u
  <1>9. /\ r.records # <<>> /\ i \in Index /\ dest[i] = t /\ i < Produced
        /\ \A j \in 0 .. i - 1 : dest[j] = t => j \in E
        /\ Range(r.records) = Range(rest) \cup {i}
    <2>1. /\ r.records # <<>> /\ i \in Index /\ dest[i] = r.target /\ i < Produced
          /\ \A j \in 0 .. i - 1 : dest[j] = r.target => j \in E
          /\ Range(r.records) = Range(Tail(r.records)) \cup {i}
      BY <1>2, <1>4, <1>7, RequestFirst
    <2> QED
      BY <2>1 DEF t, rest
  <1> HIDE DEF i
  <1>10. /\ a \in Seq(Index) /\ Range(a) = E \cup {i}
         /\ IsPrefixOf(a, Chosen(dest, Produced, t))
    <2> DEFINE b == applied[t]
    <2>1. b \in Seq(Index) /\ IsPrefixOf(b, Chosen(dest, Produced, t))
      BY <1>1, <1>2, <1>3 DEF AppliedOK
    <2>2. a = With(b, i)
      BY DEF a
    <2> DEFINE p == Produced
    <2>3. /\ p \in 0 .. MaxMessages /\ b \in Seq(Index) /\ IsPrefixOf(b, Chosen(dest, p, t))
          /\ i \in Index /\ dest[i] = t /\ i < p
          /\ \A j \in 0 .. i - 1 : dest[j] = t => j \in Range(b)
      BY <1>4, <1>9, <2>1 DEF E
    <2> HIDE DEF b, p
    <2>4. /\ a \in Seq(Index) /\ Range(a) = Range(b) \cup {i}
          /\ IsPrefixOf(a, Chosen(dest, p, t))
      BY <2>2, <2>3, NextApplied
    <2> QED
      BY <2>4 DEF b, E, p
  <1>11. /\ applied' \in [Target -> Seq(Index)] /\ applied'[t] = a
         /\ \A y \in Target : y # t => applied'[y] = applied[y]
    BY <1>1, <1>2, <1>5, <1>10
  <1>12. /\ \A y \in Target : Range(applied[y]) \subseteq Range(applied'[y])
         /\ Range(applied'[t]) = E \cup {i} /\ E \subseteq Range(a)
    BY <1>10, <1>11 DEF E
  <1>13. Grown(applied, applied')
    BY <1>12 DEF Grown
  <1>14. acked => /\ Batch(s) \subseteq Range(a) /\ r.attempt = s.attempt
                  /\ \A q \in requests : q # r => ~(q.node = n /\ q.target = t /\ q.attempt = s.attempt)
    <2> SUFFICES ASSUME acked
                 PROVE  /\ Batch(s) \subseteq Range(a) /\ r.attempt = s.attempt
                        /\ \A q \in requests :
                             q # r => ~(q.node = n /\ q.target = t /\ q.attempt = s.attempt)
      OBVIOUS
    <2>1. rest = <<>> /\ s.attempt = r.attempt
      BY DEF acked, IsCurrent, s, n, t
    <2>2. Batch(s) \subseteq E \cup Range(r.records)
      BY <1>7, <2>1 DEF RequestOK
    <2>3. Range(rest) = {}
      BY <2>1, EmptyIs
    <2>4. \A q \in requests : q.node = r.node /\ q.target = r.target /\ q.attempt = r.attempt => q = r
      BY <1>1 DEF TravelOK, OneRequest
    <2> QED
      BY <1>9, <1>10, <2>1, <2>2, <2>3, <2>4 DEF n, t
  <1>15. acked => /\ w \in Sessions /\ w.attempt = s.attempt
                  /\ SessionOK(dest, Produced, faults, t, Range(a), w)
                  /\ Held(s) \subseteq Held(w) \cup Range(a)
    <2> SUFFICES ASSUME acked
                 PROVE  /\ w \in Sessions /\ w.attempt = s.attempt
                        /\ SessionOK(dest, Produced, faults, t, Range(a), w)
                        /\ Held(s) \subseteq Held(w) \cup Range(a)
      OBVIOUS
    <2>1. w = Acked(s)
      BY DEF w
    <2> DEFINE EE == Range(a)
               p == Produced
               f == faults
    <2>2. /\ Within(E, EE) /\ Within(Batch(s), EE) /\ p \in Nat /\ s \in Sessions
          /\ SessionOK(dest, p, f, t, E, s)
      BY <1>3, <1>4, <1>8, <1>12, <1>14 DEF Within
    <2> HIDE DEF EE, p, f
    <2>3. /\ w \in Sessions /\ w.attempt = s.attempt /\ SessionOK(dest, p, f, t, EE, w)
          /\ Held(s) \subseteq Held(w) \cup EE
      BY <2>1, <2>2, SessionAcked
    <2> QED
      BY <2>3 DEF EE, p, f
  <1>16. /\ session' \in [Node -> [Target -> Sessions]]
         /\ session'[n][t] = IF acked THEN w ELSE s
         /\ \A m \in Node, y \in Target : ~(m = n /\ y = t) => session'[m][y] = session[m][y]
    <2>1. CASE ~acked
      BY <1>1, <1>6, <2>1 DEF s
    <2>2. CASE acked
      <3> DEFINE z == [session[n] EXCEPT ![t] = w]
      <3>1. session[n] \in [Target -> Sessions] /\ w \in Sessions
        BY <1>1, <1>2, <1>15, <2>2
      <3>2. /\ z \in [Target -> Sessions] /\ z[t] = w
            /\ \A y \in Target : y # t => z[y] = session[n][y]
        BY <1>2, <3>1
      <3>3. session' = [session EXCEPT ![n] = z]
        BY <1>6, <2>2
      <3> HIDE DEF z
      <3>4. /\ session' \in [Node -> [Target -> Sessions]] /\ session'[n] = z
            /\ \A m \in Node : m # n => session'[m] = session[m]
        BY <1>1, <1>2, <3>2, <3>3
      <3> QED
        BY <2>2, <3>2, <3>4
    <2> QED
      BY <2>1, <2>2
  <1>17. ASSUME NEW m \in Node, NEW y \in Target
         PROVE  Held(session[m][y]) \subseteq Held(session'[m][y]) \cup Range(applied'[y])
    <2>1. CASE m = n /\ y = t
      BY <1>11, <1>15, <1>16, <2>1 DEF s
    <2>2. CASE ~(m = n /\ y = t)
      BY <1>16, <2>2
    <2> QED
      BY <2>1, <2>2
  <1>18. ASSUME NEW m \in Node
         PROVE  LeaderIs(log, dest, applied', replica[m], session'[m], shuffle[m])
    <2>1. /\ replica[m] \in Leaders /\ shuffle[m] \in Shuffles
          /\ LeaderIs(log, dest, applied, replica[m], session[m], shuffle[m])
      BY <1>1 DEF ShuffleInv, LeaderOK
    <2> DEFINE sess == session[m]
               sess2 == session'[m]
               app2 == applied'
    <2>2. /\ \A y \in Target : Held(sess[y]) \subseteq Held(sess2[y]) \cup Range(app2[y])
          /\ LeaderIs(log, dest, applied, replica[m], sess, shuffle[m])
          /\ Grown(applied, app2)
      BY <1>13, <1>17, <2>1
    <2> HIDE DEF sess, sess2, app2
    <2>3. LeaderIs(log, dest, app2, replica[m], sess2, shuffle[m])
      BY <1>1, <2>1, <2>2, LeaderMore
    <2> QED
      BY <2>3 DEF sess2, app2
  <1>19. acked => /\ u \in Shuffles /\ u.hints = shuffle[n].hints
                  /\ LeaderIs(log, dest, applied', replica[n], session'[n], u)
    <2> SUFFICES ASSUME acked
                 PROVE  /\ u \in Shuffles /\ u.hints = shuffle[n].hints
                        /\ LeaderIs(log, dest, applied', replica[n], session'[n], u)
      OBVIOUS
    <2>1. LeaderIs(log, dest, applied', replica[n], session'[n], shuffle[n])
      BY <1>2, <1>18
    <2>2. CASE shuffle[n].state = "Stopped"
      <3>1. C = {}
        BY <2>2 DEF C, Resolved
      <3>2. u = shuffle[n]
        BY <1>3, <3>1 DEF u, Shuffles
      <3> QED
        BY <1>3, <2>1, <3>2
    <2>3. CASE shuffle[n].state # "Stopped"
      <3>1. ASSUME NEW k \in C PROVE k \in Index /\ k \in Range(applied'[dest[k]])
        <4>1. k \in Index /\ [sn |-> k, epoch |-> shuffle[n].epoch] \in Range(s.batch)
          BY <2>3 DEF C, Resolved
        <4>2. s.batch \in Seq(Token) /\ SnsOf(s.batch) \in Seq(Index)
          BY <1>3, SessionIs
        <4>3. k \in Range(SnsOf(s.batch))
          BY <4>1, <4>2, SnsIs
        <4>4. k \in Range(applied'[t])
          BY <1>11, <1>14, <4>3 DEF Batch
        <4>5. PICK l \in 1 .. Len(SnsOf(s.batch)) : SnsOf(s.batch)[l] = k
          BY <4>2, <4>3, RangeIn
        <4>6. Follows(dest, Produced, t, E, SnsOf(s.batch))
          BY <1>8 DEF SessionOK
        <4>7. dest[k] = t
          BY <4>5, <4>6 DEF Follows
        <4> QED
          BY <4>1, <4>4, <4>7
      <3> DEFINE v == shuffle[n]
                 app2 == applied'
                 sess2 == session'[n]
      <3>2. /\ C \subseteq Index /\ \A k \in C : k \in Range(app2[dest[k]])
            /\ OutboxOK(log, dest, app2, replica[n])
            /\ ScanOK(dest, app2, replica[n], sess2, v)
        BY <2>1, <2>3, <3>1 DEF LeaderIs
      <3>3. u = [v EXCEPT !.committed = @ \cup C] /\ v \in Shuffles /\ v.state # "Stopped"
        BY <1>3, <2>3 DEF u
      <3> HIDE DEF v, app2, sess2
      <3>4. /\ u \in Shuffles /\ u.state = v.state /\ u.hints = v.hints
            /\ ScanOK(dest, app2, replica[n], sess2, u)
        BY <3>2, <3>3, ScanResolved
      <3>5. LeaderIs(log, dest, app2, replica[n], sess2, u)
        BY <3>2, <3>3, <3>4 DEF LeaderIs
      <3> QED
        BY <3>4, <3>5 DEF v, app2, sess2
    <2> QED
      BY <2>2, <2>3
  <1>20. /\ shuffle' \in [Node -> Shuffles]
         /\ \A m \in Node : m # n => shuffle'[m] = shuffle[m]
         /\ shuffle'[n] = IF acked THEN u ELSE shuffle[n]
    BY <1>1, <1>2, <1>6, <1>19
  <1>21. \A m \in Node : Len(shuffle'[m].hints) <= MaxHints
    BY <1>1, <1>2, <1>19, <1>20
  <1>22. ASSUME NEW m \in Node PROVE LeaderOK(m)'
    <2>1. LeaderIs(log, dest, applied', replica[m], session'[m], shuffle'[m])
      <3>1. CASE m = n /\ acked
        BY <1>19, <1>20, <3>1
      <3>2. CASE ~(m = n /\ acked)
        BY <1>18, <1>20, <3>2
      <3> QED
        BY <3>1, <3>2
    <2> QED
      BY <1>5, <2>1 DEF LeaderOK
  <1>23. LogOK' /\ Produced' = Produced
    <2>1. LogIs(log, dest, applied')
      BY <1>1, <1>13, LogMore DEF LogOK
    <2> QED
      BY <1>5, <2>1 DEF LogOK, Produced
  <1>24. \A y \in Target : AppliedOK(y)'
    <2> SUFFICES ASSUME NEW y \in Target PROVE AppliedOK(y)'
      OBVIOUS
    <2>1. CASE y = t
      BY <1>5, <1>10, <1>11, <1>23, <2>1 DEF AppliedOK
    <2>2. CASE y # t
      BY <1>1, <1>5, <1>11, <1>23, <2>2 DEF AppliedOK
    <2> QED
      BY <2>1, <2>2
  <1>25. rest # <<>> => /\ x \in Requests /\ x.node = n /\ x.target = t /\ x.attempt = r.attempt
                        /\ RequestOK(dest, Produced, Range(a), s, x)
    <2> SUFFICES ASSUME rest # <<>>
                 PROVE  /\ x \in Requests /\ x.node = n /\ x.target = t /\ x.attempt = r.attempt
                        /\ RequestOK(dest, Produced, Range(a), s, x)
      OBVIOUS
    <2>1. FirstOf(r) \in Range(a)
      BY <1>10 DEF i, FirstOf
    <2>2. /\ Rest(r) \in Requests /\ Rest(r).node = r.node /\ Rest(r).target = r.target
          /\ Rest(r).attempt = r.attempt /\ Rest(r).records = rest
      BY <1>2, <1>9, RestIs DEF rest
    <2> DEFINE EE == Range(a)
               p == Produced
    <2>3. /\ Within(E, EE) /\ p \in Nat /\ r \in Requests /\ RequestOK(dest, p, E, s, r)
          /\ FirstOf(r) \in EE /\ Rest(r).records # <<>>
      BY <1>2, <1>4, <1>7, <1>12, <2>1, <2>2 DEF Within
    <2> HIDE DEF EE, p
    <2>4. RequestOK(dest, p, EE, s, Rest(r))
      BY <2>3, RequestRest
    <2> QED
      BY <2>2, <2>4 DEF n, t, x, EE, p
  <1>26. requests' \subseteq Requests
    BY <1>1, <1>5, <1>25
  <1>27. TypeOK'
    BY <1>1, <1>5, <1>11, <1>16, <1>20, <1>21, <1>26 DEF TypeOK, Shuffles, Sessions, Requests
  <1>28. ASSUME NEW m \in Node, NEW y \in Target
         PROVE  SessionOK(dest, Produced, faults, y, Range(applied'[y]), session'[m][y])
    <2>1. CASE m = n /\ y = t /\ acked
      BY <1>11, <1>15, <1>16, <2>1
    <2>2. CASE ~(m = n /\ y = t /\ acked)
      <3>1. session'[m][y] = session[m][y] /\ session[m][y] \in Sessions
        BY <1>1, <1>16, <2>2 DEF s
      <3>2. SessionOK(dest, Produced, faults, y, Range(applied[y]), session[m][y])
        BY <1>1 DEF TravelOK
      <3>3. Range(applied[y]) \subseteq Range(applied'[y])
        BY <1>12
      <3>4. SessionOK(dest, Produced, faults, y, Range(applied'[y]), session[m][y])
        BY <1>4, <3>1, <3>2, <3>3, SessionMore
      <3> QED
        BY <3>1, <3>4
    <2> QED
      BY <2>1, <2>2
  <1>29. ASSUME NEW q \in requests, q # r
         PROVE  RequestOK(dest, Produced, Range(applied'[q.target]), session'[q.node][q.target], q)
    <2> DEFINE v == session[q.node][q.target]
               z == session'[q.node][q.target]
    <2>1. q \in Requests /\ q.node \in Node /\ q.target \in Target
      BY <1>1, RequestIs
    <2>2. v \in Sessions /\ RequestOK(dest, Produced, Range(applied[q.target]), v, q)
      BY <1>1, <2>1 DEF TravelOK
    <2>3. Range(applied[q.target]) \subseteq Range(applied'[q.target])
      BY <1>12, <2>1
    <2>4. RequestOK(dest, Produced, Range(applied'[q.target]), v, q)
      <3> HIDE DEF v
      <3> QED
        BY <1>4, <2>1, <2>2, <2>3, RequestMore
    <2>5. CASE ~(q.node = n /\ q.target = t /\ acked)
      <3>1. z = v
        BY <1>16, <2>1, <2>5 DEF s
      <3> QED
        BY <2>4, <3>1
    <2>6. CASE q.node = n /\ q.target = t /\ acked
      <3>1. z = w /\ v = s /\ w.attempt = s.attempt /\ q.attempt # s.attempt
        BY <1>14, <1>15, <1>16, <1>29, <2>6 DEF s
      <3> HIDE DEF z, v
      <3>2. RequestOK(dest, Produced, Range(applied'[q.target]), z, q)
        BY <2>4, <3>1 DEF RequestOK
      <3> QED
        BY <3>2 DEF z
    <2> QED
      BY <2>5, <2>6
  <1>30. ASSUME rest # <<>>
         PROVE  RequestOK(dest, Produced, Range(applied'[x.target]), session'[x.node][x.target], x)
    <2>1. ~acked
      BY <1>30 DEF acked
    <2> QED
      BY <1>11, <1>16, <1>25, <1>30, <2>1
  <1>31. \A q \in requests' :
           RequestOK(dest, Produced, Range(applied'[q.target]), session'[q.node][q.target], q)
    <2> SUFFICES ASSUME NEW q \in requests'
                 PROVE  RequestOK(dest, Produced, Range(applied'[q.target]),
                                  session'[q.node][q.target], q)
      OBVIOUS
    <2>1. (q \in requests /\ q # r) \/ (rest # <<>> /\ q = x)
      BY <1>5
    <2> QED
      BY <1>29, <1>30, <2>1
  <1>32. OneRequest'
    <2> SUFFICES ASSUME NEW p \in requests', NEW q \in requests',
                        p.node = q.node, p.target = q.target, p.attempt = q.attempt
                 PROVE  p = q
      BY DEF OneRequest
    <2>1. /\ (p \in requests /\ p # r) \/ (rest # <<>> /\ p = x)
          /\ (q \in requests /\ q # r) \/ (rest # <<>> /\ q = x)
      BY <1>5
    <2>2. \A b \in requests : b.node = n /\ b.target = t /\ b.attempt = r.attempt => b = r
      BY <1>1 DEF TravelOK, OneRequest, n, t
    <2>3. CASE p \in requests /\ p # r /\ q \in requests /\ q # r
      BY <1>1, <2>3 DEF TravelOK, OneRequest
    <2>4. CASE rest # <<>> /\ p = x
      BY <1>25, <2>1, <2>2, <2>4
    <2>5. CASE rest # <<>> /\ q = x
      BY <1>25, <2>1, <2>2, <2>5
    <2> QED
      BY <2>1, <2>3, <2>4, <2>5
  <1>33. TravelOK'
    BY <1>5, <1>23, <1>28, <1>31, <1>32 DEF TravelOK
  <1> QED
    BY <1>22, <1>23, <1>24, <1>27, <1>33 DEF ShuffleInv

-----------------------------------------------------------------------------
(* The beginning *)

LEMMA InitLog ==
    ASSUME Init
    PROVE  log \in Seq(Record) /\ LogOK /\ Produced = 0
  <1> DEFINE x == [kind |-> "announce", epoch |-> 1, index |-> NONE]
  <1>1. log = <<x>> /\ x.kind = "announce"
    BY DEF Init
  <1>2. x \in Record
    <2>1. 1 \in 0 .. MaxEpoch
      BY ShuffleAssumption
    <2> QED
      BY <2>1, FixedValues
  <1> HIDE DEF x
  <1>3. log \in Seq(Record) /\ Len(log) = 1 /\ log[1] = x
    BY <1>1, <1>2
  <1>4. Enqueued(log, Len(log)) = 0
    <2>1. Enqueued(log, 0) = 0 /\ log[0 + 1].kind # "enqueue"
      BY <1>1, <1>3, EnqueuedIs
    <2>2. Enqueued(log, 0 + 1) = Enqueued(log, 0)
      BY <2>1, EnqueuedIs
    <2> QED
      BY <1>3, <2>1, <2>2
  <1>5. LogOK
    <2>1. 0 <= MaxMessages
      BY ShuffleAssumption
    <2>2. \A p \in 1 .. Len(log) : log[p].kind # "truncate"
      BY <1>1, <1>3
    <2> QED
      BY <1>4, <2>1, <2>2 DEF LogOK, LogIs
  <1> QED
    BY <1>3, <1>4, <1>5, ProducedIs

LEMMA InitTypes == Init => TypeOK
  <1> SUFFICES ASSUME Init PROVE TypeOK
    OBVIOUS
  <1>1. log \in Seq(Record)
    BY InitLog
  <1>2. /\ 1 \in 0 .. MaxEpoch /\ 0 \in 0 .. MaxEpoch /\ 0 \in 0 .. MaxFaults
        /\ 0 <= MaxHints
    BY ShuffleAssumption
  <1>3. /\ dest \in Routes /\ epoch \in 0 .. MaxEpoch /\ faults \in 0 .. MaxFaults
        /\ requests \subseteq Requests
    BY <1>2 DEF Init
  <1>4. campaign \in [Node -> 0 .. MaxEpoch]
    BY <1>2 DEF Init
  <1>5. replica \in [Node -> Leaders] /\ session \in [Node -> [Target -> Sessions]]
    BY FixedValues DEF Init
  <1>6. shuffle \in [Node -> Shuffles] /\ \A n \in Node : shuffle[n] = Stopped
    BY FixedValues DEF Init
  <1>7. \A n \in Node : Len(shuffle[n].hints) <= MaxHints
    BY <1>2, <1>6, FixedValues, EmptyIs
  <1>8. applied \in [Target -> Seq(Index)]
    BY EmptyIs DEF Init
  <1> QED
    BY <1>1, <1>3, <1>4, <1>5, <1>6, <1>7, <1>8, ShapesMake

LEMMA InitInv == Init => ShuffleInv
  <1> SUFFICES ASSUME Init PROVE ShuffleInv
    OBVIOUS
  <1>1. log \in Seq(Record) /\ LogOK /\ Produced = 0 /\ TypeOK
    BY InitLog, InitTypes
  <1>2. ASSUME NEW n \in Node PROVE LeaderOK(n)
    <2>1. shuffle[n] = Stopped
      BY DEF Init
    <2> QED
      BY <2>1, FixedValues DEF LeaderOK, LeaderIs
  <1>3. ASSUME NEW n \in Node, NEW t \in Target
        PROVE  SessionOK(dest, Produced, faults, t, Range(applied[t]), session[n][t])
    <2>1. session[n][t] = NoSession /\ faults = 0
      BY DEF Init
    <2>2. NoSession.attempt <= 0 /\ NoSession.batch = <<>> /\ NoSession.queue = <<>>
      BY DEF NoSession
    <2> QED
      BY <2>1, <2>2, SnsOfEmpty, FollowsNothing DEF SessionOK
  <1>4. TravelOK
    BY <1>3 DEF TravelOK, OneRequest, Init
  <1>5. ASSUME NEW t \in Target PROVE AppliedOK(t)
    <2>1. applied[t] = <<>> /\ 0 \in 0 .. MaxMessages
      BY ShuffleAssumption DEF Init
    <2>2. Chosen(dest, Produced, t) \in Seq(Index)
      BY <1>1, <2>1, ChosenOrdered DEF Ordered
    <2> DEFINE q == Chosen(dest, Produced, t)
    <2> HIDE DEF q
    <2>3. q \in Seq(Index) => Len(<<>>) <= Len(q) /\ \A k \in 1 .. Len(<<>>) : FALSE
      OBVIOUS
    <2> QED
      BY <2>1, <2>2, <2>3 DEF AppliedOK, IsPrefixOf, q
  <1> QED
    BY <1>1, <1>2, <1>4, <1>5 DEF ShuffleInv

-----------------------------------------------------------------------------
(* The results *)

LEMMA StepInv == ASSUME ShuffleInv, [Next]_vars PROVE ShuffleInv'
  <1>1. CASE Produce
    BY <1>1, ProduceStep
  <1>2. ASSUME NEW n \in Node, RunForLeader(n) PROVE ShuffleInv'
    BY <1>2, RunForLeaderStep
  <1>3. ASSUME NEW n \in Node, BecomeLeader(n) PROVE ShuffleInv'
    BY <1>3, BecomeLeaderStep
  <1>4. ASSUME NEW n \in Node, Apply(n) PROVE ShuffleInv'
    BY <1>4, ApplyStep
  <1>5. ASSUME NEW n \in Node, Restart(n) PROVE ShuffleInv'
    BY <1>5, RestartStep
  <1>6. ASSUME NEW n \in Node, OnHint(n) PROVE ShuffleInv'
    BY <1>6, OnHintStep
  <1>7. ASSUME NEW n \in Node, ReadOutbox(n) PROVE ShuffleInv'
    BY <1>7, ReadOutboxStep
  <1>8. ASSUME NEW n \in Node, OnCommitted(n) PROVE ShuffleInv'
    BY <1>8, OnCommittedStep
  <1>9. ASSUME NEW n \in Node, ProposeTruncation(n) PROVE ShuffleInv'
    BY <1>9, ProposeTruncationStep
  <1>10. ASSUME NEW n \in Node, NEW t \in Target, SendBatch(n, t) PROVE ShuffleInv'
    BY <1>10, SendBatchStep
  <1>11. ASSUME NEW n \in Node, NEW t \in Target, RequestFails(n, t) PROVE ShuffleInv'
    BY <1>11, RequestFailsStep
  <1>12. ASSUME NEW r \in requests, AppendRecord(r) PROVE ShuffleInv'
    BY <1>12, AppendRecordStep
  <1>13. CASE UNCHANGED vars
    <2>1. UNCHANGED <<log, dest, epoch, campaign, replica, shuffle, session, requests, applied, faults>>
      BY <1>13 DEF vars
    <2>2. TypeOK' /\ LogOK' /\ (\A n \in Node : LeaderOK(n)') /\ Produced' = Produced
      BY <2>1 DEF ShuffleInv, TypeOK, LogOK, LeaderOK, Produced
    <2>3. TravelOK' /\ \A t \in Target : AppliedOK(t)'
      BY <2>1, <2>2, SameTravel, SameApplied DEF ShuffleInv
    <2> QED
      BY <2>2, <2>3 DEF ShuffleInv
  <1> QED
    BY <1>1, <1>2, <1>3, <1>4, <1>5, <1>6, <1>7, <1>8, <1>9, <1>10, <1>11, <1>12, <1>13 DEF Next

(* Wherever a message is on its way - in a queue, in a batch, in a request *)
(* of any attempt of any node that ever led - the messages for its target  *)
(* before it are in front of it or were applied, and whatever a leader     *)
(* counts as committed was applied.  (shuffle.rs, session.rs)              *)
THEOREM ShuffleInvariant == Spec => []ShuffleInv
  <1>1. Init => ShuffleInv
    BY InitInv
  <1>2. ShuffleInv /\ [Next]_vars => ShuffleInv'
    BY StepInv
  <1> QED
    BY <1>1, <1>2, PTL DEF Spec

(* The variables keep their types, and the channel of hints its capacity,  *)
(* however many messages are enqueued.  (HintSender::send)                 *)
THEOREM ShuffleTypes == Spec => []TypeOK
  <1>1. ShuffleInv => TypeOK
    BY DEF ShuffleInv
  <1> QED
    BY <1>1, ShuffleInvariant, PTL

(* Whatever part of the log a replica has applied, it has cut nothing off  *)
(* its outbox that its target does not have.  (Shuffle::shuffle,           *)
(* truncate_outbox_to)                                                     *)
THEOREM CutsOffOnlyDelivered == Spec => []TruncatedAreDelivered
  <1>1. ASSUME ShuffleInv PROVE TruncatedAreDelivered
    <2>1. log \in Seq(Record) /\ LogOK
      <3>1. TypeOK /\ LogOK
        BY <1>1 DEF ShuffleInv
      <3> QED
        BY <3>1, Shapes
    <2>2. ASSUME NEW k \in 0 .. Len(log)
          PROVE  /\ Replay(k).head <= Replay(k).tail
                 /\ \A i \in 0 .. Replay(k).head - 1 : i \in Range(applied[dest[i]])
      <3>1. OutboxOK(log, dest, applied, Replay(k))
        BY <2>1, ReplayKeepsOutbox
      <3> QED
        BY <3>1 DEF OutboxOK, DeliveredBelow
    <2> QED
      BY <2>2 DEF TruncatedAreDelivered
  <1>2. ShuffleInv => TruncatedAreDelivered
    BY <1>1
  <1> QED
    BY <1>2, ShuffleInvariant, PTL

-----------------------------------------------------------------------------
(* Every step is one of the channels, or none of them *)

LEMMA Destined2Is == \A t : Destined(t)' = Chosen(dest', Produced', t)
  BY DEF Destined, Chosen

LEMMA OthersAppended ==
    ASSUME log \in Seq(Record), NEW x \in Record, x.kind # "enqueue", log' = Append(log, x)
    PROVE  Produced' = Produced
  <1>1. Produced = Enqueued(log, Len(log)) /\ Produced' = Enqueued(log', Len(log'))
    BY DEF Produced, Enqueued
  <1>2. Len(log') = Len(log) + 1
    OBVIOUS
  <1> QED
    BY <1>1, <1>2, EnqueuedAppend

\* a step that neither produces nor applies a message
LEMMA ChannelsStutter ==
    ASSUME UNCHANGED <<dest, applied>>, Produced' = Produced
    PROVE  UNCHANGED Promise!channels
  <1>1. \A t \in Target : Destined(t)' = Destined(t)
    BY DestinedIs, Destined2Is
  <1> QED
    BY <1>1 DEF Promise!channels

LEMMA ProduceSends ==
    ASSUME ShuffleInv, Produce PROVE \E t \in Target : Promise!Send(t)
  <1> DEFINE p == Produced
             x == [kind |-> "enqueue", epoch |-> 0, index |-> NONE]
             sent == [u \in Target |-> Destined(u)]
  <1>1. /\ p < MaxMessages /\ log' = Append(log, x) /\ UNCHANGED <<dest, applied>>
    BY DEF Produce
  <1>2. TypeOK /\ LogOK
    BY DEF ShuffleInv
  <1>3. log \in Seq(Record) /\ dest \in [Index -> Target]
    BY <1>2, Shapes
  <1>4. p \in Nat
    BY <1>2, <1>3, ProducedIs
  <1>5. x \in Record /\ x.kind = "enqueue"
    <2>1. 0 \in 0 .. MaxEpoch
      BY ShuffleAssumption
    <2> QED
      BY <2>1, FixedValues
  <1> HIDE DEF x
  <1>6. Produced' = p + 1
    BY <1>1, <1>5, RecordAppended
  <1> HIDE DEF p
  <1>7. p \in Index
    BY <1>1, <1>4, ShuffleAssumption DEF Index
  <1>8. dest[p] \in Target
    BY <1>3, <1>7
  <1>9. \A t \in Target : Destined(t)' = IF dest[p] = t THEN Append(Destined(t), p) ELSE Destined(t)
    <2> SUFFICES ASSUME NEW t \in Target
                 PROVE  Destined(t)' = IF dest[p] = t THEN Append(Destined(t), p) ELSE Destined(t)
      OBVIOUS
    <2>1. Destined(t)' = Chosen(dest, p + 1, t) /\ Destined(t) = Chosen(dest, p, t)
      BY <1>1, <1>6, DestinedIs, Destined2Is DEF p
    <2>2. Chosen(dest, p + 1, t) = IF dest[p] = t THEN Append(Chosen(dest, p, t), p)
                                   ELSE Chosen(dest, p, t)
      BY <1>1, <1>4, ChosenNext
    <2> QED
      BY <2>1, <2>2
  <1>10. [t \in Target |-> Destined(t)'] = [sent EXCEPT ![dest[p]] = Append(@, p)]
    BY <1>8, <1>9
  <1>11. Promise!Send(dest[p])
    BY <1>1, <1>7, <1>10 DEF Promise!Send
  <1> QED
    BY <1>8, <1>11

LEMMA AppendReceives ==
    ASSUME ShuffleInv, NEW r \in requests, AppendRecord(r)
    PROVE  UNCHANGED Promise!channels \/ \E t \in Target : Promise!Receive(t)
  <1> DEFINE t == r.target
             i == Head(r.records)
             a == applied[t]
             p == Produced
             E == Range(a)
             s == session[r.node][t]
  <1>1. TypeOK /\ LogOK /\ TravelOK /\ \A y \in Target : AppliedOK(y)
    BY DEF ShuffleInv
  <1>2. /\ log \in Seq(Record) /\ requests \subseteq Requests /\ applied \in [Target -> Seq(Index)]
    BY <1>1, Shapes
  <1>3. r \in Requests /\ t \in Target /\ a \in Seq(Index)
    BY <1>2, RequestIs
  <1>4. p \in 0 .. MaxMessages /\ p \in Nat
    BY <1>1, <1>2, ProducedIs
  <1>5. IsPrefixOf(a, Chosen(dest, p, t))
    BY <1>1, <1>3 DEF AppliedOK
  <1>5r. RequestOK(dest, p, E, s, r)
    BY <1>1 DEF TravelOK
  <1>6. /\ applied' = [applied EXCEPT ![t] = IF a # <<>> /\ Last(a) >= i THEN a ELSE Append(a, i)]
        /\ UNCHANGED <<log, dest>>
    BY <1>2, <1>3 DEF AppendRecord, IsDuplicate
  <1>7. Produced' = Produced
    BY <1>6 DEF Produced
  <1> HIDE DEF p, s, E
  <1>8. /\ i \in Index /\ dest[i] = t /\ i < p
        /\ \A j \in 0 .. i - 1 : dest[j] = t => j \in E
    <2>1. r \in Requests /\ p \in Nat
      BY <1>3, <1>4
    <2>2. /\ Head(r.records) \in Index /\ dest[Head(r.records)] = r.target /\ Head(r.records) < p
          /\ \A j \in 0 .. Head(r.records) - 1 : dest[j] = r.target => j \in E
      BY <1>5r, <2>1, RequestFirst
    <2> QED
      BY <2>2
  <1>9. \A j \in 0 .. i - 1 : dest[j] = t => j \in Range(a)
    BY <1>8 DEF E
  <1> HIDE DEF t, i, a
  <1>10. /\ i \in Range(a) <=> (a # <<>> /\ Last(a) >= i)
         /\ i \notin Range(a) => /\ Len(a) < Len(Chosen(dest, p, t))
                                 /\ Chosen(dest, p, t)[Len(a) + 1] = i
    BY <1>3, <1>4, <1>5, <1>8, <1>9, NextOne
  <1>11. CASE i \in Range(a)
    <2>1. applied' = applied
      BY <1>2, <1>3, <1>6, <1>10, <1>11 DEF a
    <2> QED
      BY <1>6, <1>7, <2>1, ChannelsStutter
  <1>12. CASE i \notin Range(a)
    <2>1. applied' = [applied EXCEPT ![t] = Append(a, i)]
      BY <1>6, <1>10, <1>12
    <2>2. Destined(t) = Chosen(dest, p, t)
      BY DestinedIs DEF p
    <2>3. Len(a) < Len(Destined(t)) /\ Destined(t)[Len(a) + 1] = i
      BY <1>10, <1>12, <2>2
    <2>4. a # Destined(t)
      <3>1. Len(a) \in Nat
        BY <1>3
      <3> QED
        BY <2>3, <3>1
    <2>5. \A y \in Target : Destined(y)' = Destined(y)
      BY <1>6, <1>7, DestinedIs, Destined2Is
    <2> DEFINE sent == [y \in Target |-> Destined(y)]
    <2>6. [y \in Target |-> Destined(y)'] = sent /\ sent[t] = Destined(t)
      BY <1>3, <2>5
    <2>7. applied[t] # sent[t] /\ applied' = [applied EXCEPT ![t] = Append(@, sent[t][Len(@) + 1])]
      BY <1>2, <1>3, <2>1, <2>3, <2>4, <2>6 DEF a
    <2>8. Promise!Receive(t)
      BY <2>6, <2>7 DEF Promise!Receive
    <2> QED
      BY <1>3, <2>8
  <1> QED
    BY <1>11, <1>12

LEMMA StepOfChannels ==
    ASSUME ShuffleInv, [Next]_vars PROVE [Promise!Next]_(Promise!channels)
  <1>1. log \in Seq(Record)
    <2>1. TypeOK
      BY DEF ShuffleInv
    <2> QED
      BY <2>1, Shapes
  <1>2. CASE Produce
    BY <1>2, ProduceSends DEF Promise!Next
  <1>3. ASSUME NEW r \in requests, AppendRecord(r)
        PROVE  [Promise!Next]_(Promise!channels)
    BY <1>3, AppendReceives DEF Promise!Next
  <1>4. ASSUME NEW n \in Node, RunForLeader(n) PROVE UNCHANGED Promise!channels
    <2> DEFINE x == [kind |-> "announce", epoch |-> epoch + 1, index |-> NONE]
    <2>1. epoch \in Nat /\ epoch < MaxEpoch
      <3>1. TypeOK
        BY DEF ShuffleInv
      <3>2. epoch \in 0 .. MaxEpoch
        BY <3>1, Shapes
      <3> QED
        BY <1>4, <3>2 DEF RunForLeader
    <2>2. epoch + 1 \in 0 .. MaxEpoch
      BY <2>1, ShuffleAssumption
    <2>3. x \in Record /\ x.kind # "enqueue"
      BY <2>2, FixedValues
    <2>4. log' = Append(log, x) /\ UNCHANGED <<dest, applied>>
      BY <1>4 DEF RunForLeader
    <2> HIDE DEF x
    <2>5. Produced' = Produced
      BY <1>1, <2>3, <2>4, OthersAppended
    <2> QED
      BY <2>4, <2>5, ChannelsStutter
  <1>5. ASSUME NEW n \in Node, ProposeTruncation(n) PROVE UNCHANGED Promise!channels
    <2> DEFINE x == [kind |-> "truncate", epoch |-> shuffle[n].epoch, index |-> shuffle[n].truncation]
    <2>1. shuffle[n] \in Shuffles
      <3>1. TypeOK
        BY DEF ShuffleInv
      <3> QED
        BY <3>1, Shapes
    <2>2. x \in Record /\ x.kind # "enqueue"
      BY <2>1 DEF Shuffles, Record
    <2>3. log' = Append(log, x) /\ UNCHANGED <<dest, applied>>
      BY <1>5 DEF ProposeTruncation
    <2> HIDE DEF x
    <2>4. Produced' = Produced
      BY <1>1, <2>2, <2>3, OthersAppended
    <2> QED
      BY <2>3, <2>4, ChannelsStutter
  <1>6. ASSUME UNCHANGED <<log, dest, applied>> PROVE UNCHANGED Promise!channels
    <2>1. Produced' = Produced
      BY <1>6 DEF Produced
    <2> QED
      BY <1>6, <2>1, ChannelsStutter
  <1>7. ASSUME NEW n \in Node,
               BecomeLeader(n) \/ Apply(n) \/ Restart(n) \/ OnHint(n) \/ ReadOutbox(n) \/ OnCommitted(n)
        PROVE  UNCHANGED <<log, dest, applied>>
    BY <1>7 DEF BecomeLeader, Apply, Restart, OnHint, ReadOutbox, OnCommitted
  <1>8. ASSUME NEW n \in Node, NEW t \in Target, SendBatch(n, t) \/ RequestFails(n, t)
        PROVE  UNCHANGED <<log, dest, applied>>
    BY <1>8 DEF SendBatch, RequestFails
  <1>9. CASE UNCHANGED vars
    <2>1. UNCHANGED <<log, dest, applied>>
      BY <1>9 DEF vars
    <2> QED
      BY <1>6, <2>1
  <1>10. \/ Produce \/ UNCHANGED vars \/ UNCHANGED <<log, dest, applied>>
         \/ \E n \in Node : RunForLeader(n) \/ ProposeTruncation(n)
         \/ \E r \in requests : AppendRecord(r)
    BY <1>7, <1>8 DEF Next
  <1> QED
    BY <1>2, <1>3, <1>4, <1>5, <1>6, <1>9, <1>10

LEMMA InitOfChannels == Init => Promise!Init
  <1> SUFFICES ASSUME Init PROVE Promise!Init
    OBVIOUS
  <1>1. applied = [t \in Target |-> <<>>]
    BY DEF Init
  <1>2. Produced = 0 /\ 0 \in 0 .. MaxMessages
    BY InitLog, ShuffleAssumption
  <1>3. ASSUME NEW t \in Target PROVE Destined(t) = <<>>
    <2>1. PICK f : Scan(dest, t, 0, f) /\ Chosen(dest, 0, t) = f[0]
      BY <1>2, ChosenIs
    <2>2. Chosen(dest, 0, t) = <<>>
      BY <2>1 DEF Scan
    <2> QED
      BY <1>2, <2>2, DestinedIs
  <1> QED
    BY <1>1, <1>3 DEF Promise!Init

(* Whatever leaders, shuffles, sessions and requests fail, are repeated or *)
(* overlap, a target applies the messages for it once, in the order of the *)
(* outbox, and none before those in front of it.  (shuffle.rs, session.rs, *)
(* is_duplicate)                                                           *)
THEOREM ShuffleRefinesChannels == Spec => DeliversLikeChannels
  <1>1. Init => Promise!Init
    BY InitOfChannels
  <1>2. ShuffleInv /\ [Next]_vars => [Promise!Next]_(Promise!channels)
    BY StepOfChannels
  <1> QED
    BY <1>1, <1>2, ShuffleInvariant, PTL DEF Spec, DeliversLikeChannels, Promise!Spec
=============================================================================
