------------------------- MODULE LogletWorkerProofs -------------------------
(***************************************************************************)
(* One log server for every number of offsets, every length of the channel *)
(* to the writer and every kind of query: the type invariant, the three    *)
(* safety properties of LogletWorker, and its refinement of LogServer.     *)
(***************************************************************************)
EXTENDS LogletWorker, TLAPS

-----------------------------------------------------------------------------
(* The inductive invariant.  What the server promises depends on commands  *)
(* that are still in the queue, so the invariant says what each of them    *)
(* may still do, as long as the writer commits.                            *)

Writing == writer \in {"running", "draining"}

IsWrite(c) == c.kind \in {"store", "repair"}

\* the offset of a command, by its kind
CommandOK(c) ==
    /\ IsWrite(c) => c.offset \in Offset
    /\ c.kind = "trim" => c.offset < localTail /\ c.offset < committed
    /\ c.kind = "sync" => c.offset \in TailOffset /\ c.offset <= committed

CommandsOK == \A i \in 1 .. Len(queue) : CommandOK(queue[i])

StoreWaitersOK == \A w \in waiters : w.kind = "store" => w.target > OLDEST

\* what a restart takes for the known global tail was known before
TailsKnown == globalTail <= committed /\ diskTail <= committed /\ diskTrim < committed

\* the local tail is the one that load_loglet_state would find
TailExact ==
    /\ diskTrim < localTail
    /\ \A o \in records \cup trimmed : o < localTail
    /\ localTail = OLDEST \/ localTail = diskTrim + 1 \/ localTail - 1 \in records

\* below the local tail, committed elsewhere, or written by one of the first n commands
Covered(o, n) ==
    \/ o < localTail \/ o < committed
    \/ \E j \in 1 .. n : IsWrite(queue[j]) /\ queue[j].offset = o

StagingCovered ==
    Writing => \A o \in Offset : o < stagingTail => Covered(o, Len(queue))

QueueCovered ==
    Writing => \A i \in 1 .. Len(queue) : IsWrite(queue[i]) =>
                  \A o \in Offset : o < queue[i].offset => Covered(o, i - 1)

\* no store of the sequencer is behind a seal
SealOrdered ==
    Writing => \A i \in 1 .. Len(queue) : queue[i].kind = "store" =>
                  ~sealed /\ \A j \in 1 .. i - 1 : queue[j].kind # "seal"

SealKnown ==
    /\ Writing => ~disabled
    /\ Writing /\ (\E i \in 1 .. Len(queue) : queue[i].kind = "seal") => sealEnqueued \/ sealed
    /\ sealedAt # {} => sealed

QueueInv == CommandsOK /\ StagingCovered /\ QueueCovered /\ SealOrdered /\ SealKnown

DiskInv == TailsKnown /\ TailExact /\ NoHoles /\ AckedStoresSurvive

WorkerInv == TypeOK /\ StoreWaitersOK /\ QueueInv /\ DiskInv /\ SealIsFinal

-----------------------------------------------------------------------------
(* Facts about the operators *)

LEMMA OffsetIsNat ==
    /\ MaxOffset \in Nat /\ MaxQueue \in Nat
    /\ \A o \in Offset : o \in Nat /\ o >= 1 /\ o <= MaxOffset /\ o + 1 \in TailOffset
    /\ \A t \in TailOffset : t \in Nat /\ t >= 1 /\ t <= MaxOffset + 1
    /\ \A t \in TailOffset : t > 1 => t - 1 \in Offset
    /\ OLDEST \in TailOffset
  BY WorkerAssumption DEF Offset, TailOffset, OLDEST

LEMMA NextNumber == \A a, b \in Nat : a - 1 <= b /\ b < a => a = b + 1
  OBVIOUS

LEMMA LaterTail ==
    ASSUME NEW a \in TailOffset, NEW b \in TailOffset
    PROVE  Later(a, b) \in TailOffset /\ Later(a, b) >= a /\ Later(a, b) >= b
  BY OffsetIsNat DEF Later

\* update_global_tail keeps the known tail below what the server was told
LEMMA ToldTail ==
    ASSUME TypeOK, TailsKnown, NEW t \in TailOffset, UpdateGlobalTail(t)
    PROVE  /\ globalTail' \in TailOffset /\ globalChanged' \in BOOLEAN /\ committed' \in TailOffset
           /\ committed' >= committed /\ globalTail' <= committed' /\ t <= committed'
           /\ globalTail' >= globalTail
  BY OffsetIsNat DEF UpdateGlobalTail, TypeOK, TailsKnown, Later

LEMMA QueueFacts ==
    ASSUME TypeOK
    PROVE  /\ Len(queue) \in Nat
           /\ \A i \in 1 .. Len(queue) : queue[i] \in Command
  BY DEF TypeOK

-----------------------------------------------------------------------------
(* Steps that leave the disk, or the queue, alone *)

\* acknowledgements of what is below a known tail, answers to seals
LEMMA DiskFrame ==
    ASSUME TypeOK, DiskInv, SealIsFinal,
           UNCHANGED <<diskVars, localTail, trimmed>>,
           committed' \in TailOffset, committed' >= committed, globalTail' <= committed',
           acked' \subseteq Offset, sealed => acked' = acked,
           \A a \in acked' \ acked : a < localTail \/ a < committed',
           sealedAt' \subseteq sealedAt \cup {localTail}, sealedAt' # {} => sealed
    PROVE  DiskInv' /\ SealIsFinal'
  <1> USE OffsetIsNat DEF diskVars
  <1>1. TailsKnown' /\ TailExact' /\ NoHoles'
    BY DEF DiskInv, TypeOK, TailsKnown, TailExact, NoHoles, Safe
  <1>2. AckedStoresSurvive'
    <2> SUFFICES ASSUME NEW a \in acked' PROVE Safe(a)'
      BY DEF AckedStoresSurvive
    <2>1. CASE a \in acked
      BY <2>1 DEF DiskInv, AckedStoresSurvive, Safe, TypeOK
    <2>2. CASE a \notin acked
      <3>1. a \in Offset /\ (a < localTail \/ a < committed')
        BY <2>2
      <3>2. a < localTail => Safe(a)
        BY <3>1 DEF DiskInv, NoHoles
      <3> QED
        BY <3>1, <3>2 DEF Safe, TypeOK
    <2> QED
      BY <2>1, <2>2
  <1>3. SealIsFinal'
    <2> SUFFICES ASSUME NEW u \in sealedAt', NEW a \in acked' PROVE a < u \/ a < committed'
      BY DEF SealIsFinal
    <2>1. a \in acked /\ a \in Offset
      BY DEF TypeOK
    <2>2. CASE u \in sealedAt
      BY <2>1, <2>2 DEF SealIsFinal, TypeOK
    <2>3. CASE u = localTail
      BY <2>1, <2>3 DEF DiskInv, AckedStoresSurvive, Safe, TailExact, TypeOK
    <2> QED
      BY <2>2, <2>3
  <1> QED
    BY <1>1, <1>2, <1>3 DEF DiskInv

LEMMA QueueFrame ==
    ASSUME TypeOK, QueueInv,
           UNCHANGED <<queue, writer, disabled, localTail, sealed>>,
           stagingTail' \in {stagingTail, localTail},
           Writing => (sealEnqueued => sealEnqueued' \/ sealed),
           sealedAt' # {} => sealed,
           committed' \in TailOffset, committed' >= committed
    PROVE  QueueInv'
  <1> USE OffsetIsNat, QueueFacts
  <1>1. CommandsOK'
    <2>1. \A i \in 1 .. Len(queue) : CommandOK(queue[i]) /\ queue[i].offset \in Nat
      BY DEF QueueInv, CommandsOK, Command
    <2> QED
      BY <2>1 DEF CommandsOK, CommandOK, IsWrite, TypeOK
  <1>2. ASSUME NEW o \in Offset, NEW n \in Nat, Covered(o, n)
        PROVE  Covered(o, n)'
    BY <1>2 DEF Covered, TypeOK
  <1>3. StagingCovered'
    BY <1>2 DEF QueueInv, StagingCovered, Writing, Covered, TypeOK
  <1>4. QueueCovered'
    BY <1>2 DEF QueueInv, QueueCovered, Writing, IsWrite
  <1>5. SealOrdered' /\ SealKnown'
    BY DEF QueueInv, SealOrdered, SealKnown, Writing
  <1> QED
    BY <1>1, <1>3, <1>4, <1>5 DEF QueueInv

\* one more command in the channel
LEMMA QueueAppend ==
    ASSUME TypeOK, QueueInv, NEW c \in Command, queue' = Append(queue, c),
           UNCHANGED <<writer, disabled, localTail, sealed, sealedAt>>,
           sealEnqueued => sealEnqueued',
           committed' \in TailOffset, committed' >= committed,
           CommandOK(c)',
           \/ stagingTail' = stagingTail
           \/ stagingTail' = Later(stagingTail, c.offset + 1) /\ IsWrite(c),
           IsWrite(c) => \A o \in Offset : o < c.offset => o < stagingTail \/ o < committed',
           c.kind = "store" => ~sealed /\ ~sealEnqueued,
           c.kind = "seal" => sealEnqueued'
    PROVE  QueueInv'
  <1> USE OffsetIsNat, QueueFacts
  <1>0. /\ Len(queue') = Len(queue) + 1
        /\ \A i \in 1 .. Len(queue) : queue'[i] = queue[i]
        /\ queue'[Len(queue) + 1] = c
    BY DEF TypeOK
  <1>1. CommandsOK'
    <2> SUFFICES ASSUME NEW i \in 1 .. Len(queue) + 1
                 PROVE  CommandOK(queue[i])'
      BY <1>0 DEF CommandsOK
    <2>1. CASE i \in 1 .. Len(queue)
      <3>1. CommandOK(queue[i]) /\ queue'[i] = queue[i] /\ queue[i].offset \in Nat
        BY <1>0, <2>1 DEF QueueInv, CommandsOK, Command
      <3>2. committed \in Nat /\ committed' \in Nat
        BY DEF TypeOK
      <3> QED
        BY <3>1, <3>2 DEF CommandOK, IsWrite
    <2>2. CASE i = Len(queue) + 1
      BY <1>0, <2>2 DEF CommandOK, IsWrite
    <2> QED
      BY <2>1, <2>2
  <1>2. ASSUME NEW o \in Offset, NEW n \in 0 .. Len(queue), Covered(o, n)
        PROVE  \A m \in Nat : m >= n => Covered(o, m)'
    <2>1. CASE o < localTail \/ o < committed
      BY <2>1 DEF Covered, TypeOK
    <2>2. CASE \E j \in 1 .. n : IsWrite(queue[j]) /\ queue[j].offset = o
      <3> PICK j \in 1 .. n : IsWrite(queue[j]) /\ queue[j].offset = o
        BY <2>2
      <3> queue'[j] = queue[j]
        BY <1>0
      <3> SUFFICES ASSUME NEW m \in Nat, m >= n
                   PROVE  \E k \in 1 .. m : IsWrite(queue'[k]) /\ queue'[k].offset = o
        BY DEF Covered, IsWrite
      <3> j \in 1 .. m
        OBVIOUS
      <3> QED
        OBVIOUS
    <2> QED
      BY <1>2, <2>1, <2>2 DEF Covered
  <1>3. ASSUME Writing, NEW o \in Offset, o < stagingTail
        PROVE  \A m \in Nat : m >= Len(queue) => Covered(o, m)'
    BY <1>2, <1>3 DEF QueueInv, StagingCovered
  <1>4. ASSUME Writing, NEW o \in Offset, IsWrite(c), o < c.offset
        PROVE  \A m \in Nat : m >= Len(queue) => Covered(o, m)'
    <2>1. CASE o < stagingTail
      BY <1>3, <1>4, <2>1
    <2>2. CASE o < committed'
      BY <2>2 DEF Covered, IsWrite
    <2> QED
      BY <1>4, <2>1, <2>2
  <1>5. StagingCovered'
    <2> SUFFICES ASSUME Writing, NEW o \in Offset, o < stagingTail'
                 PROVE  \A m \in Nat : m = Len(queue) + 1 => Covered(o, m)'
      BY <1>0 DEF StagingCovered, Writing
    <2>1. CASE o < stagingTail
      BY <1>3, <2>1
    <2>2. CASE IsWrite(c) /\ o < c.offset
      BY <1>4, <2>2
    <2>3. CASE IsWrite(c) /\ o = c.offset
      BY <1>0, <2>3 DEF Covered, IsWrite
    <2>4. c.offset \in Nat /\ stagingTail \in Nat
      BY DEF Command, TypeOK
    <2> QED
      BY <2>1, <2>2, <2>3, <2>4 DEF Later
  <1>6. QueueCovered'
    <2> SUFFICES ASSUME Writing, NEW i \in 1 .. Len(queue) + 1, IsWrite(queue'[i]),
                        NEW o \in Offset, o < queue'[i].offset
                 PROVE  Covered(o, i - 1)'
      BY <1>0 DEF QueueCovered, Writing, IsWrite
    <2>1. CASE i \in 1 .. Len(queue)
      <3>1. Covered(o, i - 1)
        BY <1>0, <2>1 DEF QueueInv, QueueCovered
      <3> QED
        BY <1>2, <2>1, <3>1
    <2>2. CASE i = Len(queue) + 1
      BY <1>0, <1>4, <2>2
    <2> QED
      BY <2>1, <2>2
  <1>7. SealOrdered' /\ SealKnown'
    BY <1>0 DEF QueueInv, SealOrdered, SealKnown, Writing, TypeOK
  <1> QED
    BY <1>1, <1>5, <1>6, <1>7 DEF QueueInv

-----------------------------------------------------------------------------
(* Requests *)

LEMMA InitInv == Init => WorkerInv
  <1> SUFFICES ASSUME Init PROVE WorkerInv
    OBVIOUS
  <1> USE OffsetIsNat, WorkerAssumption
  <1>1. TypeOK /\ StoreWaitersOK
    <2>1. queue \in Seq(Command) /\ Len(queue) <= MaxQueue
      BY DEF Init
    <2>2. 0 \in 0 .. MaxOffset /\ 1 \in TailOffset
      BY DEF OLDEST
    <2>3. /\ writer \in {"running", "draining", "failing", "stopped"} /\ disabled \in BOOLEAN
          /\ tailChanged \in BOOLEAN /\ globalChanged \in BOOLEAN /\ sealed \in BOOLEAN
          /\ sealEnqueued \in BOOLEAN /\ accepting \in BOOLEAN /\ sealJoined \in BOOLEAN
      BY DEF Init
    <2> QED
      BY <2>1, <2>2, <2>3 DEF Init, TypeOK, StoreWaitersOK, OLDEST, INVALID
  <1>2. QueueInv
    BY DEF Init, QueueInv, CommandsOK, StagingCovered, QueueCovered, SealOrdered, SealKnown,
       Covered, OLDEST
  <1>3. DiskInv /\ SealIsFinal
    BY DEF Init, DiskInv, TailsKnown, TailExact, NoHoles, AckedStoresSurvive, SealIsFinal,
       Safe, OLDEST, INVALID
  <1> QED
    BY <1>1, <1>2, <1>3 DEF WorkerInv

LEMMA GetLogletInfoInv ==
    ASSUME WorkerInv, NEW t \in TailOffset, GetLogletInfo(t)
    PROVE  WorkerInv'
  <1> USE DEF GetLogletInfo, diskVars, writerVars, stateVars, workerVars, waitVars, answerVars
  <1>1. /\ globalTail' \in TailOffset /\ globalChanged' \in BOOLEAN /\ committed' \in TailOffset
        /\ committed' >= committed /\ globalTail' <= committed'
    BY ToldTail DEF WorkerInv, DiskInv
  <1>2. QueueInv' /\ DiskInv' /\ SealIsFinal'
    BY <1>1, QueueFrame, DiskFrame DEF WorkerInv, TypeOK, QueueInv, SealKnown
  <1>3. TypeOK' /\ StoreWaitersOK'
    BY <1>1 DEF WorkerInv, TypeOK, StoreWaitersOK, MetaTurn
  <1> QED
    BY <1>2, <1>3 DEF WorkerInv

LEMMA DuplicateStoreInv ==
    ASSUME WorkerInv, NEW t \in TailOffset, NEW o \in Offset, DuplicateStore(o, t)
    PROVE  WorkerInv'
  <1> USE DEF DuplicateStore, diskVars, writerVars, stateVars, workerVars, answerVars
  <1>1. /\ globalTail' \in TailOffset /\ globalChanged' \in BOOLEAN /\ committed' \in TailOffset
        /\ committed' >= committed /\ globalTail' <= committed'
    BY ToldTail DEF WorkerInv, DiskInv
  <1>2. QueueInv'
    BY <1>1, QueueFrame DEF WorkerInv, QueueInv, SealKnown
  <1>3. TypeOK' /\ StoreWaitersOK'
    <2>1. late' = {} /\ acked' \subseteq Offset
      BY DEF DataTurn, GlobalTurn, MetaTurn, WorkerInv, TypeOK
    <2>2. \A w \in waiters' \ waiters : w \in Waiter /\ (w.kind = "store" => w.target > OLDEST)
      BY OffsetIsNat DEF Waiter, OLDEST
    <2>3. waiters' \subseteq Waiter /\ StoreWaitersOK'
      BY <2>2 DEF WorkerInv, TypeOK, StoreWaitersOK
    <2>4. UNCHANGED <<diskVars, writerVars, stateVars, workerVars, sealJoined, sealedAt, trimmed>>
      OBVIOUS
    <2> HIDE DEF DuplicateStore
    <2> QED
      BY <1>1, <2>1, <2>3, <2>4 DEF WorkerInv, TypeOK
  <1>4. \A a \in acked' \ acked : a = o /\ a < localTail
    BY OffsetIsNat DEF WorkerInv, TypeOK
  <1>5. ~sealed /\ sealedAt = {}
    BY DEF Admissible, WorkerInv, QueueInv, SealKnown
  <1>6. DiskInv' /\ SealIsFinal'
    <2>1. acked' \subseteq Offset
      BY DEF WorkerInv, TypeOK
    <2> QED
      BY <1>1, <1>4, <1>5, <2>1, DiskFrame DEF WorkerInv, TypeOK, QueueInv, SealKnown
  <1> QED
    BY <1>2, <1>3, <1>6 DEF WorkerInv

LEMMA ProcessStoreInv ==
    ASSUME WorkerInv, NEW t \in TailOffset, NEW o \in Offset, NEW isRepair \in BOOLEAN,
           ProcessStore(o, t, isRepair)
    PROVE  WorkerInv'
  <1> USE DEF ProcessStore, diskVars, stateVars, waitVars, answerVars
  <1>1. /\ globalTail' \in TailOffset /\ globalChanged' \in BOOLEAN /\ committed' \in TailOffset
        /\ committed' >= committed /\ globalTail' <= committed'
    BY ToldTail DEF WorkerInv, DiskInv
  <1>2. DiskInv' /\ SealIsFinal'
    BY <1>1, DiskFrame DEF WorkerInv, TypeOK, QueueInv, SealKnown
  <1>3. CASE Enqueueable
    <2> DEFINE c == [kind |-> IF isRepair THEN "repair" ELSE "store", offset |-> o]
    <2>1. /\ queue' = Append(queue, c) /\ Len(queue) < MaxQueue
          /\ stagingTail' = Later(stagingTail, o + 1)
          /\ accepting' = accepting
      BY <1>3 DEF Enqueue
    <2>2. c \in Command /\ c.offset = o /\ IsWrite(c) /\ CommandOK(c)'
      BY OffsetIsNat DEF Command, IsWrite, CommandOK
    <2>3. \A u \in Offset : u < o => u < stagingTail \/ u < committed'
      <3>1. o <= Later(stagingTail, globalTail')
        BY DEF Admissible, NextOk
      <3>2. stagingTail \in Nat /\ globalTail' \in Nat /\ committed' \in Nat /\ o \in Nat
        BY <1>1, OffsetIsNat DEF WorkerInv, TypeOK
      <3> QED
        BY <1>1, <3>1, <3>2, OffsetIsNat DEF Later
    <2>4. c.kind = "store" => ~sealed /\ ~sealEnqueued
      BY DEF Admissible, Writable
    <2>5. c.kind # "seal"
      OBVIOUS
    <2> HIDE DEF c
    <2>6. QueueInv'
      BY <1>1, <2>1, <2>2, <2>3, <2>4, <2>5, QueueAppend DEF WorkerInv
    <2>7. stagingTail' \in TailOffset
      BY <2>1, LaterTail, OffsetIsNat DEF WorkerInv, TypeOK
    <2>8. queue' \in Seq(Command) /\ Len(queue') <= MaxQueue
      BY <2>1, <2>2, OffsetIsNat DEF WorkerInv, TypeOK
    <2>9. TypeOK' /\ StoreWaitersOK'
      BY <1>1, <2>1, <2>7, <2>8 DEF WorkerInv, TypeOK, StoreWaitersOK, DataTurn, GlobalTurn, MetaTurn
    <2> QED
      BY <1>2, <2>6, <2>9 DEF WorkerInv
  <1>4. CASE ~Enqueueable
    <2>1. QueueInv'
      BY <1>1, <1>4, QueueFrame DEF WorkerInv, QueueInv, SealKnown
    <2>2. TypeOK' /\ StoreWaitersOK'
      BY <1>1, <1>4 DEF WorkerInv, TypeOK, StoreWaitersOK, DataTurn, GlobalTurn, MetaTurn
    <2> QED
      BY <1>2, <2>1, <2>2 DEF WorkerInv
  <1> QED
    BY <1>3, <1>4

LEMMA ProcessSealInv ==
    ASSUME WorkerInv, NEW t \in TailOffset, ProcessSeal(t)
    PROVE  WorkerInv'
  <1> USE DEF ProcessSeal, diskVars, stateVars
  <1>1. /\ globalTail' \in TailOffset /\ globalChanged' \in BOOLEAN /\ committed' \in TailOffset
        /\ committed' >= committed /\ globalTail' <= committed'
    BY ToldTail DEF WorkerInv, DiskInv
  <1>2. CASE sealed
    <2>1. queue' = queue /\ sealedAt' = sealedAt \cup {localTail} /\ sealJoined' = sealJoined
      BY <1>2
    <2>2. TypeOK' /\ StoreWaitersOK'
      BY <1>1, <1>2, <2>1 DEF WorkerInv, TypeOK, StoreWaitersOK, MetaTurn
    <2>3. QueueInv'
      BY <1>1, <1>2, <2>1, QueueFrame DEF WorkerInv, QueueInv, SealKnown
    <2>4. DiskInv' /\ SealIsFinal'
      BY <1>1, <1>2, <2>1, DiskFrame DEF WorkerInv, TypeOK
    <2> QED
      BY <2>2, <2>3, <2>4 DEF WorkerInv
  <1>3. CASE ~sealed
    <2>1. sealedAt' = sealedAt
      BY <1>3
    <2>2. DiskInv' /\ SealIsFinal'
      BY <1>1, <2>1, DiskFrame DEF WorkerInv, TypeOK, QueueInv, SealKnown
    <2>3. CASE sealEnqueued \/ ~Enqueueable
      <3>1. queue' = queue /\ (sealEnqueued => sealEnqueued') /\ sealEnqueued' \in BOOLEAN
            /\ sealJoined' \in BOOLEAN
        <4>1. CASE sealEnqueued
          BY <1>3, <4>1 DEF WorkerInv, TypeOK
        <4>2. CASE ~sealEnqueued
          <5>1. sealEnqueued' = Enqueueable /\ queue' = queue /\ sealJoined' = sealJoined
            BY <1>3, <2>3, <4>2
          <5> QED
            BY <2>3, <4>2, <5>1 DEF WorkerInv, TypeOK, Enqueueable
        <4> QED
          BY <4>1, <4>2
      <3>2. QueueInv'
        BY <1>1, <2>1, <3>1, QueueFrame DEF WorkerInv, QueueInv, SealKnown
      <3>3. TypeOK' /\ StoreWaitersOK'
        BY <1>1, <2>1, <3>1 DEF WorkerInv, TypeOK, StoreWaitersOK, MetaTurn
      <3> QED
        BY <2>2, <3>2, <3>3 DEF WorkerInv
    <2>4. CASE ~sealEnqueued /\ Enqueueable
      <3> DEFINE c == [kind |-> "seal", offset |-> INVALID]
      <3>1. /\ queue' = Append(queue, c) /\ Len(queue) < MaxQueue
            /\ sealEnqueued' = TRUE /\ sealJoined' = sealJoined
        BY <1>3, <2>4 DEF Enqueue
      <3>2. c \in Command /\ CommandOK(c)' /\ c.kind = "seal" /\ ~IsWrite(c)
        BY OffsetIsNat DEF Command, IsWrite, CommandOK, INVALID
      <3> HIDE DEF c
      <3>3. QueueInv'
        BY <1>1, <2>1, <3>1, <3>2, QueueAppend DEF WorkerInv
      <3>4. queue' \in Seq(Command) /\ Len(queue') <= MaxQueue
        BY <3>1, <3>2, OffsetIsNat DEF WorkerInv, TypeOK
      <3>5. TypeOK' /\ StoreWaitersOK'
        BY <1>1, <2>1, <3>1, <3>4 DEF WorkerInv, TypeOK, StoreWaitersOK, MetaTurn
      <3> QED
        BY <2>2, <3>3, <3>5 DEF WorkerInv
    <2> QED
      BY <2>3, <2>4
  <1> QED
    BY <1>2, <1>3

LEMMA ProcessTrimInv ==
    ASSUME WorkerInv, NEW t \in TailOffset, NEW p \in 1 .. MaxTrim, ProcessTrim(p, t)
    PROVE  WorkerInv'
  <1> USE DEF ProcessTrim, diskVars, workerVars, waitVars, answerVars
  <1> DEFINE clipped == Earlier(p, localTail - 1)
  <1>1. /\ globalTail' \in TailOffset /\ globalChanged' \in BOOLEAN /\ committed' \in TailOffset
        /\ committed' >= committed /\ globalTail' <= committed' /\ t <= committed'
    BY ToldTail DEF WorkerInv, DiskInv
  <1>2. DiskInv' /\ SealIsFinal'
    BY <1>1, DiskFrame DEF WorkerInv, TypeOK, QueueInv, SealKnown
  <1>3. clipped \in 0 .. MaxOffset /\ clipped < localTail /\ clipped < committed'
    BY <1>1, OffsetIsNat, WorkerAssumption DEF Earlier, WorkerInv, TypeOK
  <1>4. CASE Enqueueable
    <2> PICK c : c = [kind |-> "trim", offset |-> clipped]
      OBVIOUS
    <2>1. queue' = Append(queue, c) /\ Len(queue) < MaxQueue
      BY <1>4 DEF Enqueue
    <2>2. c \in Command /\ CommandOK(c)' /\ c.kind = "trim" /\ ~IsWrite(c)
      BY <1>3, OffsetIsNat DEF Command, IsWrite, CommandOK
    <2>3. QueueInv'
      BY <1>1, <2>1, <2>2, QueueAppend DEF WorkerInv
    <2>4. queue' \in Seq(Command) /\ Len(queue') <= MaxQueue
      BY <2>1, <2>2, OffsetIsNat DEF WorkerInv, TypeOK
    <2>5. TypeOK' /\ StoreWaitersOK'
      BY <1>1, <1>3, <2>4 DEF WorkerInv, TypeOK, StoreWaitersOK, MetaTurn
    <2> QED
      BY <1>2, <2>3, <2>5 DEF WorkerInv
  <1>5. CASE ~Enqueueable
    <2>1. QueueInv'
      BY <1>1, <1>5, QueueFrame DEF WorkerInv, QueueInv, SealKnown
    <2>2. TypeOK' /\ StoreWaitersOK'
      BY <1>1, <1>3, <1>5 DEF WorkerInv, TypeOK, StoreWaitersOK, MetaTurn
    <2> QED
      BY <1>2, <2>1, <2>2 DEF WorkerInv
  <1> QED
    BY <1>4, <1>5

LEMMA WaitForTailInv ==
    ASSUME WorkerInv, NEW t \in TailOffset, NEW q \in Queries, NEW target \in TailOffset,
           WaitForTail(q, target, t)
    PROVE  WorkerInv'
  <1> USE DEF WaitForTail, diskVars, writerVars, stateVars, workerVars, answerVars
  <1>1. /\ globalTail' \in TailOffset /\ globalChanged' \in BOOLEAN /\ committed' \in TailOffset
        /\ committed' >= committed /\ globalTail' <= committed'
    BY ToldTail DEF WorkerInv, DiskInv
  <1>2. QueueInv' /\ DiskInv' /\ SealIsFinal'
    BY <1>1, QueueFrame, DiskFrame DEF WorkerInv, TypeOK, QueueInv, SealKnown
  <1>3. q \in {"local", "global", "either"}
    BY WorkerAssumption
  <1>4. TypeOK' /\ StoreWaitersOK'
    BY <1>1, <1>3 DEF WorkerInv, TypeOK, StoreWaitersOK, MetaTurn, Waiter
  <1> QED
    BY <1>2, <1>4 DEF WorkerInv

LEMMA RequestsInv == WorkerInv /\ Requests => WorkerInv'
  BY GetLogletInfoInv, ProcessSealInv, DuplicateStoreInv, ProcessStoreInv, ProcessTrimInv,
     WaitForTailInv DEF Requests

-----------------------------------------------------------------------------
(* Events of the worker's select loop *)

LEMMA LatchedStores ==
    ASSUME TypeOK, StoreWaitersOK, NEW W \in SUBSET waiters
    PROVE  /\ Stores(W) \subseteq Offset
           /\ \A a \in Stores(W) : \E w \in W : w.kind = "store" /\ a < w.target
  <1> SUFFICES ASSUME NEW w \in W, w.kind = "store"
               PROVE  w.target - 1 \in Offset /\ w.target - 1 < w.target
    BY DEF Stores
  <1>1. w.target \in TailOffset /\ w.target > 1
    BY DEF TypeOK, StoreWaitersOK, Waiter, OLDEST
  <1> QED
    BY <1>1, OffsetIsNat

\* whoever is told Ok has its record below a tail the worker knows, and no
\* one is once the loglet is sealed
LEMMA ReleasedStores ==
    ASSUME WorkerInv, OnLocalTailChange \/ OnGlobalTailChange \/ OnWritesDisabled
    PROVE  /\ acked \subseteq acked' /\ acked' \subseteq Offset
           /\ sealed => acked' = acked
           /\ \A a \in acked' \ acked : a < localTail \/ a < globalTail
  <1>1. ASSUME NEW W \in SUBSET waiters,
               \A w \in W : w.target <= localTail \/ w.target <= globalTail
        PROVE  \A a \in Stores(W) : a \in Offset /\ (a < localTail \/ a < globalTail)
    <2>1. \A w \in W : w.target \in Nat
      BY OffsetIsNat DEF WorkerInv, TypeOK, Waiter
    <2>2. globalTail \in Nat /\ localTail \in Nat
      BY OffsetIsNat DEF WorkerInv, TypeOK
    <2> QED
      BY <1>1, <2>1, <2>2, LatchedStores, OffsetIsNat DEF WorkerInv
  <1>2. acked \subseteq Offset
    BY DEF WorkerInv, TypeOK
  <1>3. CASE sealed
    BY <1>2, <1>3 DEF OnLocalTailChange, OnGlobalTailChange, OnWritesDisabled
  <1>4. ASSUME ~sealed, OnLocalTailChange
        PROVE  \E W \in SUBSET waiters : /\ acked' = acked \cup Stores(W)
                                         /\ \A w \in W : w.target <= localTail
    <2> DEFINE resolved == {w \in LocalWaiters : w.target <= localTail}
    <2>1. acked' = acked \cup Stores(resolved)
      BY <1>4 DEF OnLocalTailChange
    <2>2. resolved \in SUBSET waiters /\ \A w \in resolved : w.target <= localTail
      BY DEF LocalWaiters
    <2> QED
      BY <2>1, <2>2
  <1>5. ASSUME ~sealed, OnGlobalTailChange
        PROVE  \E W \in SUBSET waiters : /\ acked' = acked \cup Stores(W)
                                         /\ \A w \in W : w.target <= globalTail
    <2> DEFINE resolved == {w \in GlobalWaiters : w.target <= globalTail}
    <2>1. acked' = acked \cup Stores(resolved)
      BY <1>5 DEF OnGlobalTailChange
    <2>2. resolved \in SUBSET waiters /\ \A w \in resolved : w.target <= globalTail
      BY DEF GlobalWaiters
    <2> QED
      BY <2>1, <2>2
  <1>6. ASSUME ~sealed, OnWritesDisabled
        PROVE  \E W \in SUBSET waiters :
                 /\ acked' = acked \cup Stores(W)
                 /\ \A w \in W : w.target <= localTail \/ w.target <= globalTail
    <2> DEFINE reached == {w \in waiters : \/ sealed
                                           \/ w \in GlobalWaiters /\ w.target <= globalTail
                                           \/ w \in LocalWaiters /\ w.target <= localTail}
    <2>1. acked' = acked \cup Stores(reached)
      BY <1>6 DEF OnWritesDisabled
    <2>2. reached \in SUBSET waiters /\ \A w \in reached : w.target <= localTail \/ w.target <= globalTail
      BY <1>6
    <2> QED
      BY <2>1, <2>2
  <1>7. CASE ~sealed
    <2>1. PICK W \in SUBSET waiters : /\ acked' = acked \cup Stores(W)
                                      /\ \A w \in W : w.target <= localTail \/ w.target <= globalTail
      BY <1>4, <1>5, <1>6, <1>7
    <2> QED
      BY <1>1, <1>2, <1>7, <2>1
  <1> QED
    BY <1>3, <1>7

\* the frames, for a step that releases stores and changes no known tail
LEMMA ReleaseFrame ==
    ASSUME WorkerInv, OnLocalTailChange \/ OnGlobalTailChange \/ OnWritesDisabled,
           UNCHANGED <<diskVars, writerVars, localTail, globalTail, committed, trimmed>>,
           stagingTail' \in {stagingTail, localTail},
           Writing => (sealEnqueued => sealEnqueued' \/ sealed),
           sealedAt' \subseteq sealedAt \cup {localTail}, sealedAt' # {} => sealed
    PROVE  QueueInv' /\ DiskInv' /\ SealIsFinal' /\ acked' \subseteq Offset
  <1> USE DEF diskVars, writerVars
  <1>1. /\ committed' \in TailOffset /\ committed' >= committed /\ globalTail' <= committed'
        /\ globalTail \in Nat /\ committed \in Nat
    BY OffsetIsNat DEF WorkerInv, TypeOK, DiskInv, TailsKnown
  <1>2. QueueInv'
    BY <1>1, QueueFrame DEF WorkerInv
  <1>3. /\ acked' \subseteq Offset /\ (sealed => acked' = acked)
        /\ \A a \in acked' \ acked : a < localTail \/ a < committed'
    BY <1>1, ReleasedStores, OffsetIsNat
  <1>4. DiskInv' /\ SealIsFinal'
    BY <1>1, <1>3, DiskFrame DEF WorkerInv
  <1> QED
    BY <1>2, <1>3, <1>4

LEMMA OnLocalTailChangeInv == WorkerInv /\ OnLocalTailChange => WorkerInv'
  <1> SUFFICES ASSUME WorkerInv, OnLocalTailChange PROVE WorkerInv'
    OBVIOUS
  <1> USE DEF diskVars, writerVars, globalVars
  <1>1. /\ UNCHANGED <<diskVars, writerVars, localTail, trimPoint, globalVars, syncedTail, accepting,
                       trimmed>>
        /\ tailChanged' = FALSE /\ late' = {} /\ waiters' \subseteq waiters
    BY DEF OnLocalTailChange, MetaTurn
  <1>2. /\ stagingTail' \in {stagingTail, localTail}
        /\ sealEnqueued => sealEnqueued' \/ sealed
        /\ sealedAt' \subseteq sealedAt \cup {localTail}
        /\ sealedAt' # {} => sealed
    BY DEF OnLocalTailChange, WorkerInv, QueueInv, SealKnown
  <1>3. sealEnqueued' \in BOOLEAN /\ sealJoined' \in BOOLEAN
    BY DEF OnLocalTailChange, WorkerInv, TypeOK
  <1>4. QueueInv' /\ DiskInv' /\ SealIsFinal' /\ acked' \subseteq Offset
    BY <1>1, <1>2, ReleaseFrame
  <1>5. TypeOK' /\ StoreWaitersOK'
    BY <1>1, <1>2, <1>3, <1>4 DEF WorkerInv, TypeOK, StoreWaitersOK
  <1> QED
    BY <1>4, <1>5 DEF WorkerInv

LEMMA OnGlobalTailChangeInv == WorkerInv /\ OnGlobalTailChange => WorkerInv'
  <1> SUFFICES ASSUME WorkerInv, OnGlobalTailChange PROVE WorkerInv'
    OBVIOUS
  <1> USE DEF diskVars, writerVars, stateVars, workerVars
  <1>1. /\ UNCHANGED <<diskVars, writerVars, stateVars, globalTail, committed, workerVars, sealJoined,
                       sealedAt, trimmed>>
        /\ globalChanged' = FALSE /\ late' = {} /\ waiters' \subseteq waiters
    BY DEF OnGlobalTailChange, GlobalTurn, MetaTurn
  <1>2. sealedAt' # {} => sealed
    BY <1>1 DEF WorkerInv, QueueInv, SealKnown
  <1>3. QueueInv' /\ DiskInv' /\ SealIsFinal' /\ acked' \subseteq Offset
    BY <1>1, <1>2, ReleaseFrame
  <1>4. TypeOK' /\ StoreWaitersOK'
    BY <1>1, <1>3 DEF WorkerInv, TypeOK, StoreWaitersOK
  <1> QED
    BY <1>3, <1>4 DEF WorkerInv

LEMMA OnWritesDisabledInv == WorkerInv /\ OnWritesDisabled => WorkerInv'
  <1> SUFFICES ASSUME WorkerInv, OnWritesDisabled PROVE WorkerInv'
    OBVIOUS
  <1> USE DEF diskVars, writerVars, stateVars, globalVars
  <1>1. /\ UNCHANGED <<diskVars, writerVars, stateVars, globalVars, syncedTail, trimmed>>
        /\ disabled /\ accepting' = FALSE /\ late' = {}
        /\ waiters' \subseteq waiters
        /\ sealedAt' = IF sealJoined /\ sealed THEN sealedAt \cup {localTail} ELSE sealedAt
        /\ stagingTail' = localTail /\ sealEnqueued' = FALSE /\ sealJoined' = FALSE
    BY DEF OnWritesDisabled
  <1>2. ~Writing /\ sealedAt' \subseteq sealedAt \cup {localTail} /\ (sealedAt' # {} => sealed)
    BY <1>1 DEF WorkerInv, QueueInv, SealKnown
  <1>3. QueueInv' /\ DiskInv' /\ SealIsFinal' /\ acked' \subseteq Offset
    BY <1>1, <1>2, ReleaseFrame
  <1>4. TypeOK' /\ StoreWaitersOK'
    BY <1>1, <1>2, <1>3 DEF WorkerInv, TypeOK, StoreWaitersOK
  <1> QED
    BY <1>3, <1>4 DEF WorkerInv

LEMMA PersistGlobalTailInv == WorkerInv /\ PersistGlobalTail => WorkerInv'
  <1> SUFFICES ASSUME WorkerInv, PersistGlobalTail PROVE WorkerInv'
    OBVIOUS
  <1> USE DEF PersistGlobalTail, diskVars, stateVars, globalVars, waitVars, answerVars
  <1>1. /\ committed' \in TailOffset /\ committed' >= committed /\ globalTail' <= committed'
        /\ globalTail \in TailOffset /\ globalTail <= committed'
    BY OffsetIsNat DEF WorkerInv, TypeOK, DiskInv, TailsKnown
  <1>2. DiskInv' /\ SealIsFinal'
    BY <1>1, DiskFrame DEF WorkerInv, TypeOK, QueueInv, SealKnown
  <1>3. CASE Enqueueable
    <2> PICK c : c = [kind |-> "sync", offset |-> globalTail]
      OBVIOUS
    <2>1. queue' = Append(queue, c) /\ Len(queue) < MaxQueue
      BY <1>3 DEF Enqueue
    <2>2. c \in Command /\ CommandOK(c)' /\ c.kind = "sync" /\ ~IsWrite(c)
      BY <1>1, OffsetIsNat DEF Command, IsWrite, CommandOK
    <2>3. QueueInv'
      BY <1>1, <2>1, <2>2, QueueAppend DEF WorkerInv
    <2>4. queue' \in Seq(Command) /\ Len(queue') <= MaxQueue
      BY <2>1, <2>2, OffsetIsNat DEF WorkerInv, TypeOK
    <2>5. TypeOK' /\ StoreWaitersOK'
      BY <1>1, <2>4 DEF WorkerInv, TypeOK, StoreWaitersOK, DataTurn, GlobalTurn, MetaTurn
    <2> QED
      BY <1>2, <2>3, <2>5 DEF WorkerInv
  <1>4. CASE ~Enqueueable
    <2>1. QueueInv'
      BY <1>1, <1>4, QueueFrame DEF WorkerInv, QueueInv, SealKnown
    <2>2. TypeOK' /\ StoreWaitersOK'
      BY <1>1, <1>4 DEF WorkerInv, TypeOK, StoreWaitersOK, DataTurn, GlobalTurn, MetaTurn
    <2> QED
      BY <1>2, <2>1, <2>2 DEF WorkerInv
  <1> QED
    BY <1>3, <1>4

-----------------------------------------------------------------------------
(* The writer *)

\* what the first k commands write, and which of it a sequencer waits for
Written(k) == {queue[i].offset : i \in {j \in 1 .. k : IsWrite(queue[j])}}

Stored(k) == {queue[i].offset : i \in {j \in 1 .. k : queue[j].kind = "store"}}

Sealing(k) == \E i \in 1 .. k : queue[i].kind = "seal"

LEMMA DropPrefix ==
    ASSUME TypeOK, NEW k \in 1 .. Len(queue), queue' = SubSeq(queue, k + 1, Len(queue))
    PROVE  /\ Len(queue') = Len(queue) - k
           /\ \A i \in 1 .. Len(queue) - k : queue'[i] = queue[i + k] /\ i + k \in 1 .. Len(queue)
           /\ queue' \in Seq(Command) /\ Len(queue') <= MaxQueue
  BY QueueFacts, OffsetIsNat DEF TypeOK

LEMMA WrittenFacts ==
    ASSUME TypeOK, QueueInv, NEW k \in 1 .. Len(queue)
    PROVE  /\ Written(k) \subseteq Offset /\ Stored(k) \subseteq Written(k)
           /\ \A i \in 1 .. k : queue[i] \in Command /\ CommandOK(queue[i]) /\ queue[i].offset \in Nat
  <1>1. \A i \in 1 .. k : queue[i] \in Command /\ CommandOK(queue[i]) /\ queue[i].offset \in Nat
    BY QueueFacts, OffsetIsNat DEF QueueInv, CommandsOK, Command
  <1>2. Written(k) \subseteq Offset
    BY <1>1 DEF Written, CommandOK
  <1>3. Stored(k) \subseteq Written(k)
    BY DEF Stored, Written, IsWrite
  <1> QED
    BY <1>1, <1>2, <1>3

\* a commit, by what it does to each part of the state
LEMMA CommitFacts ==
    ASSUME WorkerInv, NEW k \in 1 .. Len(queue), Commit(k)
    PROVE  /\ Writing /\ queue' = SubSeq(queue, k + 1, Len(queue))
           /\ records' \subseteq records \cup Written(k)
           /\ trimmed' = trimmed \cup ((records \cup Written(k)) \ records')
           /\ \A o \in records : \/ o \in records'
                                 \/ \E j \in 1 .. k : queue[j].kind = "trim" /\ o <= queue[j].offset
           /\ \A o \in Written(k) : \/ o \in records'
                                    \/ \E j \in 1 .. k : queue[j].kind = "trim" /\ o <= queue[j].offset
           /\ localTail' \in TailOffset
           /\ IsMaximum(localTail', {localTail} \cup {o + 1 : o \in Written(k)})
           /\ diskTrim' \in 0 .. MaxOffset
           /\ IsMaximum(diskTrim', {diskTrim} \cup
                {queue[i].offset : i \in {j \in 1 .. k : queue[j].kind = "trim"}})
           /\ diskTail' \in TailOffset
           /\ IsMaximum(diskTail', {diskTail} \cup
                {queue[i].offset : i \in {j \in 1 .. k : queue[j].kind = "sync"}})
           /\ (sealed' <=> sealed \/ Sealing(k)) /\ sealed' \in BOOLEAN
           /\ acked' = acked \cup Stored(k)
           /\ sealedAt' = IF Sealing(k) THEN sealedAt \cup {localTail'} ELSE sealedAt
           /\ tailChanged' \in BOOLEAN /\ late' \subseteq late \cup {"local"}
           /\ UNCHANGED <<writer, disabled, trimPoint, globalVars, workerVars, waitVars>>
  <1> DEFINE cut(o, i) == \E j \in i + 1 .. k : queue[j].kind \in {"trim"} /\ o <= queue[j].offset
             kept == {o \in Offset :
                        \/ o \in records /\ ~cut(o, 0)
                        \/ \E i \in 1 .. k : /\ queue[i].kind \in {"store", "repair"}
                                             /\ queue[i].offset = o /\ ~cut(o, i)}
  <1>1. records' = kept /\ trimmed' = trimmed \cup ((records \cup Written(k)) \ kept)
    BY DEF Commit, Written, IsWrite
  <1>2. records \subseteq Offset /\ Written(k) \subseteq Offset
    BY WrittenFacts DEF WorkerInv, TypeOK
  <1>3. kept \subseteq records \cup Written(k)
    BY DEF Written, IsWrite
  <1>4. \A o \in records : o \in kept \/ \E j \in 1 .. k : queue[j].kind = "trim" /\ o <= queue[j].offset
    BY <1>2
  <1>5. ASSUME NEW o \in Written(k)
        PROVE  o \in kept \/ \E j \in 1 .. k : queue[j].kind = "trim" /\ o <= queue[j].offset
    <2>1. PICK i \in 1 .. k : IsWrite(queue[i]) /\ queue[i].offset = o
      BY DEF Written
    <2>2. \A j \in i + 1 .. k : j \in 1 .. k
      OBVIOUS
    <2> QED
      BY <1>2, <2>1, <2>2 DEF IsWrite
  <1> HIDE DEF kept
  <1>6. /\ Writing /\ queue' = SubSeq(queue, k + 1, Len(queue))
        /\ UNCHANGED <<writer, disabled, trimPoint, globalVars, workerVars, waitVars>>
    BY DEF Commit, Writing
  <1>7. /\ localTail' \in TailOffset
        /\ IsMaximum(localTail', {localTail} \cup {o + 1 : o \in Written(k)})
    BY DEF Commit, Written, IsWrite
  <1>8. /\ diskTrim' \in 0 .. MaxOffset
        /\ IsMaximum(diskTrim', {diskTrim} \cup
             {queue[i].offset : i \in {j \in 1 .. k : queue[j].kind = "trim"}})
    BY DEF Commit
  <1>9. /\ diskTail' \in TailOffset
        /\ IsMaximum(diskTail', {diskTail} \cup
             {queue[i].offset : i \in {j \in 1 .. k : queue[j].kind = "sync"}})
    BY DEF Commit
  <1>10. (sealed' <=> sealed \/ Sealing(k)) /\ sealed' \in BOOLEAN
    BY DEF Commit, Sealing
  <1>11. acked' = acked \cup Stored(k)
    BY DEF Commit, Stored
  <1>12. sealedAt' = IF Sealing(k) THEN sealedAt \cup {localTail'} ELSE sealedAt
    BY DEF Commit, Sealing
  <1>13. tailChanged' \in BOOLEAN /\ late' \subseteq late \cup {"local"}
    BY DEF Commit
  <1> QED
    BY <1>1, <1>3, <1>4, <1>5, <1>6, <1>7, <1>8, <1>9, <1>10, <1>11, <1>12, <1>13

\* a commit leaves no hole, and moves the tail to where a restart would find it
LEMMA CommitDisk ==
    ASSUME WorkerInv, NEW k \in 1 .. Len(queue), Commit(k)
    PROVE  /\ localTail' >= localTail
           /\ \A o \in Written(k) : o < localTail'
           /\ records' \cup trimmed' = records \cup trimmed \cup Written(k)
           /\ DiskInv' /\ SealIsFinal'
  <1> DEFINE trims == {queue[i].offset : i \in {j \in 1 .. k : queue[j].kind = "trim"}}
  <1>1. records' \cup trimmed' = records \cup trimmed \cup Written(k)
    BY CommitFacts
  <1>2. /\ records \subseteq Offset /\ trimmed \subseteq Offset /\ acked \subseteq Offset
        /\ Written(k) \subseteq Offset /\ Stored(k) \subseteq Written(k)
        /\ \A o \in Offset : o \in Nat
    BY WrittenFacts, OffsetIsNat DEF WorkerInv, TypeOK
  <1>0. /\ localTail \in Nat /\ localTail' \in Nat
        /\ committed \in Nat /\ committed' = committed /\ globalTail' = globalTail
        /\ diskTrim \in Nat /\ diskTrim' \in Nat /\ diskTail \in Nat /\ diskTail' \in Nat
    <2>1. /\ localTail \in TailOffset /\ diskTail \in TailOffset /\ committed \in TailOffset
          /\ diskTrim \in 0 .. MaxOffset
      BY DEF WorkerInv, TypeOK
    <2>2. /\ localTail' \in TailOffset /\ diskTail' \in TailOffset /\ diskTrim' \in 0 .. MaxOffset
          /\ committed' = committed /\ globalTail' = globalTail
      BY CommitFacts DEF globalVars
    <2> QED
      BY <2>1, <2>2, OffsetIsNat
  <1>00. Writing /\ \A i \in 1 .. k : i \in 1 .. Len(queue)
    <2>1. Writing
      BY CommitFacts
    <2>2. Len(queue) \in Nat
      BY QueueFacts DEF WorkerInv
    <2> QED
      BY <2>1, <2>2
  <1>3. \A o \in Written(k) : o + 1 <= localTail'
    BY <1>0, <1>2, CommitFacts DEF IsMaximum
  <1>4. localTail' >= localTail
    BY <1>0, CommitFacts DEF IsMaximum
  <1>5. \A o \in records' \cup trimmed' : o < localTail'
    <2>1. \A o \in records \cup trimmed : o < localTail
      BY DEF WorkerInv, DiskInv, TailExact
    <2> QED
      BY <1>0, <1>1, <1>2, <1>3, <1>4, <2>1
  <1>6. \A i \in 1 .. k : queue[i].kind = "trim" =>
            /\ queue[i].offset \in Nat /\ queue[i].offset < localTail /\ queue[i].offset < committed
            /\ queue[i].offset <= diskTrim'
    <2>1. \A p \in trims : p <= diskTrim'
      BY CommitFacts DEF IsMaximum
    <2> QED
      BY <2>1, WrittenFacts DEF WorkerInv, CommandOK
  <1> HIDE DEF trims
  <1>7. diskTrim' = diskTrim \/ \E i \in 1 .. k : queue[i].kind = "trim" /\ diskTrim' = queue[i].offset
    <2>1. diskTrim' \in {diskTrim} \cup trims
      BY CommitFacts DEF IsMaximum, trims
    <2> QED
      BY <2>1 DEF trims
  <1>8. diskTrim' >= diskTrim
    BY <1>0, CommitFacts DEF IsMaximum
  <1>9. diskTrim' < localTail /\ diskTrim' < committed
    BY <1>6, <1>7 DEF WorkerInv, DiskInv, TailExact, TailsKnown
  <1>10. localTail' = OLDEST \/ localTail' = diskTrim' + 1 \/ localTail' - 1 \in records'
    <2>1. CASE localTail' = localTail
      <3>1. CASE localTail = OLDEST
        BY <2>1, <3>1
      <3>2. CASE localTail = diskTrim + 1
        <4>1. localTail' = diskTrim' + 1
          <5>1. diskTrim' < diskTrim + 1
            BY <1>9, <3>2
          <5>2. diskTrim' = diskTrim
            BY <1>0, <1>8, <5>1
          <5> QED
            BY <2>1, <3>2, <5>2
        <4> QED
          BY <4>1
      <3>3. CASE localTail - 1 \in records
        <4>1. CASE localTail - 1 \in records'
          BY <2>1, <4>1
        <4>2. CASE localTail - 1 \notin records'
          <5>1. PICK j \in 1 .. k : queue[j].kind = "trim" /\ localTail - 1 <= queue[j].offset
            BY <3>3, <4>2, CommitFacts
          <5> QED
            <6>1. localTail' = diskTrim' + 1
              <7>1. queue[j].offset \in Nat /\ queue[j].offset <= diskTrim'
                BY <1>6, <5>1
              <7>2. localTail - 1 <= diskTrim' /\ diskTrim' < localTail
                BY <1>0, <1>9, <5>1, <7>1
              <7>3. localTail = diskTrim' + 1
                BY <1>0, <7>2, NextNumber
              <7> QED
                BY <2>1, <7>3
            <6> QED
              BY <6>1
        <4> QED
          BY <4>1, <4>2
      <3> QED
        BY <3>1, <3>2, <3>3 DEF WorkerInv, DiskInv, TailExact
    <2>2. CASE localTail' # localTail
      <3>1. PICK o \in Written(k) : localTail' = o + 1
        BY <2>2, CommitFacts DEF IsMaximum
      <3>2. o \in Nat /\ o >= localTail
        BY <1>0, <1>2, <1>4, <2>2, <3>1
      <3>3. ~\E j \in 1 .. k : queue[j].kind = "trim" /\ o <= queue[j].offset
        BY <1>0, <1>6, <3>2
      <3>4. o \in records'
        BY <3>3, CommitFacts
      <3>5. localTail' - 1 = o
        BY <3>1, <3>2
      <3> QED
        BY <3>4, <3>5
    <2> QED
      BY <2>1, <2>2
  <1>11. diskTail' <= committed
    <2>1. \A i \in 1 .. k : queue[i].kind = "sync" => queue[i].offset <= committed
      BY WrittenFacts DEF WorkerInv, CommandOK
    <2>2. diskTail <= committed
      BY DEF WorkerInv, DiskInv, TailsKnown
    <2> QED
      BY <2>1, <2>2, CommitFacts DEF IsMaximum
  <1>12. TailsKnown' /\ TailExact'
    <2>1. globalTail' <= committed' /\ diskTail' <= committed' /\ diskTrim' < committed'
      BY <1>0, <1>9, <1>11 DEF WorkerInv, DiskInv, TailsKnown
    <2>2. diskTrim' < localTail'
      BY <1>0, <1>4, <1>9
    <2> QED
      BY <1>5, <1>10, <2>1, <2>2 DEF TailsKnown, TailExact
  <1>13. NoHoles'
    <2> SUFFICES ASSUME NEW o \in Offset, o < localTail'
                 PROVE  o \in records \cup trimmed \cup Written(k) \/ o < committed
      BY <1>0, <1>1 DEF NoHoles, Safe
    <2>1. CASE o < localTail
      BY <2>1 DEF WorkerInv, DiskInv, NoHoles, Safe
    <2>2. CASE ~(o < localTail)
      <3>1. PICK top \in Written(k) : localTail' = top + 1
        BY <2>2, CommitFacts DEF IsMaximum
      <3>2. PICK i \in 1 .. k : IsWrite(queue[i]) /\ queue[i].offset = top
        BY DEF Written
      <3>3. CASE o = top
        BY <3>3
      <3>4. CASE o < top
        <4>1. Covered(o, i - 1)
          <5>1. Writing /\ i \in 1 .. Len(queue)
            BY <1>00
          <5>2. o < queue[i].offset
            BY <3>2, <3>4
          <5>3. QueueCovered
            BY DEF WorkerInv, QueueInv
          <5> QED
            BY <3>2, <5>1, <5>2, <5>3 DEF QueueCovered
        <4>2. \A j \in 1 .. i - 1 : j \in 1 .. k
          OBVIOUS
        <4> QED
          BY <2>2, <4>1, <4>2 DEF Covered, Written
      <3> QED
        BY <1>2, <3>1, <3>3, <3>4
    <2> QED
      BY <2>1, <2>2
  <1>14. AckedStoresSurvive'
    BY <1>0, <1>1, <1>2, CommitFacts DEF WorkerInv, DiskInv, AckedStoresSurvive, Safe
  <1>15. SealIsFinal'
    <2> SUFFICES ASSUME NEW u \in sealedAt', NEW a \in acked' PROVE a < u \/ a < committed
      BY <1>0 DEF SealIsFinal
    <2>1. CASE u \in sealedAt
      <3>1. Stored(k) = {}
        <4>1. sealed
          BY <2>1 DEF WorkerInv, QueueInv, SealKnown
        <4>2. \A i \in 1 .. k : queue[i].kind # "store"
          BY <1>00, <4>1 DEF WorkerInv, QueueInv, SealOrdered
        <4> QED
          BY <4>2 DEF Stored
      <3> QED
        BY <2>1, <3>1, CommitFacts DEF WorkerInv, SealIsFinal
    <2>2. CASE u = localTail'
      BY <1>0, <1>5, <1>14, <2>2 DEF AckedStoresSurvive, Safe
    <2> QED
      BY <2>1, <2>2, CommitFacts
  <1> QED
    BY <1>0, <1>1, <1>2, <1>3, <1>4, <1>12, <1>13, <1>14, <1>15 DEF DiskInv

LEMMA CommitInv ==
    ASSUME WorkerInv, NEW k \in 1 .. Len(queue), Commit(k)
    PROVE  WorkerInv'
  <1> USE OffsetIsNat
  <1>1. /\ Len(queue') = Len(queue) - k
        /\ \A i \in 1 .. Len(queue) - k : queue'[i] = queue[i + k] /\ i + k \in 1 .. Len(queue)
        /\ queue' \in Seq(Command) /\ Len(queue') <= MaxQueue
    BY CommitFacts, DropPrefix DEF WorkerInv
  <1>2. Len(queue) \in Nat /\ \A i \in 1 .. Len(queue) : queue[i] \in Command
    BY QueueFacts DEF WorkerInv
  <1>3. /\ UNCHANGED <<writer, disabled, trimPoint, globalTail, globalChanged, committed, syncedTail,
                       stagingTail, sealEnqueued, accepting, sealJoined, waiters>>
        /\ Writing
    BY CommitFacts DEF globalVars, workerVars, waitVars
  <1>4. localTail' \in TailOffset /\ localTail' >= localTail /\ DiskInv' /\ SealIsFinal'
    BY CommitFacts, CommitDisk
  <1>5. TypeOK' /\ StoreWaitersOK'
    <2>1. Written(k) \subseteq Offset /\ Stored(k) \subseteq Offset
      BY WrittenFacts DEF WorkerInv
    <2>2. /\ records' \subseteq Offset /\ trimmed' \subseteq Offset /\ acked' \subseteq Offset
          /\ sealedAt' \subseteq TailOffset
      BY <1>4, <2>1, CommitFacts DEF WorkerInv, TypeOK
    <2>3. /\ sealed' \in BOOLEAN /\ diskTrim' \in 0 .. MaxOffset /\ diskTail' \in TailOffset
          /\ tailChanged' \in BOOLEAN /\ late' \subseteq {"disabled", "local"}
      BY CommitFacts DEF WorkerInv, TypeOK
    <2> QED
      BY <1>1, <1>3, <1>4, <2>2, <2>3 DEF WorkerInv, TypeOK, StoreWaitersOK
  <1>6. CommandsOK'
    <2> SUFFICES ASSUME NEW i \in 1 .. Len(queue) - k PROVE CommandOK(queue[i])'
      BY <1>1 DEF CommandsOK
    <2>1. CommandOK(queue[i + k]) /\ queue[i + k].offset \in Nat /\ queue'[i] = queue[i + k]
      BY <1>1, <1>2 DEF WorkerInv, QueueInv, CommandsOK, Command
    <2> QED
      BY <1>3, <1>4, <2>1 DEF CommandOK, IsWrite, WorkerInv, TypeOK
  <1>7. ASSUME NEW o \in Offset, NEW n \in k .. Len(queue), Covered(o, n)
        PROVE  Covered(o, n - k)'
    <2>1. CASE o < localTail \/ o < committed
      BY <1>3, <1>4, <2>1 DEF Covered, WorkerInv, TypeOK
    <2>2. CASE \E j \in 1 .. n : IsWrite(queue[j]) /\ queue[j].offset = o
      <3> PICK j \in 1 .. n : IsWrite(queue[j]) /\ queue[j].offset = o
        BY <2>2
      <3>1. CASE j \in 1 .. k
        <4>1. o \in Written(k)
          BY <3>1 DEF Written
        <4> QED
          BY <4>1, CommitDisk DEF Covered
      <3>2. CASE j \in k + 1 .. n
        <4>1. j - k \in 1 .. n - k /\ j - k \in 1 .. Len(queue) - k /\ (j - k) + k = j
          BY <1>2, <3>2
        <4>2. queue'[j - k] = queue[j]
          BY <1>1, <4>1
        <4> QED
          BY <4>1, <4>2 DEF Covered, IsWrite
      <3> QED
        BY <3>1, <3>2
    <2> QED
      BY <1>7, <2>1, <2>2 DEF Covered
  <1>8. StagingCovered'
    <2> SUFFICES ASSUME NEW o \in Offset, o < stagingTail'
                 PROVE  \A m \in Nat : m = Len(queue) - k => Covered(o, m)'
      BY <1>1, <1>2 DEF StagingCovered
    <2>1. Covered(o, Len(queue))
      BY <1>3 DEF WorkerInv, QueueInv, StagingCovered
    <2> QED
      BY <1>2, <1>7, <2>1
  <1>9. QueueCovered'
    <2> SUFFICES ASSUME NEW i \in 1 .. Len(queue) - k, IsWrite(queue'[i]),
                        NEW o \in Offset, o < queue'[i].offset
                 PROVE  Covered(o, i - 1)'
      BY <1>1 DEF QueueCovered, IsWrite
    <2>1. Covered(o, i + k - 1)
      <3>1. i + k \in 1 .. Len(queue) /\ IsWrite(queue[i + k]) /\ o < queue[i + k].offset
        BY <1>1
      <3>2. QueueCovered
        BY DEF WorkerInv, QueueInv
      <3> QED
        BY <1>3, <3>1, <3>2 DEF QueueCovered
    <2>2. i + k - 1 \in k .. Len(queue) /\ (i + k - 1) - k = i - 1
      BY <1>2
    <2> QED
      BY <1>7, <2>1, <2>2
  <1>10. SealOrdered'
    <2> SUFFICES ASSUME NEW i \in 1 .. Len(queue) - k, queue'[i].kind = "store"
                 PROVE  ~sealed' /\ \A j \in 1 .. i - 1 : queue'[j].kind # "seal"
      BY <1>1 DEF SealOrdered
    <2>1. ~sealed /\ \A j \in 1 .. i + k - 1 : queue[j].kind # "seal"
      <3>1. i + k \in 1 .. Len(queue) /\ queue[i + k].kind = "store"
        BY <1>1
      <3>2. SealOrdered
        BY DEF WorkerInv, QueueInv
      <3> QED
        BY <1>3, <3>1, <3>2 DEF SealOrdered
    <2>2. ~Sealing(k)
      <3>1. \A j \in 1 .. k : j \in 1 .. i + k - 1
        OBVIOUS
      <3> QED
        BY <2>1, <3>1 DEF Sealing
    <2>3. \A j \in 1 .. i - 1 : queue'[j].kind # "seal"
      <3>1. \A j \in 1 .. i - 1 : j \in 1 .. Len(queue) - k /\ j + k \in 1 .. i + k - 1
        BY <1>2
      <3> QED
        BY <1>1, <2>1, <3>1
    <2> QED
      BY <2>1, <2>2, <2>3, CommitFacts
  <1>11. SealKnown'
    <2>1. Writing' => ~disabled'
      BY <1>3 DEF WorkerInv, QueueInv, SealKnown, Writing
    <2>2. (\E i \in 1 .. Len(queue) - k : queue'[i].kind = "seal") => sealEnqueued' \/ sealed'
      BY <1>1, <1>3, CommitFacts DEF WorkerInv, QueueInv, SealKnown
    <2>3. sealedAt' # {} => sealed'
      BY CommitFacts DEF WorkerInv, QueueInv, SealKnown
    <2> QED
      BY <1>1, <2>1, <2>2, <2>3 DEF SealKnown
  <1> QED
    BY <1>4, <1>5, <1>6, <1>8, <1>9, <1>10, <1>11 DEF WorkerInv, QueueInv

\* steps of the writer that commit nothing
LEMMA WriterFrame ==
    ASSUME WorkerInv, queue' \in Seq(Command), Len(queue') <= MaxQueue,
           \A i \in 1 .. Len(queue') : \E j \in 1 .. Len(queue) : queue'[i] = queue[j],
           writer' \in {"draining", "failing", "stopped"}, disabled' \in BOOLEAN,
           \/ ~Writing'
           \/ Writing /\ UNCHANGED <<queue, disabled>>,
           late' \subseteq {"disabled", "local"},
           UNCHANGED <<diskVars, stateVars, globalVars, workerVars, waitVars, answerVars, trimmed>>
    PROVE  WorkerInv'
  <1> USE DEF diskVars, stateVars, globalVars, workerVars, waitVars, answerVars
  <1>1. TypeOK' /\ StoreWaitersOK'
    BY DEF WorkerInv, TypeOK, StoreWaitersOK
  <1>2. DiskInv' /\ SealIsFinal'
    BY OffsetIsNat DEF WorkerInv, DiskInv, TailsKnown, TailExact, NoHoles, AckedStoresSurvive, Safe,
       SealIsFinal
  <1>3. CommandsOK'
    BY DEF WorkerInv, QueueInv, CommandsOK, CommandOK, IsWrite
  <1>4. StagingCovered' /\ QueueCovered'
    <2>1. CASE ~Writing'
      BY <2>1 DEF StagingCovered, QueueCovered
    <2>2. CASE Writing /\ queue' = queue
      <3>1. Len(queue) \in Nat
        BY QueueFacts DEF WorkerInv
      <3>2. ASSUME NEW o \in Offset, NEW n \in Nat, Covered(o, n)
            PROVE  Covered(o, n)'
        BY <2>2, <3>2 DEF Covered
      <3>3. StagingCovered'
        BY <2>2, <3>1, <3>2 DEF WorkerInv, QueueInv, StagingCovered
      <3>4. QueueCovered'
        BY <2>2, <3>1, <3>2 DEF WorkerInv, QueueInv, QueueCovered, IsWrite
      <3> QED
        BY <3>3, <3>4
    <2> QED
      BY <2>1, <2>2
  <1>5. SealOrdered' /\ SealKnown'
    BY DEF WorkerInv, QueueInv, SealOrdered, SealKnown, Writing
  <1> QED
    BY <1>1, <1>2, <1>3, <1>4, <1>5 DEF WorkerInv, QueueInv

LEMMA WriterInv == WorkerInv /\ Writer => WorkerInv'
  <1> SUFFICES ASSUME WorkerInv, Writer PROVE WorkerInv'
    OBVIOUS
  <1>1. ASSUME NEW k \in 1 .. Len(queue), CommitFails(k) PROVE WorkerInv'
    <2>1. /\ queue' \in Seq(Command) /\ Len(queue') <= MaxQueue
          /\ \A i \in 1 .. Len(queue') : \E j \in 1 .. Len(queue) : queue'[i] = queue[j]
      BY <1>1, DropPrefix DEF CommitFails, WorkerInv
    <2>2. ~Writing' /\ writer' = "failing" /\ disabled' = TRUE /\ late' = late \cup {"disabled"}
      BY <1>1 DEF CommitFails, Writing
    <2>3. late' \subseteq {"disabled", "local"}
      BY <2>2 DEF WorkerInv, TypeOK
    <2>4. UNCHANGED <<diskVars, stateVars, globalVars, workerVars, waitVars, answerVars, trimmed>>
      BY <1>1 DEF CommitFails
    <2> QED
      BY <2>1, <2>2, <2>3, <2>4, WriterFrame
  <1>2. ASSUME WriterStops PROVE WorkerInv'
    <2>1. /\ queue' \in Seq(Command) /\ Len(queue') <= MaxQueue
          /\ \A i \in 1 .. Len(queue') : \E j \in 1 .. Len(queue) : queue'[i] = queue[j]
      BY <1>2, OffsetIsNat DEF WriterStops
    <2>2. ~Writing' /\ writer' = "stopped" /\ disabled' = TRUE /\ late' \subseteq late \cup {"disabled"}
      BY <1>2 DEF WriterStops, Writing
    <2>3. late' \subseteq {"disabled", "local"}
      BY <2>2 DEF WorkerInv, TypeOK
    <2>4. UNCHANGED <<diskVars, stateVars, globalVars, workerVars, waitVars, answerVars, trimmed>>
      BY <1>2 DEF WriterStops
    <2> QED
      BY <2>1, <2>2, <2>3, <2>4, WriterFrame
  <1>3. ASSUME Shutdown PROVE WorkerInv'
    <2>1. /\ queue' \in Seq(Command) /\ Len(queue') <= MaxQueue
          /\ \A i \in 1 .. Len(queue') : \E j \in 1 .. Len(queue) : queue'[i] = queue[j]
      BY <1>3 DEF Shutdown, WorkerInv, TypeOK
    <2>2. Writing /\ writer' = "draining" /\ UNCHANGED <<queue, disabled, late>>
      BY <1>3 DEF Shutdown, Writing
    <2>3. late' \subseteq {"disabled", "local"} /\ disabled' \in BOOLEAN
      BY <2>2 DEF WorkerInv, TypeOK
    <2>4. UNCHANGED <<diskVars, stateVars, globalVars, workerVars, waitVars, answerVars, trimmed>>
      BY <1>3 DEF Shutdown
    <2> QED
      BY <2>1, <2>2, <2>3, <2>4, WriterFrame
  <1> QED
    BY <1>1, <1>2, <1>3, CommitInv DEF Writer

-----------------------------------------------------------------------------
(* A crash *)

\* load_loglet_state finds the local tail that the watch had
LEMMA RecoveredTailIsExact ==
    ASSUME WorkerInv, NEW t \in TailOffset, RecoveredTail(t)
    PROVE  t = localTail
  <1>1. /\ localTail \in Nat /\ localTail >= 1 /\ diskTrim \in Nat /\ t \in Nat
        /\ \A o \in records : o \in Nat
    BY OffsetIsNat DEF WorkerInv, TypeOK
  <1>2. t <= localTail
    <2>1. OLDEST <= localTail /\ diskTrim + 1 <= localTail
      BY <1>1 DEF WorkerInv, DiskInv, TailExact, OLDEST
    <2>2. \A o \in records : o + 1 <= localTail
      BY <1>1 DEF WorkerInv, DiskInv, TailExact
    <2> QED
      BY <2>1, <2>2 DEF RecoveredTail, IsMaximum
  <1>3. localTail <= t
    <2>1. CASE localTail = OLDEST \/ localTail = diskTrim + 1
      BY <2>1 DEF RecoveredTail, IsMaximum
    <2>2. CASE localTail - 1 \in records
      <3>1. (localTail - 1) + 1 = localTail
        BY <1>1
      <3> QED
        BY <2>2, <3>1 DEF RecoveredTail, IsMaximum
    <2> QED
      BY <2>1, <2>2 DEF WorkerInv, DiskInv, TailExact
  <1> QED
    BY <1>1, <1>2, <1>3

LEMMA CrashFacts ==
    ASSUME WorkerInv, Crash
    PROVE  /\ localTail' = localTail /\ stagingTail' = localTail
           /\ globalTail' \in TailOffset /\ globalTail' <= committed /\ syncedTail' = globalTail'
           /\ trimPoint' = diskTrim
           /\ UNCHANGED <<diskVars, committed, answerVars, trimmed>>
           /\ writer' = "running" /\ queue' = <<>> /\ disabled' = FALSE
           /\ tailChanged' = TRUE /\ globalChanged' = TRUE /\ sealEnqueued' = FALSE /\ accepting' = TRUE
           /\ sealJoined' = FALSE /\ waiters' = {} /\ late' = {}
  <1>1. localTail' = localTail /\ stagingTail' = localTail
    BY RecoveredTailIsExact DEF Crash
  <1>2. globalTail' \in TailOffset /\ globalTail' <= committed
    <2>1. diskTail \in TailOffset /\ diskTrim + 1 \in TailOffset
      BY OffsetIsNat DEF WorkerInv, TypeOK, TailOffset, OLDEST
    <2>2. diskTail <= committed /\ diskTrim + 1 <= committed
      BY OffsetIsNat DEF WorkerInv, TypeOK, DiskInv, TailsKnown
    <2> QED
      BY <2>1, <2>2 DEF Crash, Later
  <1> QED
    BY <1>1, <1>2 DEF Crash

LEMMA CrashInv == WorkerInv /\ Crash => WorkerInv'
  <1> SUFFICES ASSUME WorkerInv, Crash PROVE WorkerInv'
    OBVIOUS
  <1>1. /\ UNCHANGED <<records, sealed, diskTrim, diskTail, committed, acked, sealedAt, trimmed,
                       localTail>>
        /\ stagingTail' = localTail /\ globalTail' \in TailOffset /\ globalTail' <= committed
        /\ syncedTail' = globalTail' /\ trimPoint' = diskTrim
        /\ writer' = "running" /\ queue' = <<>> /\ disabled' = FALSE
        /\ tailChanged' = TRUE /\ globalChanged' = TRUE /\ sealEnqueued' = FALSE /\ accepting' = TRUE
        /\ sealJoined' = FALSE /\ waiters' = {} /\ late' = {}
    BY CrashFacts DEF diskVars, answerVars
  <1>2. TypeOK' /\ StoreWaitersOK'
    <2>1. queue' \in Seq(Command) /\ Len(queue') <= MaxQueue
      BY <1>1, OffsetIsNat
    <2> QED
      BY <1>1, <2>1 DEF WorkerInv, TypeOK, StoreWaitersOK
  <1>3. DiskInv' /\ SealIsFinal'
    BY <1>1 DEF WorkerInv, DiskInv, TailsKnown, TailExact, NoHoles, AckedStoresSurvive, Safe,
       SealIsFinal
  <1>4. CommandsOK' /\ StagingCovered' /\ QueueCovered'
    BY <1>1 DEF CommandsOK, StagingCovered, QueueCovered, Covered
  <1>5. SealOrdered' /\ SealKnown'
    BY <1>1 DEF WorkerInv, QueueInv, SealOrdered, SealKnown
  <1> QED
    BY <1>2, <1>3, <1>4, <1>5 DEF WorkerInv, QueueInv

-----------------------------------------------------------------------------

LEMMA StutterInv == WorkerInv /\ UNCHANGED vars => WorkerInv'
  <1> SUFFICES ASSUME WorkerInv, UNCHANGED vars PROVE WorkerInv'
    OBVIOUS
  <1> USE DEF vars, diskVars, writerVars, stateVars, globalVars, workerVars, waitVars, answerVars
  <1>1. TypeOK' /\ StoreWaitersOK'
    BY DEF WorkerInv, TypeOK, StoreWaitersOK
  <1>2. DiskInv' /\ SealIsFinal'
    BY DEF WorkerInv, DiskInv, TailsKnown, TailExact, NoHoles, AckedStoresSurvive, Safe, SealIsFinal
  <1>3. CommandsOK' /\ StagingCovered' /\ QueueCovered'
    BY DEF WorkerInv, QueueInv, CommandsOK, CommandOK, StagingCovered, QueueCovered, Covered, IsWrite,
       Writing
  <1>4. SealOrdered' /\ SealKnown'
    BY DEF WorkerInv, QueueInv, SealOrdered, SealKnown, Writing
  <1> QED
    BY <1>1, <1>2, <1>3, <1>4 DEF WorkerInv, QueueInv

LEMMA NextInv == WorkerInv /\ [Next]_vars => WorkerInv'
  BY StutterInv, RequestsInv, OnLocalTailChangeInv, OnGlobalTailChangeInv, OnWritesDisabledInv,
     PersistGlobalTailInv, WriterInv, CrashInv DEF Next, Worker

LEMMA WorkerInvariant == Spec => []WorkerInv
  BY InitInv, NextInv, PTL DEF Spec

(* WorkerTypeCorrect: the disk, the channel, the watches and the waiters    *)
(* keep their types through requests, commits, failures and crashes; in     *)
(* particular no latched store asks for a tail without an offset below it.  *)
THEOREM WorkerTypeCorrect == Spec => []TypeOK
  <1>1. WorkerInv => TypeOK
    BY DEF WorkerInv
  <1> QED
    BY WorkerInvariant, <1>1, PTL

(* AckedStoresAlwaysSurvive: whatever process_store, the commit of a batch, *)
(* on_local_tail_change, on_global_tail_change or on_writes_disabled        *)
(* answered Ok stays durable here or is committed elsewhere, through any    *)
(* number of failed commits and restarts.                                   *)
THEOREM AckedStoresAlwaysSurvive == Spec => []AckedStoresSurvive
  <1>1. WorkerInv => AckedStoresSurvive
    BY DEF WorkerInv, DiskInv
  <1> QED
    BY WorkerInvariant, <1>1, PTL

(* TailWithoutHoles: the local tail that the log store writer publishes, or *)
(* load_loglet_state recovers, never has a record missing below it that is  *)
(* not known to be committed.                                               *)
THEOREM TailWithoutHoles == Spec => []NoHoles
  <1>1. WorkerInv => NoHoles
    BY DEF WorkerInv, DiskInv
  <1> QED
    BY WorkerInvariant, <1>1, PTL

(* SealAnswersAreFinal: the local tail with which process_seal, the commit  *)
(* of the seal or on_local_tail_change answers a Seal request bounds the    *)
(* stores that the sequencer is ever told are Ok.                           *)
THEOREM SealAnswersAreFinal == Spec => []SealIsFinal
  <1>1. WorkerInv => SealIsFinal
    BY DEF WorkerInv
  <1> QED
    BY WorkerInvariant, <1>1, PTL

-----------------------------------------------------------------------------
(* The refinement of LogServer *)

LEMMA SameOffsets == Abstract!Offset = Offset /\ Abstract!TailOffset = TailOffset
  BY DEF Abstract!Offset, Abstract!TailOffset, Offset, TailOffset, OLDEST

LEMMA AnswerStep ==
    ASSUME WorkerInv, NEW t \in TailOffset, UpdateGlobalTail(t),
           UNCHANGED <<records, trimmed, localTail, sealed>>,
           \/ acked' = acked
           \/ ~sealed /\ \E o \in Offset : acked' = acked \cup {o} /\ o < localTail
    PROVE  Abstract!Answer
  <1>1. Abstract!Told(t)
    BY OffsetIsNat DEF UpdateGlobalTail, Later, Abstract!Told, WorkerInv, TypeOK
  <1>2. \E u \in Abstract!TailOffset : Abstract!Told(u)
    BY <1>1, SameOffsets
  <1>3. acked' = acked \/ \E o \in Abstract!Offset : acked' = acked \cup {o}
    BY SameOffsets
  <1>4. /\ sealed => acked' = acked
        /\ \A o \in acked' \ acked : o < localTail \/ o < globalTail'
    OBVIOUS
  <1>5. (records \cup trimmed)' = records \cup trimmed /\ UNCHANGED <<localTail, sealed>>
    OBVIOUS
  <1> QED
    BY <1>2, <1>3, <1>4, <1>5 DEF Abstract!Answer

LEMMA RequestStep == WorkerInv /\ Requests => Abstract!Answer
  <1> SUFFICES ASSUME WorkerInv, NEW t \in TailOffset,
                      \/ GetLogletInfo(t) \/ ProcessSeal(t)
                      \/ \E o \in Offset : \/ DuplicateStore(o, t)
                                           \/ \E isRepair \in BOOLEAN : ProcessStore(o, t, isRepair)
                      \/ \E p \in 1 .. MaxTrim : ProcessTrim(p, t)
                      \/ \E q \in Queries, target \in TailOffset : WaitForTail(q, target, t)
               PROVE  Abstract!Answer
    BY DEF Requests
  <1>1. UpdateGlobalTail(t) /\ UNCHANGED <<records, trimmed, localTail, sealed>>
    BY DEF GetLogletInfo, ProcessSeal, DuplicateStore, ProcessStore, ProcessTrim, WaitForTail,
       diskVars, stateVars
  <1>2. ASSUME NEW o \in Offset, DuplicateStore(o, t)
        PROVE  acked' = acked \/ (~sealed /\ acked' = acked \cup {o} /\ o < localTail)
    BY <1>2, OffsetIsNat DEF DuplicateStore, Admissible, WorkerInv, TypeOK
  <1>3. \/ acked' = acked
        \/ ~sealed /\ \E o \in Offset : acked' = acked \cup {o} /\ o < localTail
    BY <1>2 DEF GetLogletInfo, ProcessSeal, ProcessStore, ProcessTrim, WaitForTail, answerVars
  <1> QED
    BY <1>1, <1>3, AnswerStep

LEMMA EventStep ==
    ASSUME WorkerInv, OnLocalTailChange \/ OnGlobalTailChange \/ OnWritesDisabled
    PROVE  Abstract!Release \/ UNCHANGED Abstract!vars
  <1>1. UNCHANGED <<records, trimmed, localTail, sealed, globalTail, committed>>
    BY DEF OnLocalTailChange, OnGlobalTailChange, OnWritesDisabled, diskVars, stateVars, globalVars
  <1>2. CASE sealed
    BY <1>1, <1>2, ReleasedStores DEF Abstract!vars
  <1>3. CASE ~sealed
    <2>1. acked' \in SUBSET Abstract!Offset /\ acked \subseteq acked'
      BY ReleasedStores, SameOffsets
    <2>2. \A o \in acked' \ acked : o < localTail \/ o < globalTail
      BY ReleasedStores
    <2> QED
      BY <1>1, <1>3, <2>1, <2>2 DEF Abstract!Release
  <1> QED
    BY <1>2, <1>3

LEMMA CommitStep ==
    ASSUME WorkerInv, NEW k \in 1 .. Len(queue), Commit(k)
    PROVE  Abstract!Write
  <1>1. Written(k) \in SUBSET Abstract!Offset /\ Stored(k) \in SUBSET Abstract!Offset
        /\ Stored(k) \subseteq Written(k)
    BY WrittenFacts, SameOffsets DEF WorkerInv
  <1>2. sealed => Stored(k) = {}
    <2>1. Writing /\ Len(queue) \in Nat
      BY CommitFacts, QueueFacts DEF WorkerInv
    <2>2. \A i \in 1 .. k : i \in 1 .. Len(queue)
      BY <2>1
    <2> QED
      BY <2>1, <2>2 DEF WorkerInv, QueueInv, SealOrdered, Stored
  <1>3. (records \cup trimmed)' = (records \cup trimmed) \cup Written(k)
    BY CommitDisk
  <1>4. acked' = acked \cup Stored(k) /\ UNCHANGED <<globalTail, committed>>
    BY CommitFacts DEF globalVars
  <1>5. localTail' \in Abstract!TailOffset /\ localTail' >= localTail
    BY CommitFacts, CommitDisk, SameOffsets
  <1>6. sealed' \in BOOLEAN /\ (sealed => sealed')
    BY CommitFacts
  <1>7. /\ \A o \in (records \cup trimmed)' : o < localTail'
        /\ \A o \in Abstract!Offset : o < localTail' => o \in (records \cup trimmed)' \/ o < committed
    BY <1>4, CommitDisk, SameOffsets DEF DiskInv, TailExact, NoHoles, Safe
  <1>8. \E W \in SUBSET Abstract!Offset, S \in SUBSET Abstract!Offset :
          /\ S \subseteq W
          /\ sealed => S = {}
          /\ (records \cup trimmed)' = (records \cup trimmed) \cup W
          /\ acked' = acked \cup S
    BY <1>1, <1>2, <1>3, <1>4
  <1> QED
    BY <1>4, <1>5, <1>6, <1>7, <1>8 DEF Abstract!Write

LEMMA AbstractStep == WorkerInv /\ [Next]_vars => [Abstract!Next]_Abstract!vars
  <1> SUFFICES ASSUME WorkerInv, [Next]_vars PROVE Abstract!Next \/ UNCHANGED Abstract!vars
    OBVIOUS
  <1>1. CASE Requests
    BY <1>1, RequestStep DEF Abstract!Next
  <1>2. CASE OnLocalTailChange \/ OnGlobalTailChange \/ OnWritesDisabled
    BY <1>2, EventStep DEF Abstract!Next
  <1>3. CASE PersistGlobalTail \/ WriterStops \/ Shutdown \/ UNCHANGED vars
    BY <1>3 DEF PersistGlobalTail, WriterStops, Shutdown, vars, diskVars, stateVars, globalVars,
       answerVars, Abstract!vars
  <1>4. ASSUME NEW k \in 1 .. Len(queue), CommitFails(k)
        PROVE  UNCHANGED Abstract!vars
    BY <1>4 DEF CommitFails, diskVars, stateVars, globalVars, answerVars, Abstract!vars
  <1>5. ASSUME NEW k \in 1 .. Len(queue), Commit(k)
        PROVE  Abstract!Next
    BY <1>5, CommitStep DEF Abstract!Next
  <1>6. CASE Crash
    <2>1. /\ UNCHANGED <<records, trimmed, localTail, sealed, committed, acked>>
          /\ globalTail' \in Abstract!TailOffset /\ globalTail' <= committed
      BY <1>6, CrashFacts, SameOffsets DEF diskVars, answerVars
    <2> QED
      BY <2>1 DEF Abstract!Next, Abstract!Restart
  <1> QED
    BY <1>1, <1>2, <1>3, <1>4, <1>5, <1>6 DEF Next, Worker, Writer

(* WorkerImplementsLogServer: every step of the worker, the writer or a     *)
(* crash is a step of the atomic log server of LogServer or invisible to    *)
(* it: a request is answered with what is known, a commit writes its whole  *)
(* prefix of the channel at once, and a restart forgets nothing but tails.  *)
THEOREM WorkerImplementsLogServer == Spec => ImplementsLogServer
  <1>1. Init => Abstract!Init
    BY DEF Init, Abstract!Init, OLDEST
  <1> QED
    BY <1>1, AbstractStep, WorkerInvariant, PTL DEF Spec, ImplementsLogServer, Abstract!Spec
=============================================================================
