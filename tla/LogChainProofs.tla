--------------------------- MODULE LogChainProofs ---------------------------
(***************************************************************************)
(* The chain of a log for all numbers of processes, tasks, segments and    *)
(* records: the type invariant and the three safety properties of          *)
(* LogChain.                                                               *)
(***************************************************************************)
EXTENDS LogChain, ChainProofs, TLAPS

-----------------------------------------------------------------------------
(* The inductive invariant.  Processes work with old versions of the chain *)
(* and with what they once found out about a loglet; all of it is on one   *)
(* timeline B, of which B[i] is where segment i starts and B[i + 1] where  *)
(* it ends, up to the last position of the latest version.                 *)

Last == versions[Latest]

Command == [op : {"extend", "seal", "trim"}, seg : Index \cup {-1}, lsn : Lsn, task : SUBSET Task]

Wrapper == [base : Nat, index : Index \cup {-1}, marker : BOOLEAN]

TaskState ==
    [op : {"none", "extend", "seal", "tail", "trim"},
     step : {"idle", "seal", "find", "wait", "ask", "trim"},
     seg : Index \cup {-1}, lsn : Nat, ver : Nat, loglet : Wrapper]

Shape ==
    /\ versions \in Seq(ChainSet) /\ Latest \in 1 .. MaxVersion
    /\ view \in [Process -> 1 .. Latest]
    /\ queue \in [Process -> Seq(Command)]
    /\ task \in [Task -> TaskState]
    /\ cache \in [Process -> [base : Lsn, index : Index, marker : BOOLEAN]]
    /\ tail \in [Index -> Offset] /\ sealed \in [Index -> BOOLEAN]
    /\ bound \in [Index -> Offset] /\ trimPoint \in [Index -> Offset \cup {INVALID}]
    /\ acked \subseteq [lsn : Lsn, index : Index] /\ answers \subseteq [lsn : Lsn, index : Index]
    /\ trims \subseteq Nat

\* every version is a stretch of the timeline, a later one reaches as far or further
VersionsFit(B) ==
    /\ B \in [0 .. MaxVersion -> Lsn]
    /\ Rising(B, End(Last))
    /\ \A v \in 1 .. Latest :
          /\ End(versions[v]) \in Nat /\ Fits(versions[v], B, End(versions[v]))
          /\ TailIndex(versions[v]) <= TailIndex(Last)
          /\ \A w \in v .. Latest : End(versions[v]) <= End(versions[w])
    /\ TailIndex(Last) < Latest

\* a segment ends where it was reported to be sealed, or after that
EndsCover(B) == \A i \in 0 .. End(Last) - 1 : OffsetBy(B[i], bound[i]) <= B[i + 1]

LogletsFit(B) ==
    \A i \in Index :
        /\ tail[i] <= bound[i] /\ trimPoint[i] < tail[i]
        /\ IF i <= TailIndex(Last) THEN OffsetBy(B[i], tail[i]) <= MaxLsn ELSE tail[i] = OLDEST

\* a wrapper that was made from some version of the chain
OnTimeline(loglet, B) ==
    /\ loglet.index \in 0 .. TailIndex(Last)
    /\ Pos(loglet) <= End(Last) /\ loglet.base = B[Pos(loglet)]

CachesFit(B) == \A p \in Process : OnTimeline(cache[p], B)

TaskFits(x, B) ==
    /\ x.ver <= Latest
    /\ x.step \in {"seal", "find"} =>
          x.op \in {"extend", "seal"} /\ x.seg \in 0 .. TailIndex(Last)
    /\ x.step = "find" => x.seg = x.loglet.index
    /\ x.step \in {"find", "ask"} => OnTimeline(x.loglet, B)
    /\ x.step = "trim" => x.lsn \in trims /\ x.ver > 0

TasksFit(B) == \A t \in Task : TaskFits(task[t], B)

\* a command of which the segment is still open has the LSN of a sealed tail
CommandFits(c, B) ==
    IF c.op = "trim" THEN \E t \in trims : c.lsn <= t
    ELSE /\ c.seg \in 0 .. TailIndex(Last)
         /\ c.seg = End(Last) => OffsetBy(B[c.seg], bound[c.seg]) <= c.lsn

CommandsFit(B) ==
    \A p \in Process : \A n \in 1 .. Len(queue[p]) : CommandFits(queue[p][n], B)

AckedFit(B) ==
    \A r \in acked :
        /\ r.index <= TailIndex(Last)
        /\ B[r.index] <= r.lsn /\ r.lsn < OffsetBy(B[r.index], tail[r.index])

AnswersFit(B) == \A a \in answers : a.index < End(Last) /\ a.lsn = B[a.index + 1]

\* only what was asked for is trimmed
TrimsFit(B) ==
    /\ \A i \in 0 .. TailIndex(Last) :
          trimPoint[i] # INVALID => \E t \in trims : OffsetBy(B[i], trimPoint[i]) <= t
    /\ \E b \in DOMAIN Last, t \in trims \cup {0} : b <= t + 1

OneTimeline(B) ==
    /\ VersionsFit(B) /\ EndsCover(B) /\ LogletsFit(B) /\ CachesFit(B) /\ TasksFit(B)
    /\ CommandsFit(B) /\ AckedFit(B) /\ AnswersFit(B) /\ TrimsFit(B)

ChainInv == Shape /\ \E B \in [0 .. MaxVersion -> Lsn] : OneTimeline(B)

-----------------------------------------------------------------------------
(* Facts about one state *)

LEMMA Numbers ==
    /\ MaxVersion \in Nat \ {0} /\ MaxLsn \in Nat \ {0}
    /\ Index = 0 .. MaxVersion - 1 /\ Lsn = 1 .. MaxLsn /\ Offset = 1 .. MaxLsn
    /\ OLDEST = 1 /\ INVALID = 0
  BY ChainAssumption DEF Index, Lsn, Offset, OLDEST, INVALID

\* the versions of a state, with the indexes and positions of their tails
LEMMA VersionFacts ==
    ASSUME Shape, NEW B, VersionsFit(B), NEW v \in 1 .. Latest
    PROVE  LET chain == versions[v]  T == TailIndex(chain)  J == End(chain) IN
           /\ Fits(chain, B, J) /\ Rising(B, J) /\ J \in Nat /\ T \in Nat
           /\ T <= TailIndex(Last) /\ J <= End(Last)
           /\ IsSealed(chain) => J = T + 1
           /\ ~IsSealed(chain) => J = T
           /\ TailBase(chain) = B[J] /\ B[J] \in DOMAIN chain
           /\ chain[B[J]].index = T /\ chain[B[J]].marker = IsSealed(chain)
           /\ IsSealed(chain) \in BOOLEAN
           /\ Pos(chain[B[J]]) = J
           /\ \A b \in DOMAIN chain : b <= B[J]
           /\ chain \in ChainSet
  <1> DEFINE chain == versions[v]
             J == End(chain)
  <1>1. Latest \in Nat /\ v \in Nat /\ v <= Latest /\ Latest \in v .. Latest /\ Latest \in 1 .. Latest
    BY DEF Shape
  <1>2. /\ Fits(chain, B, J) /\ J \in Nat /\ TailIndex(chain) <= TailIndex(Last)
        /\ J <= End(versions[Latest]) /\ End(versions[Latest]) \in Nat
    BY <1>1 DEF VersionsFit
  <1>3. J <= End(Last) /\ End(Last) \in Nat /\ Rising(B, End(Last))
    BY <1>2 DEF Last, VersionsFit
  <1>4. Rising(B, J)
    <2>1. \A k \in 0 .. J : k \in 0 .. End(Last)
      BY <1>2, <1>3
    <2> QED
      BY <1>3, <2>1 DEF Rising
  <1> HIDE DEF J
  <1>5. /\ TailBase(chain) = B[J] /\ B[J] \in DOMAIN chain /\ End(chain) = J
        /\ \A b \in DOMAIN chain : b <= B[J]
        /\ Pos(chain[B[J]]) = J
        /\ IsSealed(chain) = chain[B[J]].marker
        /\ TailIndex(chain) = chain[B[J]].index
        /\ TailIndex(chain) \in Nat
        /\ IsSealed(chain) => J = TailIndex(chain) + 1
        /\ ~IsSealed(chain) => J = TailIndex(chain)
    BY <1>2, <1>4, FitsTail
  <1>6. chain \in ChainSet
    BY <1>2 DEF Fits
  <1>7. chain[B[J]].marker \in BOOLEAN
    BY <1>5, <1>6, ChainFields
  <1> QED
    BY <1>2, <1>3, <1>4, <1>5, <1>6, <1>7 DEF J

LEMMA LastFacts ==
    ASSUME Shape, NEW B, VersionsFit(B)
    PROVE  LET T == TailIndex(Last)  J == End(Last) IN
           /\ T \in Nat /\ T < Latest /\ T \in Index /\ 0 .. T \subseteq Index
           /\ J \in Nat /\ J \in {T, T + 1} /\ J <= MaxVersion
           /\ IsSealed(Last) => J = T + 1
           /\ ~IsSealed(Last) => J = T
           /\ \A i \in 0 .. MaxVersion : B[i] \in Lsn /\ B[i] \in Nat /\ B[i] >= 1 /\ B[i] <= MaxLsn
           /\ \A i \in Index : i \in Nat /\ i \in 0 .. MaxVersion /\ i + 1 \in 0 .. MaxVersion
           /\ Fits(Last, B, J) /\ Rising(B, J) /\ Last \in ChainSet
           /\ TailBase(Last) = B[J] /\ B[J] \in DOMAIN Last
           /\ Latest \in 1 .. MaxVersion /\ Latest \in Nat
  <1>1. Latest \in 1 .. MaxVersion /\ Latest \in 1 .. Latest /\ TailIndex(Last) < Latest
    BY Numbers DEF Shape, VersionsFit
  <1>2. B \in [0 .. MaxVersion -> Lsn]
    BY DEF VersionsFit
  <1>3. \A i \in 0 .. MaxVersion : B[i] \in Lsn /\ B[i] \in Nat /\ B[i] >= 1 /\ B[i] <= MaxLsn
    BY <1>2, ChainAssumption DEF Lsn, OLDEST
  <1> DEFINE T == TailIndex(Last)
             J == End(Last)
  <1>4. /\ Fits(Last, B, J) /\ Rising(B, J) /\ J \in Nat /\ T \in Nat
        /\ IsSealed(Last) => J = T + 1
        /\ ~IsSealed(Last) => J = T
        /\ TailBase(Last) = B[J] /\ B[J] \in DOMAIN Last
        /\ Last \in ChainSet /\ IsSealed(Last) \in BOOLEAN
    BY <1>1, VersionFacts DEF Last
  <1>5. T < MaxVersion /\ J \in {T, T + 1} /\ J <= MaxVersion
    BY <1>1, <1>4, Numbers
  <1>6. T \in Index /\ 0 .. T \subseteq Index
    BY <1>4, <1>5, Numbers
  <1>7. \A i \in Index : i \in Nat /\ i \in 0 .. MaxVersion /\ i + 1 \in 0 .. MaxVersion
    BY Numbers
  <1> QED
    BY <1>1, <1>3, <1>4, <1>5, <1>6, <1>7, Numbers

\* the wrapper of the tail loglet of a version
LEMMA WrapperFits ==
    ASSUME Shape, NEW B, VersionsFit(B), NEW p \in Process
    PROVE  /\ OnTimeline(TailLoglet(p), B)
           /\ TailLoglet(p) \in [base : Lsn, index : Index, marker : BOOLEAN]
           /\ TailLoglet(p).index = TailIndex(View(p))
  <1>1. view[p] \in 1 .. Latest
    BY DEF Shape
  <1> DEFINE chain == versions[view[p]]
             T == TailIndex(chain)
             J == End(chain)
  <1>2. /\ J \in Nat /\ T \in Nat /\ T <= TailIndex(Last) /\ J <= End(Last)
        /\ IsSealed(chain) => J = T + 1
        /\ ~IsSealed(chain) => J = T
        /\ TailBase(chain) = B[J] /\ chain[B[J]].index = T /\ chain[B[J]].marker = IsSealed(chain)
        /\ IsSealed(chain) \in BOOLEAN
    BY <1>1, VersionFacts
  <1>3. TailLoglet(p) = [base |-> B[J], index |-> T, marker |-> IsSealed(chain)]
    BY <1>2 DEF TailLoglet, View
  <1>4. Pos(TailLoglet(p)) = J
    BY <1>2, <1>3 DEF Pos
  <1>5. /\ 0 .. TailIndex(Last) \subseteq Index /\ TailIndex(Last) \in Nat
        /\ End(Last) \in Nat /\ End(Last) <= MaxVersion
        /\ \A i \in 0 .. MaxVersion : B[i] \in Lsn
    BY LastFacts
  <1>6. T \in 0 .. TailIndex(Last) /\ T \in Index /\ J \in 0 .. MaxVersion
    BY <1>2, <1>5, Numbers
  <1> QED
    BY <1>2, <1>3, <1>4, <1>5, <1>6 DEF OnTimeline, View

\* what a step keeps that leaves the versions alone
LEMMA Frame ==
    ASSUME Shape, NEW B, OneTimeline(B), versions' = versions
    PROVE  /\ Last' = Last /\ Latest' = Latest /\ VersionsFit(B)'
           /\ bound' = bound => EndsCover(B)'
           /\ tail' = tail /\ bound' = bound /\ trimPoint' = trimPoint => LogletsFit(B)'
           /\ cache' = cache => CachesFit(B)'
           /\ task' = task /\ trims' = trims => TasksFit(B)'
           /\ queue' = queue /\ bound' = bound /\ trims' = trims => CommandsFit(B)'
           /\ tail' = tail /\ acked' = acked => AckedFit(B)'
           /\ answers' = answers => AnswersFit(B)'
           /\ trimPoint' = trimPoint /\ trims' = trims => TrimsFit(B)'
  <1>1. Last' = Last /\ Latest' = Latest
    BY DEF Last, Latest
  <1>2. VersionsFit(B)'
    BY <1>1 DEF OneTimeline, VersionsFit
  <1>3. bound' = bound => EndsCover(B)'
    BY <1>1 DEF OneTimeline, EndsCover
  <1>4. tail' = tail /\ bound' = bound /\ trimPoint' = trimPoint => LogletsFit(B)'
    BY <1>1 DEF OneTimeline, LogletsFit
  <1>5. cache' = cache => CachesFit(B)'
    BY <1>1 DEF OneTimeline, CachesFit, OnTimeline
  <1>6. task' = task /\ trims' = trims => TasksFit(B)'
    BY <1>1 DEF OneTimeline, TasksFit, TaskFits, OnTimeline
  <1>7. queue' = queue /\ bound' = bound /\ trims' = trims => CommandsFit(B)'
    BY <1>1 DEF OneTimeline, CommandsFit, CommandFits
  <1>8. tail' = tail /\ acked' = acked => AckedFit(B)'
    BY <1>1 DEF OneTimeline, AckedFit
  <1>9. answers' = answers => AnswersFit(B)'
    BY <1>1 DEF OneTimeline, AnswersFit
  <1>10. trimPoint' = trimPoint /\ trims' = trims => TrimsFit(B)'
    BY <1>1 DEF OneTimeline, TrimsFit
  <1> QED
    BY <1>1, <1>2, <1>3, <1>4, <1>5, <1>6, <1>7, <1>8, <1>9, <1>10

\* one task goes on to x
LEMMA TaskMoves ==
    ASSUME Shape, NEW B, OneTimeline(B), versions' = versions, trims \subseteq trims',
           NEW t \in Task, NEW x \in TaskState, task' = [task EXCEPT ![t] = x], TaskFits(x, B)'
    PROVE  TasksFit(B)' /\ task' \in [Task -> TaskState]
  <1>1. Last' = Last /\ Latest' = Latest
    BY DEF Last, Latest
  <1>2. task \in [Task -> TaskState]
    BY DEF Shape
  <1>3. \A u \in Task : u # t => task'[u] = task[u]
    BY <1>2
  <1>4. task'[t] = x
    BY <1>2
  <1>5. \A u \in Task : TaskFits(task[u], B)
    BY DEF OneTimeline, TasksFit
  <1>6. \A u \in Task : TaskFits(task[u], B)'
    BY <1>1, <1>3, <1>4, <1>5 DEF TaskFits, OnTimeline
  <1> QED
    BY <1>2, <1>6 DEF TasksFit

\* a task that waits for its answer or for the next call
LEMMA RestingFits ==
    ASSUME NEW B, Latest' \in Nat
    PROVE  /\ Idle \in TaskState /\ TaskFits(Idle, B)'
           /\ [Idle EXCEPT !.step = "wait"] \in TaskState
           /\ TaskFits([Idle EXCEPT !.step = "wait"], B)'
  <1>1. NoLoglet \in Wrapper
    BY Numbers DEF NoLoglet, Wrapper
  <1>2. Idle \in TaskState /\ [Idle EXCEPT !.step = "wait"] \in TaskState
    BY <1>1, Numbers DEF Idle, TaskState
  <1> QED
    BY <1>2 DEF Idle, TaskFits

LEMMA CompleteBatchFacts ==
    ASSUME Shape, NEW p \in Process, NEW k \in 1 .. Len(queue[p]), CompleteBatch(p, k)
    PROVE  /\ queue' \in [Process -> Seq(Command)] /\ task' \in [Task -> TaskState]
           /\ \A q \in Process : \A n \in 1 .. Len(queue'[q]) :
                 \E m \in 1 .. Len(queue[q]) : queue'[q][n] = queue[q][m]
           /\ \A t \in Task : task'[t] = Idle \/ task'[t] = task[t]
  <1>1. queue \in [Process -> Seq(Command)] /\ queue[p] \in Seq(Command)
    BY DEF Shape
  <1> DEFINE rest == SubSeq(queue[p], k + 1, Len(queue[p]))
  <1>2. /\ rest \in Seq(Command)
        /\ \A n \in 1 .. Len(rest) : n + k \in 1 .. Len(queue[p]) /\ rest[n] = queue[p][n + k]
    BY <1>1
  <1>3. queue' = [queue EXCEPT ![p] = rest]
    BY DEF CompleteBatch
  <1> HIDE DEF rest
  <1>4. queue' \in [Process -> Seq(Command)]
    BY <1>1, <1>2, <1>3
  <1>5. ASSUME NEW q \in Process, NEW n \in 1 .. Len(queue'[q])
        PROVE  \E m \in 1 .. Len(queue[q]) : queue'[q][n] = queue[q][m]
    <2>1. CASE q = p
      BY <1>1, <1>2, <1>3, <1>5, <2>1
    <2>2. CASE q # p
      BY <1>1, <1>3, <1>5, <2>2
    <2> QED
      BY <2>1, <2>2
  <1>6. Idle \in TaskState
    <2>1. NoLoglet \in Wrapper
      BY Numbers DEF NoLoglet, Wrapper
    <2> QED
      BY <2>1, Numbers DEF Idle, TaskState
  <1>7. task' \in [Task -> TaskState] /\ \A t \in Task : task'[t] = Idle \/ task'[t] = task[t]
    BY <1>6 DEF CompleteBatch, Shape
  <1> QED
    BY <1>4, <1>5, <1>7

\* a step that can only lower the bounds and add trim requests
LEMMA CommandKeeps ==
    ASSUME Shape, NEW B, OneTimeline(B), versions' = versions, trims \subseteq trims',
           bound' \in [Index -> Offset], \A i \in Index : bound'[i] <= bound[i]
    PROVE  \A c \in Command : CommandFits(c, B) => CommandFits(c, B)'
  <1> SUFFICES ASSUME NEW c \in Command, CommandFits(c, B) PROVE CommandFits(c, B)'
    OBVIOUS
  <1>1. Last' = Last
    BY DEF Last, Latest
  <1>2. /\ 0 .. TailIndex(Last) \subseteq Index
        /\ \A i \in 0 .. MaxVersion : B[i] \in Nat
        /\ \A i \in Index : i \in 0 .. MaxVersion
    BY LastFacts DEF OneTimeline
  <1>3. CASE c.op = "trim"
    BY <1>3 DEF CommandFits
  <1>4. CASE c.op # "trim" /\ c.seg # End(Last)
    BY <1>1, <1>4 DEF CommandFits
  <1>5. CASE c.op # "trim" /\ c.seg = End(Last)
    <2>1. c.seg \in 0 .. TailIndex(Last) /\ c.seg \in Index /\ OffsetBy(B[c.seg], bound[c.seg]) <= c.lsn
      BY <1>2, <1>5 DEF CommandFits
    <2>2. B[c.seg] \in Nat /\ bound[c.seg] \in Nat /\ bound'[c.seg] \in Nat /\ bound'[c.seg] <= bound[c.seg]
      BY <1>2, <2>1, Numbers DEF Shape
    <2>3. c.lsn \in Nat
      BY Numbers DEF Command
    <2>4. OffsetBy(B[c.seg], bound'[c.seg]) <= c.lsn
      BY <2>1, <2>2, <2>3 DEF OffsetBy, OLDEST
    <2> QED
      BY <1>1, <1>5, <2>1, <2>4 DEF CommandFits
  <1> QED
    BY <1>3, <1>4, <1>5

\* ... and leaves the queues alone
LEMMA CommandsKeep ==
    ASSUME Shape, NEW B, OneTimeline(B), versions' = versions, trims \subseteq trims',
           bound' \in [Index -> Offset], \A i \in Index : bound'[i] <= bound[i], queue' = queue
    PROVE  CommandsFit(B)'
  <1>1. ASSUME NEW q \in Process, NEW n \in 1 .. Len(queue[q]) PROVE CommandFits(queue[q][n], B)'
    <2>1. PICK c \in Command : c = queue[q][n]
      BY <1>1 DEF Shape
    <2>2. CommandFits(c, B)
      BY <1>1, <2>1 DEF OneTimeline, CommandsFit
    <2>3. CommandFits(c, B)'
      BY <2>2, CommandKeeps
    <2>4. queue'[q][n] = c
      BY <2>1
    <2> QED
      BY <2>3, <2>4 DEF CommandFits
  <1> QED
    BY <1>1 DEF CommandsFit

\* ... or adds a command to the queue of a process
LEMMA SendFacts ==
    ASSUME Shape, NEW B, OneTimeline(B), versions' = versions, trims \subseteq trims',
           bound' \in [Index -> Offset], \A i \in Index : bound'[i] <= bound[i],
           NEW p \in Process, NEW x \in Command, queue' = [queue EXCEPT ![p] = Append(@, x)],
           CommandFits(x, B)'
    PROVE  queue' \in [Process -> Seq(Command)] /\ CommandsFit(B)'
  <1>1. queue \in [Process -> Seq(Command)] /\ queue[p] \in Seq(Command)
    BY DEF Shape
  <1>2. queue' \in [Process -> Seq(Command)]
    BY <1>1
  <1>3. ASSUME NEW q \in Process, NEW n \in 1 .. Len(queue'[q]) PROVE CommandFits(queue[q][n], B)'
    <2>1. CASE q = p /\ n = Len(queue[p]) + 1
      <3>1. queue'[q][n] = x
        BY <1>1, <2>1
      <3> QED
        BY <3>1 DEF CommandFits
    <2>2. CASE ~(q = p /\ n = Len(queue[p]) + 1)
      <3>1. n \in 1 .. Len(queue[q]) /\ queue'[q][n] = queue[q][n]
        BY <1>1, <1>3, <2>2
      <3>2. PICK c \in Command : c = queue[q][n]
        BY <1>1, <3>1
      <3>3. CommandFits(c, B)
        BY <3>1, <3>2 DEF OneTimeline, CommandsFit
      <3>4. CommandFits(c, B)'
        BY <3>3, CommandKeeps
      <3>5. queue'[q][n] = c
        BY <3>1, <3>2
      <3> QED
        BY <3>4, <3>5 DEF CommandFits
    <2> QED
      BY <2>1, <2>2
  <1> QED
    BY <1>2, <1>3 DEF CommandsFit

\* a sealed tail is reported for a wrapper on the timeline
LEMMA ReportFacts ==
    ASSUME Shape, NEW B, OneTimeline(B), NEW l \in Wrapper, OnTimeline(l, B), NEW o \in Offset,
           ReportSealed(l, o), versions' = versions, tail' = tail, trimPoint' = trimPoint
    PROVE  /\ bound' \in [Index -> Offset] /\ \A i \in Index : bound'[i] <= bound[i]
           /\ EndsCover(B)' /\ LogletsFit(B)'
           /\ OffsetBy(l.base, o) \in Lsn
           /\ l.marker => l.index < End(Last) /\ l.base = B[l.index + 1]
           /\ ~l.marker => l.base = B[l.index] /\ OffsetBy(l.base, bound'[l.index]) <= OffsetBy(l.base, o)
  <1>1. Last' = Last
    BY DEF Last, Latest
  <1>2. /\ TailIndex(Last) \in Nat /\ 0 .. TailIndex(Last) \subseteq Index
        /\ End(Last) \in Nat /\ End(Last) <= MaxVersion /\ End(Last) \in {TailIndex(Last), TailIndex(Last) + 1}
        /\ \A i \in 0 .. MaxVersion : B[i] \in Lsn /\ B[i] \in Nat /\ B[i] >= 1 /\ B[i] <= MaxLsn
        /\ \A i \in Index : i \in Nat /\ i \in 0 .. MaxVersion /\ i + 1 \in 0 .. MaxVersion
    BY LastFacts DEF OneTimeline
  <1>3. /\ l.index \in 0 .. TailIndex(Last) /\ l.index \in Index /\ Pos(l) <= End(Last) /\ l.base = B[Pos(l)]
        /\ l.marker \in BOOLEAN
        /\ l.marker => Pos(l) = l.index + 1
        /\ ~l.marker => Pos(l) = l.index
    BY <1>2 DEF OnTimeline, Pos, Wrapper
  <1>4. o \in Nat /\ o >= 1 /\ l.base \in Nat /\ l.base >= 1 /\ l.base <= MaxLsn
    BY <1>2, <1>3, Numbers
  <1>5. bound \in [Index -> Offset] /\ tail \in [Index -> Offset]
    BY DEF Shape
  <1>6. \A i \in Index : bound[i] \in Nat /\ tail[i] \in Nat /\ tail[i] <= bound[i]
    BY <1>5, Numbers DEF OneTimeline, LogletsFit
  <1>7. /\ bound' \in [Index -> Offset]
        /\ \A i \in Index : bound'[i] <= bound[i] /\ tail[i] <= bound'[i] /\ bound'[i] \in Nat
        /\ ~l.marker => bound'[l.index] <= o
    <2>1. CASE l.marker
      BY <1>3, <1>5, <1>6, <2>1 DEF ReportSealed
    <2>2. CASE ~l.marker
      <3>1. /\ o >= tail[l.index]
            /\ bound' = [bound EXCEPT ![l.index] = IF o < @ THEN o ELSE @]
        BY <2>2 DEF ReportSealed
      <3>2. bound' \in [Index -> Offset]
        BY <1>5, <3>1
      <3>3. bound'[l.index] = IF o < bound[l.index] THEN o ELSE bound[l.index]
        BY <1>3, <1>5, <3>1
      <3>4. \A i \in Index : i # l.index => bound'[i] = bound[i]
        BY <1>5, <3>1
      <3>5. bound'[l.index] <= bound[l.index] /\ tail[l.index] <= bound'[l.index] /\ bound'[l.index] <= o
            /\ bound'[l.index] \in Nat
        BY <1>3, <1>4, <1>6, <3>1, <3>3
      <3> QED
        BY <1>6, <3>2, <3>4, <3>5
    <2> QED
      BY <2>1, <2>2
  <1>8. EndsCover(B)'
    <2> SUFFICES ASSUME NEW i \in 0 .. End(Last) - 1 PROVE OffsetBy(B[i], bound'[i]) <= B[i + 1]
      BY <1>1 DEF EndsCover
    <2>1. i \in 0 .. TailIndex(Last)
      BY <1>2
    <2>2. i \in Index /\ B[i] \in Nat /\ B[i + 1] \in Nat
      BY <1>2, <2>1
    <2>3. OffsetBy(B[i], bound[i]) <= B[i + 1]
      BY DEF OneTimeline, EndsCover
    <2> QED
      BY <1>6, <1>7, <2>2, <2>3 DEF OffsetBy, OLDEST
  <1>9. LogletsFit(B)'
    BY <1>1, <1>7 DEF OneTimeline, LogletsFit
  <1>10. OffsetBy(l.base, o) \in Lsn
    <2>1. CASE l.marker
      BY <1>4, <2>1, Numbers DEF ReportSealed, OffsetBy
    <2>2. CASE ~l.marker
      BY <1>4, <2>2, Numbers DEF ReportSealed, OffsetBy
    <2> QED
      BY <1>3, <2>1, <2>2
  <1>11. l.marker => l.index < End(Last) /\ l.base = B[l.index + 1]
    BY <1>2, <1>3
  <1>12. ~l.marker => l.base = B[l.index] /\ OffsetBy(l.base, bound'[l.index]) <= OffsetBy(l.base, o)
    BY <1>3, <1>4, <1>7 DEF OffsetBy, OLDEST
  <1> QED
    BY <1>7, <1>8, <1>9, <1>10, <1>11, <1>12

-----------------------------------------------------------------------------
(* Steps that leave the versions alone *)

LEMMA SyncMetadataKeeps ==
    ASSUME Shape, NEW B, OneTimeline(B), NEW p \in Process, SyncMetadata(p)
    PROVE  Shape' /\ OneTimeline(B)'
  <1> USE DEF SyncMetadata, logletVars, history
  <1>1. PICK v \in view[p] + 1 .. Latest : view' = [view EXCEPT ![p] = v]
    OBVIOUS
  <1>2. Latest' = Latest
    BY DEF Latest
  <1>3. v \in 1 .. Latest
    BY DEF Shape
  <1>4. Shape'
    BY <1>1, <1>2, <1>3 DEF Shape
  <1> QED
    BY <1>4, Frame DEF OneTimeline

LEMMA WriteFailsKeeps ==
    ASSUME Shape, NEW B, OneTimeline(B), NEW p \in Process, WriteFails(p)
    PROVE  Shape' /\ OneTimeline(B)'
  <1> USE DEF WriteFails, chainVars, logletVars, history
  <1>1. PICK k \in 1 .. Len(queue[p]) : CompleteBatch(p, k)
    OBVIOUS
  <1>2. /\ queue' \in [Process -> Seq(Command)] /\ task' \in [Task -> TaskState]
        /\ \A q \in Process : \A n \in 1 .. Len(queue'[q]) :
              \E m \in 1 .. Len(queue[q]) : queue'[q][n] = queue[q][m]
        /\ \A t \in Task : task'[t] = Idle \/ task'[t] = task[t]
    BY <1>1, CompleteBatchFacts
  <1>3. Latest' = Latest /\ Last' = Last
    BY DEF Latest, Last
  <1>4. Shape'
    BY <1>2, <1>3 DEF Shape
  <1>5. CommandsFit(B)'
    <2> SUFFICES ASSUME NEW q \in Process, NEW n \in 1 .. Len(queue'[q])
                 PROVE  CommandFits(queue[q][n], B)'
      BY DEF CommandsFit
    <2>1. PICK m \in 1 .. Len(queue[q]) : queue'[q][n] = queue[q][m]
      BY <1>2
    <2>2. CommandFits(queue[q][m], B)
      BY DEF OneTimeline, CommandsFit
    <2> QED
      BY <1>3, <2>1, <2>2 DEF CommandFits
  <1>6. TasksFit(B)'
    <2> SUFFICES ASSUME NEW t \in Task PROVE TaskFits(task[t], B)'
      BY DEF TasksFit
    <2>1. CASE task'[t] = Idle
      BY <1>3, <2>1 DEF TaskFits, Idle, Shape
    <2>2. CASE task'[t] = task[t]
      <3>1. TaskFits(task[t], B)
        BY DEF OneTimeline, TasksFit
      <3> QED
        BY <1>3, <2>2, <3>1 DEF TaskFits, OnTimeline
    <2> QED
      BY <1>2, <2>1, <2>2
  <1> QED
    BY <1>4, <1>5, <1>6, Frame DEF OneTimeline

LEMMA AppendRecordKeeps ==
    ASSUME Shape, NEW B, OneTimeline(B), NEW p \in Process, AppendRecord(p)
    PROVE  Shape' /\ OneTimeline(B)'
  <1> USE DEF AppendRecord, chainVars, logletVars, history
  <1> DEFINE i == cache[p].index
             lsn == OffsetBy(cache[p].base, tail[i])
  <1>1. /\ ~cache[p].marker /\ tail[i] < bound[i] /\ lsn < MaxLsn
        /\ tail' = [tail EXCEPT ![i] = @ + 1]
        /\ acked' = acked \cup {[lsn |-> lsn, index |-> i]}
    OBVIOUS
  <1>2. Latest' = Latest /\ Last' = Last
    BY DEF Latest, Last
  <1>3. /\ i \in 0 .. TailIndex(Last) /\ cache[p].base = B[i]
    BY <1>1 DEF OneTimeline, CachesFit, OnTimeline, Pos
  <1>4. i \in Index /\ B[i] \in Nat /\ B[i] >= 1 /\ \A j \in Index : B[j] \in Nat
    BY <1>3, LastFacts DEF OneTimeline
  <1>5. tail \in [Index -> Offset] /\ bound \in [Index -> Offset]
    BY DEF Shape
  <1>6. tail[i] \in Nat /\ tail[i] >= 1 /\ bound[i] \in Nat /\ bound[i] <= MaxLsn
        /\ \A j \in Index : tail[j] \in Nat
    BY <1>4, <1>5, Numbers
  <1>7. lsn = B[i] + tail[i] - 1
    BY <1>3 DEF OffsetBy, OLDEST
  <1>8. lsn \in Lsn
    BY <1>1, <1>4, <1>6, <1>7, Numbers
  <1>9. tail'[i] = tail[i] + 1 /\ \A j \in Index : j # i => tail'[j] = tail[j]
    BY <1>1, <1>4, <1>5
  <1>10. tail' \in [Index -> Offset]
    <2>1. tail[i] + 1 \in Offset
      BY <1>1, <1>6, Numbers
    <2> QED
      BY <1>1, <1>4, <1>5, <2>1
  <1> HIDE DEF i, lsn
  <1>11. Shape'
    BY <1>1, <1>2, <1>4, <1>8, <1>10 DEF Shape
  <1>12. LogletsFit(B)'
    <2> SUFFICES ASSUME NEW j \in Index
                 PROVE  /\ tail'[j] <= bound[j] /\ trimPoint[j] < tail'[j]
                        /\ IF j <= TailIndex(Last) THEN OffsetBy(B[j], tail'[j]) <= MaxLsn
                           ELSE tail'[j] = OLDEST
      BY <1>2 DEF LogletsFit
    <2>1. /\ tail[j] <= bound[j] /\ trimPoint[j] < tail[j]
          /\ IF j <= TailIndex(Last) THEN OffsetBy(B[j], tail[j]) <= MaxLsn ELSE tail[j] = OLDEST
      BY DEF OneTimeline, LogletsFit
    <2>2. CASE j = i
      <3>1. trimPoint[i] \in Nat
        <4>1. trimPoint[i] \in Offset \cup {INVALID}
          BY <1>4 DEF Shape
        <4> QED
          BY <4>1, Numbers
      <3>2. i <= TailIndex(Last)
        BY <1>3
      <3>3. OffsetBy(B[i], tail'[i]) <= MaxLsn
        BY <1>1, <1>4, <1>6, <1>7, <1>9, Numbers DEF OffsetBy
      <3> QED
        BY <1>1, <1>6, <1>9, <2>1, <2>2, <3>1, <3>2, <3>3
    <2>3. CASE j # i
      BY <1>9, <2>1, <2>3
    <2> QED
      BY <2>2, <2>3
  <1>13. AckedFit(B)'
    <2> SUFFICES ASSUME NEW r \in acked'
                 PROVE  /\ r.index <= TailIndex(Last)
                        /\ B[r.index] <= r.lsn /\ r.lsn < OffsetBy(B[r.index], tail'[r.index])
      BY <1>2 DEF AckedFit
    <2>1. CASE r = [lsn |-> lsn, index |-> i]
      BY <1>3, <1>4, <1>6, <1>7, <1>9, <2>1 DEF OffsetBy, OLDEST
    <2>2. CASE r \in acked
      <3>1. /\ r.index <= TailIndex(Last)
            /\ B[r.index] <= r.lsn /\ r.lsn < OffsetBy(B[r.index], tail[r.index])
        BY <2>2 DEF OneTimeline, AckedFit
      <3>2. r.index \in Index /\ r.lsn \in Nat
        BY <2>2, Numbers DEF Shape
      <3>3. tail[r.index] <= tail'[r.index] /\ tail'[r.index] \in Nat /\ tail[r.index] \in Nat
        BY <1>6, <1>9, <3>2
      <3> QED
        BY <1>4, <3>1, <3>2, <3>3 DEF OffsetBy, OLDEST
    <2> QED
      BY <1>1, <2>1, <2>2
  <1> QED
    BY <1>11, <1>12, <1>13, Frame DEF OneTimeline

LEMMA NewSegmentDetectedKeeps ==
    ASSUME Shape, NEW B, OneTimeline(B), NEW p \in Process, NewSegmentDetected(p)
    PROVE  Shape' /\ OneTimeline(B)'
  <1> USE DEF NewSegmentDetected, chainVars, logletVars, history
  <1>1. cache' = [cache EXCEPT ![p] = TailLoglet(p)]
    OBVIOUS
  <1>2. Latest' = Latest /\ Last' = Last
    BY DEF Latest, Last
  <1>3. PICK l \in [base : Lsn, index : Index, marker : BOOLEAN] : l = TailLoglet(p) /\ OnTimeline(l, B)
    BY WrapperFits DEF OneTimeline
  <1>4. Shape'
    BY <1>1, <1>2, <1>3 DEF Shape
  <1>5. CachesFit(B)'
    <2> SUFFICES ASSUME NEW q \in Process PROVE OnTimeline(cache[q], B)'
      BY DEF CachesFit
    <2>1. cache'[p] = l /\ (q # p => cache'[q] = cache[q])
      BY <1>1, <1>3 DEF Shape
    <2>2. OnTimeline(cache[q], B)
      BY DEF OneTimeline, CachesFit
    <2> QED
      BY <1>2, <1>3, <2>1, <2>2 DEF OnTimeline
  <1> QED
    BY <1>4, <1>5, Frame DEF OneTimeline

LEMMA StartAdminKeeps ==
    ASSUME Shape, NEW B, OneTimeline(B), NEW t \in Task, StartAdmin(t)
    PROVE  Shape' /\ OneTimeline(B)'
  <1> USE DEF StartAdmin, chainVars, logletVars, history
  <1> DEFINE p == Home[t]
  <1>1. PICK op \in Ops \cap {"extend", "seal"}, seg \in {TailIndex(View(p)), cache[p].index} :
          task' = [task EXCEPT ![t] = [Idle EXCEPT !.op = op, !.step = "seal", !.seg = seg]]
    OBVIOUS
  <1>2. Latest' = Latest /\ Last' = Last /\ Latest \in Nat
    BY LastFacts DEF Latest, Last, OneTimeline
  <1>3. p \in Process
    BY ChainAssumption
  <1>4. seg \in 0 .. TailIndex(Last) /\ seg \in Index
    <2>1. OnTimeline(TailLoglet(p), B) /\ TailLoglet(p).index = TailIndex(View(p))
      BY <1>3, WrapperFits DEF OneTimeline
    <2>2. OnTimeline(cache[p], B)
      BY <1>3 DEF OneTimeline, CachesFit
    <2>3. seg \in 0 .. TailIndex(Last)
      BY <2>1, <2>2 DEF OnTimeline
    <2> QED
      BY <2>3, LastFacts DEF OneTimeline
  <1> DEFINE x == [Idle EXCEPT !.op = op, !.step = "seal", !.seg = seg]
  <1>5. x \in TaskState
    BY <1>2, <1>4, RestingFits DEF TaskState, Idle
  <1>6. TaskFits(x, B)'
    BY <1>2, <1>4 DEF TaskFits, Idle
  <1>7. TasksFit(B)' /\ task' \in [Task -> TaskState]
    <2> HIDE DEF x
    <2> QED
      BY <1>1, <1>5, <1>6, TaskMoves DEF x
  <1>8. Shape'
    BY <1>2, <1>7 DEF Shape
  <1> QED
    BY <1>7, <1>8, Frame DEF OneTimeline

LEMMA SealLogletKeeps ==
    ASSUME Shape, NEW B, OneTimeline(B), NEW t \in Task, SealLoglet(t)
    PROVE  Shape' /\ OneTimeline(B)'
  <1> USE DEF SealLoglet, chainVars, logletVars, history
  <1>1. /\ task[t].step = "seal" /\ TailLoglet(Home[t]).index = task[t].seg
        /\ sealed' = IF TailLoglet(Home[t]).marker THEN sealed
                     ELSE [sealed EXCEPT ![TailLoglet(Home[t]).index] = TRUE]
        /\ task' = [task EXCEPT ![t] = [@ EXCEPT !.step = "find", !.loglet = TailLoglet(Home[t])]]
    OBVIOUS
  <1>2. Latest' = Latest /\ Last' = Last
    BY DEF Latest, Last
  <1>3. Home[t] \in Process
    BY ChainAssumption
  <1>4. PICK l \in [base : Lsn, index : Index, marker : BOOLEAN] : l = TailLoglet(Home[t]) /\ OnTimeline(l, B)
    BY <1>3, WrapperFits DEF OneTimeline
  <1>5. PICK y \in TaskState : y = task[t] /\ TaskFits(y, B)
    BY DEF Shape, OneTimeline, TasksFit
  <1> DEFINE x == [y EXCEPT !.step = "find", !.loglet = l]
  <1>6. task' = [task EXCEPT ![t] = x]
    BY <1>1, <1>4, <1>5
  <1>7. x \in TaskState
    <2>1. l \in Wrapper
      BY <1>4, Numbers DEF Wrapper
    <2> QED
      BY <2>1 DEF TaskState
  <1>8. /\ x.step = "find" /\ x.loglet = l /\ x.seg = y.seg /\ x.ver = y.ver /\ x.op = y.op
    BY DEF TaskState
  <1>9. TaskFits(x, B)'
    <2> HIDE DEF x
    <2> QED
      BY <1>1, <1>2, <1>4, <1>5, <1>8 DEF TaskFits, OnTimeline
  <1>10. TasksFit(B)' /\ task' \in [Task -> TaskState]
    <2> HIDE DEF x
    <2> QED
      BY <1>6, <1>7, <1>9, TaskMoves
  <1>11. sealed' \in [Index -> BOOLEAN]
    BY <1>1, <1>4 DEF Shape
  <1>12. Shape'
    BY <1>2, <1>10, <1>11 DEF Shape
  <1> QED
    BY <1>10, <1>12, Frame DEF OneTimeline

LEMMA TaskEndsKeeps ==
    ASSUME Shape, NEW B, OneTimeline(B), NEW t \in Task, task' = [task EXCEPT ![t] = Idle],
           UNCHANGED <<chainVars, queue, cache, logletVars, history>>
    PROVE  Shape' /\ OneTimeline(B)'
  <1> USE DEF chainVars, logletVars, history
  <1>1. Latest' = Latest /\ Last' = Last /\ Latest' \in Nat
    BY LastFacts DEF Latest, Last, OneTimeline
  <1>2. Idle \in TaskState /\ TaskFits(Idle, B)'
    BY <1>1, RestingFits
  <1>3. TasksFit(B)' /\ task' \in [Task -> TaskState]
    BY <1>2, TaskMoves
  <1>4. Shape'
    BY <1>1, <1>3 DEF Shape
  <1> QED
    BY <1>3, <1>4, Frame DEF OneTimeline

LEMMA FoundSealedKeeps ==
    ASSUME Shape, NEW B, OneTimeline(B), NEW t \in Task, FoundSealed(t)
    PROVE  Shape' /\ OneTimeline(B)'
  <1> USE DEF FoundSealed, chainVars, logletVars, history
  <1>1. PICK o \in Offset :
          /\ ReportSealed(task[t].loglet, o)
          /\ Send(t, task[t].op, task[t].seg, OffsetBy(task[t].loglet.base, o), {t})
    OBVIOUS
  <1>2. Latest' = Latest /\ Last' = Last /\ Latest' \in Nat
    BY LastFacts DEF Latest, Last, OneTimeline
  <1>3. PICK y \in TaskState : y = task[t] /\ TaskFits(y, B) /\ y.step = "find"
    BY DEF Shape, OneTimeline, TasksFit
  <1>4. /\ y.op \in {"extend", "seal"} /\ y.seg \in 0 .. TailIndex(Last) /\ y.seg = y.loglet.index
        /\ y.loglet \in Wrapper /\ OnTimeline(y.loglet, B)
    BY <1>3 DEF TaskFits, TaskState
  <1> DEFINE l == y.loglet
             lsn == OffsetBy(l.base, o)
             x == [op |-> y.op, seg |-> y.seg, lsn |-> lsn, task |-> {t}]
  <1>5. /\ bound' \in [Index -> Offset] /\ \A i \in Index : bound'[i] <= bound[i]
        /\ EndsCover(B)' /\ LogletsFit(B)' /\ lsn \in Lsn
        /\ l.marker => l.index < End(Last)
        /\ ~l.marker => l.base = B[l.index] /\ OffsetBy(l.base, bound'[l.index]) <= lsn
    BY <1>1, <1>3, <1>4, ReportFacts
  <1>6. l.marker \in BOOLEAN /\ End(Last) \in Nat /\ l.index \in Nat /\ y.seg \in Index
    BY <1>4, LastFacts DEF Wrapper, OneTimeline
  <1>7. x \in Command
    BY <1>4, <1>5, <1>6 DEF Command
  <1>8. y.seg = End(Last) => OffsetBy(B[y.seg], bound'[y.seg]) <= lsn
    BY <1>4, <1>5, <1>6
  <1>9. x.op # "trim" /\ x.seg = y.seg /\ x.lsn = lsn
    BY <1>4
  <1>10. queue' = [queue EXCEPT ![Home[t]] = Append(@, x)] /\ Home[t] \in Process
    BY <1>1, <1>3, ChainAssumption DEF Send
  <1> HIDE DEF x, lsn, l
  <1>11. CommandFits(x, B)'
    BY <1>2, <1>4, <1>8, <1>9 DEF CommandFits
  <1>12. queue' \in [Process -> Seq(Command)] /\ CommandsFit(B)'
    BY <1>5, <1>7, <1>10, <1>11, SendFacts
  <1>13. TasksFit(B)' /\ task' \in [Task -> TaskState]
    <2>1. [Idle EXCEPT !.step = "wait"] \in TaskState /\ TaskFits([Idle EXCEPT !.step = "wait"], B)'
      BY <1>2, RestingFits
    <2>2. PICK z \in TaskState : z = [Idle EXCEPT !.step = "wait"] /\ TaskFits(z, B)'
      BY <2>1
    <2> QED
      BY <2>2, TaskMoves
  <1>14. Shape'
    BY <1>2, <1>5, <1>12, <1>13 DEF Shape
  <1> QED
    BY <1>5, <1>12, <1>13, <1>14, Frame DEF OneTimeline

LEMMA FoundOpenKeeps ==
    ASSUME Shape, NEW B, OneTimeline(B), NEW t \in Task, FoundOpen(t)
    PROVE  Shape' /\ OneTimeline(B)'
  <1> USE DEF FoundOpen, chainVars, logletVars, history
  <1>1. PICK y \in TaskState : y = task[t] /\ TaskFits(y, B) /\ y.step = "find"
    BY DEF Shape, OneTimeline, TasksFit
  <1> DEFINE x == IF y.op = "extend" THEN [y EXCEPT !.step = "seal", !.loglet = NoLoglet] ELSE Idle
  <1>2. Latest' = Latest /\ Last' = Last /\ Latest' \in Nat
    BY LastFacts DEF Latest, Last, OneTimeline
  <1>3. task' = [task EXCEPT ![t] = x]
    BY <1>1
  <1>4. x \in TaskState /\ TaskFits(x, B)'
    <2>1. CASE y.op = "extend"
      <3>1. NoLoglet \in Wrapper
        BY Numbers DEF NoLoglet, Wrapper
      <3>2. x \in TaskState
        BY <2>1, <3>1 DEF TaskState
      <3>3. x.step = "seal" /\ x.op = y.op /\ x.seg = y.seg /\ x.ver = y.ver
        BY <2>1 DEF TaskState
      <3> HIDE DEF x
      <3> QED
        BY <1>1, <1>2, <3>2, <3>3 DEF TaskFits
    <2>2. CASE y.op # "extend"
      BY <1>2, <2>2, RestingFits
    <2> QED
      BY <2>1, <2>2
  <1>5. TasksFit(B)' /\ task' \in [Task -> TaskState]
    <2> HIDE DEF x
    <2> QED
      BY <1>3, <1>4, TaskMoves
  <1>6. Shape'
    BY <1>2, <1>5 DEF Shape
  <1> QED
    BY <1>5, <1>6, Frame DEF OneTimeline

LEMMA FindTailKeeps ==
    ASSUME Shape, NEW B, OneTimeline(B), NEW t \in Task, FindTail(t)
    PROVE  Shape' /\ OneTimeline(B)'
  <1> USE DEF FindTail, chainVars, logletVars, history
  <1>1. Home[t] \in Process
    BY ChainAssumption
  <1>2. PICK l \in [base : Lsn, index : Index, marker : BOOLEAN] : l = TailLoglet(Home[t]) /\ OnTimeline(l, B)
    BY <1>1, WrapperFits DEF OneTimeline
  <1> DEFINE x == [Idle EXCEPT !.op = "tail", !.step = "ask", !.loglet = l]
  <1>3. Latest' = Latest /\ Last' = Last /\ Latest' \in Nat
    BY LastFacts DEF Latest, Last, OneTimeline
  <1>4. task' = [task EXCEPT ![t] = x]
    BY <1>2
  <1>5. x \in TaskState
    <2>1. l \in Wrapper
      BY <1>2, Numbers DEF Wrapper
    <2> QED
      BY <1>3, <2>1, RestingFits DEF TaskState, Idle
  <1>6. x.step = "ask" /\ x.loglet = l /\ x.ver = 0
    BY DEF Idle
  <1> HIDE DEF x
  <1>7. TaskFits(x, B)'
    BY <1>2, <1>3, <1>6 DEF TaskFits, OnTimeline
  <1>8. TasksFit(B)' /\ task' \in [Task -> TaskState]
    BY <1>4, <1>5, <1>7, TaskMoves
  <1>9. Shape'
    BY <1>3, <1>8 DEF Shape
  <1> QED
    BY <1>8, <1>9, Frame DEF OneTimeline

LEMMA TailSealedKeeps ==
    ASSUME Shape, NEW B, OneTimeline(B), NEW t \in Task, TailSealed(t)
    PROVE  Shape' /\ OneTimeline(B)'
  <1> USE DEF TailSealed, chainVars, logletVars, history
  <1>1. PICK y \in TaskState : y = task[t] /\ TaskFits(y, B) /\ y.step = "ask"
    BY DEF Shape, OneTimeline, TasksFit
  <1>2. y.loglet \in Wrapper /\ OnTimeline(y.loglet, B)
    BY <1>1 DEF TaskFits, TaskState
  <1> DEFINE l == y.loglet
             x == IF l.marker THEN Idle
                  ELSE [Idle EXCEPT !.op = "seal", !.step = "seal", !.seg = l.index]
  <1>3. PICK o \in Offset : ReportSealed(l, o)
    BY <1>1
  <1>4. /\ bound' \in [Index -> Offset] /\ \A i \in Index : bound'[i] <= bound[i]
        /\ EndsCover(B)' /\ LogletsFit(B)'
        /\ l.marker => l.index < End(Last) /\ l.base = B[l.index + 1]
    BY <1>2, <1>3, ReportFacts
  <1>5. Latest' = Latest /\ Last' = Last /\ Latest' \in Nat
    BY LastFacts DEF Latest, Last, OneTimeline
  <1>6. /\ l.index \in 0 .. TailIndex(Last) /\ l.index \in Index /\ l.marker \in BOOLEAN
        /\ \A i \in Index : B[i + 1] \in Lsn
    BY <1>2, LastFacts DEF OnTimeline, Wrapper, OneTimeline
  <1>7. task' = [task EXCEPT ![t] = x]
    BY <1>1, <1>6
  <1>8. x \in TaskState /\ TaskFits(x, B)'
    <2>1. CASE l.marker
      BY <1>5, <2>1, RestingFits
    <2>2. CASE ~l.marker
      <3>1. x \in TaskState
        BY <1>5, <1>6, <2>2, RestingFits DEF TaskState, Idle
      <3>2. x.step = "seal" /\ x.op = "seal" /\ x.seg = l.index /\ x.ver = 0
        BY <2>2 DEF Idle
      <3> HIDE DEF x
      <3> QED
        BY <1>5, <1>6, <3>1, <3>2 DEF TaskFits
    <2> QED
      BY <1>6, <2>1, <2>2
  <1> HIDE DEF x
  <1>9. TasksFit(B)' /\ task' \in [Task -> TaskState]
    BY <1>7, <1>8, TaskMoves
  <1>10. AnswersFit(B)' /\ answers' \subseteq [lsn : Lsn, index : Index]
    <2>1. answers \subseteq [lsn : Lsn, index : Index] /\ AnswersFit(B)
      BY DEF Shape, OneTimeline
    <2>2. CASE l.marker
      <3>1. answers' = answers \cup {[lsn |-> l.base, index |-> l.index]}
        BY <1>1, <2>2
      <3>2. l.index < End(Last) /\ l.base = B[l.index + 1] /\ l.base \in Lsn
        BY <1>4, <1>6, <2>2
      <3> HIDE DEF l
      <3> QED
        BY <1>5, <1>6, <2>1, <3>1, <3>2 DEF AnswersFit
    <2>3. CASE ~l.marker
      BY <1>1, <1>5, <2>1, <2>3 DEF AnswersFit
    <2> QED
      BY <1>6, <2>2, <2>3
  <1>11. CommandsFit(B)'
    BY <1>4, CommandsKeep
  <1>12. Shape'
    BY <1>4, <1>5, <1>9, <1>10 DEF Shape
  <1> QED
    BY <1>4, <1>9, <1>10, <1>11, <1>12, Frame DEF OneTimeline

LEMMA TrimKeeps ==
    ASSUME Shape, NEW B, OneTimeline(B), NEW t \in Task, Trim(t)
    PROVE  Shape' /\ OneTimeline(B)'
  <1> USE DEF Trim, chainVars, logletVars, history
  <1>1. PICK lsn \in TrimRequests \ trims :
          /\ task' = [task EXCEPT ![t] = [Idle EXCEPT !.op = "trim", !.step = "trim", !.lsn = lsn,
                                                      !.ver = view[Home[t]]]]
          /\ trims' = trims \cup {lsn}
    BY Zenon
  <1>2. Latest' = Latest /\ Last' = Last /\ Latest' \in Nat
    BY LastFacts DEF Latest, Last, OneTimeline
  <1>3. lsn \in Nat /\ trims' \subseteq Nat
    BY <1>1, ChainAssumption DEF Shape
  <1>4. PICK v \in 1 .. Latest : v = view[Home[t]]
    <2>1. Home[t] \in Process
      BY ChainAssumption
    <2> QED
      BY <2>1 DEF Shape
  <1> DEFINE x == [Idle EXCEPT !.op = "trim", !.step = "trim", !.lsn = lsn, !.ver = v]
  <1>5. x \in TaskState
    <2>1. v \in Nat
      BY <1>2
    <2> QED
      BY <1>2, <1>3, <2>1, RestingFits DEF TaskState, Idle
  <1>6. x.step = "trim" /\ x.lsn = lsn /\ x.ver = v
    BY DEF Idle
  <1> HIDE DEF x
  <1>7. TaskFits(x, B)'
    <2>1. v <= Latest' /\ v > 0 /\ lsn \in trims'
      BY <1>1, <1>2, <1>4
    <2> QED
      BY <1>6, <2>1 DEF TaskFits
  <1>8. TasksFit(B)' /\ task' \in [Task -> TaskState]
    <2>1. task' = [task EXCEPT ![t] = x]
      BY <1>1, <1>4 DEF x
    <2> QED
      BY <1>1, <1>5, <1>7, <2>1, TaskMoves
  <1>9. CommandsFit(B)'
    <2>1. bound \in [Index -> Offset]
      BY DEF Shape
    <2>2. \A i \in Index : bound[i] <= bound[i]
      BY <2>1, Numbers
    <2> QED
      BY <1>1, <2>1, <2>2, CommandsKeep
  <1>10. TrimsFit(B)'
    BY <1>1, <1>2 DEF OneTimeline, TrimsFit
  <1>11. Shape'
    BY <1>2, <1>3, <1>8 DEF Shape
  <1> QED
    BY <1>8, <1>9, <1>10, <1>11, Frame DEF OneTimeline

LEMMA TrimSegmentKeeps ==
    ASSUME Shape, NEW B, OneTimeline(B), NEW t \in Task, TrimSegment(t)
    PROVE  Shape' /\ OneTimeline(B)'
  <1> USE DEF TrimSegment, chainVars, logletVars, history
  <1>1. PICK y \in TaskState : y = task[t] /\ TaskFits(y, B) /\ y.step = "trim"
    BY DEF Shape, OneTimeline, TasksFit
  <1>2. y.lsn \in trims /\ y.lsn \in Nat /\ y.ver \in 1 .. Latest
    BY <1>1 DEF TaskFits, TaskState, Shape
  <1> DEFINE base == Min(Remaining(t))
             chain == versions[y.ver]
             i == chain[base].index
  <1>3. Latest' = Latest /\ Last' = Last /\ Latest' \in Nat
    BY LastFacts DEF Latest, Last, OneTimeline
  <1>4. chain \in ChainSet /\ Fits(chain, B, End(chain)) /\ End(chain) \in Nat /\ Rising(B, End(chain))
        /\ TailIndex(chain) <= TailIndex(Last) /\ TailIndex(chain) \in Nat
    BY <1>2, VersionFacts DEF OneTimeline
  <1>5. DOMAIN chain \subseteq Nat \ {0} /\ \A b \in DOMAIN chain : chain[b].index \in Nat
    BY <1>4, ChainFields
  <1>6. base \in DOMAIN chain /\ base <= y.lsn /\ base \in Nat
    <2>1. Remaining(t) = {b \in DOMAIN chain : y.loglet.base < b /\ b <= y.lsn}
      BY <1>1 DEF Remaining
    <2>2. Remaining(t) \subseteq Nat /\ Remaining(t) # {}
      BY <1>5, <2>1
    <2>3. base \in Remaining(t)
      BY <2>2, MinIs
    <2> QED
      BY <1>5, <2>1, <2>3
  <1> HIDE DEF base
  <1>7. PICK l \in Wrapper : l = [NoLoglet EXCEPT !.base = base]
    BY <1>6, Numbers DEF NoLoglet, Wrapper
  <1> DEFINE x == [y EXCEPT !.loglet = l]
  <1>8. /\ x \in TaskState /\ x.step = "trim" /\ x.lsn = y.lsn /\ x.ver = y.ver
        /\ task' = [task EXCEPT ![t] = x]
    BY <1>1, <1>7 DEF TaskState, base
  <1> HIDE DEF x
  <1>9. TaskFits(x, B)'
    BY <1>1, <1>2, <1>3, <1>8 DEF TaskFits
  <1>10. TasksFit(B)' /\ task' \in [Task -> TaskState]
    BY <1>8, <1>9, TaskMoves
  <1>11. trimPoint \in [Index -> Offset \cup {INVALID}] /\ tail \in [Index -> Offset]
    BY DEF Shape
  <1>12. \A j \in Index : trimPoint[j] \in Nat /\ tail[j] \in Nat /\ tail[j] <= MaxLsn /\ trimPoint[j] < tail[j]
    <2>1. \A j \in Index : trimPoint[j] \in Offset \cup {INVALID}
      BY <1>11
    <2> QED
      BY <1>11, <2>1, Numbers DEF OneTimeline, LogletsFit
  <1>13. CASE chain[base].marker
    <2>1. trimPoint' = trimPoint
      BY <1>1, <1>13 DEF base
    <2>2. Shape'
      BY <1>3, <1>10, <2>1 DEF Shape
    <2> QED
      BY <1>10, <2>1, <2>2, Frame DEF OneTimeline
  <1>14. CASE ~chain[base].marker
    <2>1. PICK known \in OLDEST .. tail[i] :
            trimPoint' = [trimPoint EXCEPT ![i] = Max({@, Min({IntoOffset(y.lsn, base), known - 1})})]
      BY <1>1, <1>14 DEF base
    <2> DEFINE into == IntoOffset(y.lsn, base)
               point == Min({into, known - 1})
               new == Max({trimPoint[i], point})
    <2>2. i \in 0 .. TailIndex(Last) /\ i \in Index /\ base = B[i] /\ B[i] \in Nat
      <3>1. chain[base].index <= TailIndex(chain)
        BY <1>4, <1>6, StretchFields
      <3>2. i \in 0 .. TailIndex(Last)
        BY <1>4, <1>5, <1>6, <3>1, LastFacts DEF OneTimeline
      <3>3. Pos(chain[base]) = i /\ B[Pos(chain[base])] = base
        BY <1>4, <1>6, <1>14, ChainFields DEF Fits
      <3> QED
        BY <1>6, <3>2, <3>3, LastFacts DEF OneTimeline
    <2> HIDE DEF i
    <2>3. into \in Nat /\ into >= 1 /\ OffsetBy(B[i], into) = y.lsn
      BY <1>2, <1>6, <2>2 DEF IntoOffset, OffsetBy, OLDEST
    <2>4. known - 1 \in Nat /\ known - 1 < tail[i]
      BY <1>12, <2>2 DEF OLDEST
    <2> HIDE DEF into
    <2>5. point \in Nat /\ point <= into /\ point < tail[i]
      <3>1. {into, known - 1} \subseteq Nat /\ {into, known - 1} # {}
        BY <2>3, <2>4
      <3>2. point \in {into, known - 1} /\ point <= into /\ point <= known - 1
        BY <3>1, MinIs
      <3> QED
        BY <1>12, <2>2, <2>3, <2>4, <3>2
    <2> HIDE DEF point
    <2>6. new \in {trimPoint[i], point} /\ new \in Nat
      <3>1. /\ {trimPoint[i], point} \subseteq Nat /\ {trimPoint[i], point} # {}
            /\ MaxLsn \in Nat /\ \A z \in {trimPoint[i], point} : z <= MaxLsn
        BY <1>12, <2>2, <2>5, Numbers
      <3>2. new \in {trimPoint[i], point}
        BY <3>1, MaxIs
      <3> QED
        BY <3>1, <3>2
    <2>7. trimPoint' = [trimPoint EXCEPT ![i] = new]
      BY <2>1 DEF point, into, i
    <2> HIDE DEF new
    <2>8. new < tail[i] /\ new \in Offset \cup {INVALID}
      BY <1>12, <2>2, <2>5, <2>6, Numbers
    <2>9. /\ trimPoint' \in [Index -> Offset \cup {INVALID}] /\ trimPoint'[i] = new
          /\ \A j \in Index : j # i => trimPoint'[j] = trimPoint[j]
      BY <1>11, <2>2, <2>7, <2>8
    <2>10. Shape'
      BY <1>3, <1>10, <2>9 DEF Shape
    <2>11. LogletsFit(B)'
      BY <1>3, <2>8, <2>9 DEF OneTimeline, LogletsFit
    <2>12. TrimsFit(B)'
      <3>1. ASSUME NEW j \in 0 .. TailIndex(Last), trimPoint'[j] # INVALID
            PROVE  \E q \in trims : OffsetBy(B[j], trimPoint'[j]) <= q
        <4>1. j \in Index
          BY LastFacts DEF OneTimeline
        <4>2. CASE trimPoint'[j] = trimPoint[j]
          BY <3>1, <4>2 DEF OneTimeline, TrimsFit
        <4>3. CASE j = i /\ new = point
          <5>1. OffsetBy(B[i], point) <= OffsetBy(B[i], into)
            BY <2>2, <2>3, <2>5 DEF OffsetBy, OLDEST
          <5>2. OffsetBy(B[i], point) <= y.lsn
            BY <2>3, <5>1
          <5> QED
            BY <1>2, <2>9, <4>3, <5>2
        <4> QED
          BY <2>6, <2>9, <4>1, <4>2, <4>3
      <3> QED
        BY <1>3, <3>1 DEF OneTimeline, TrimsFit
    <2> QED
      BY <1>10, <2>10, <2>11, <2>12, Frame DEF OneTimeline
  <1> QED
    BY <1>13, <1>14

\* the trim point of a log was asked for
LEMMA TrimPointAsked ==
    ASSUME Shape, NEW B, OneTimeline(B), NEW v \in 1 .. Latest,
           GetTrimPoint(versions[v], trimPoint) # INVALID
    PROVE  /\ GetTrimPoint(versions[v], trimPoint) \in Lsn
           /\ \E t \in trims : GetTrimPoint(versions[v], trimPoint) <= t
  <1> DEFINE chain == versions[v]
             untrimmed == {b \in DOMAIN chain : chain[b].marker \/ trimPoint[chain[b].index] = INVALID}
             found == {b \in DOMAIN chain : \A u \in untrimmed : b < u}
             b == Max(found)
             i == chain[b].index
             point == OffsetBy(b, trimPoint[i])
             end == TailLsn(chain, b)
  <1>1. chain \in ChainSet /\ Fits(chain, B, End(chain)) /\ End(chain) \in Nat /\ Rising(B, End(chain))
        /\ TailIndex(chain) <= TailIndex(Last) /\ TailIndex(chain) \in Nat
        /\ B[End(chain)] \in DOMAIN chain /\ \A c \in DOMAIN chain : c <= B[End(chain)]
    BY VersionFacts DEF OneTimeline
  <1>2. DOMAIN chain \subseteq Nat \ {0} /\ \A c \in DOMAIN chain : chain[c].index \in Nat
    BY <1>1, ChainFields
  <1>3. found # {} /\ GetTrimPoint(chain, trimPoint) = SegmentTrimPoint(chain, b, trimPoint)
    BY DEF GetTrimPoint
  <1>4. b \in found
    <2>1. found \subseteq Nat /\ B[End(chain)] \in Nat /\ \A c \in found : c <= B[End(chain)]
      BY <1>1, <1>2
    <2> HIDE DEF found
    <2> QED
      BY <1>3, <2>1, MaxIs
  <1> HIDE DEF b
  <1>5. b \in DOMAIN chain /\ ~chain[b].marker /\ trimPoint[i] # INVALID /\ b \in Nat /\ b >= 1
    <2>1. b \in DOMAIN chain /\ b \in Nat /\ b >= 1
      BY <1>2, <1>4
    <2>2. b \notin untrimmed
      <3>1. b \in untrimmed => b < b
        BY <1>4
      <3> QED
        BY <2>1, <3>1
    <2> QED
      BY <2>1, <2>2
  <1>6. i \in 0 .. TailIndex(Last) /\ i \in Index /\ b = B[i]
    <2>1. chain[b].index <= TailIndex(chain)
      BY <1>1, <1>5, StretchFields
    <2>2. i \in 0 .. TailIndex(Last)
      BY <1>1, <1>2, <1>5, <2>1, LastFacts DEF OneTimeline
    <2>3. Pos(chain[b]) = i /\ B[Pos(chain[b])] = b
      BY <1>1, <1>5, ChainFields DEF Fits
    <2> QED
      BY <2>2, <2>3, LastFacts DEF OneTimeline
  <1>7. /\ trimPoint[i] \in Nat /\ trimPoint[i] >= 1 /\ trimPoint[i] < tail[i] /\ tail[i] \in Nat
        /\ OffsetBy(B[i], tail[i]) <= MaxLsn
    <2>1. trimPoint[i] \in Offset \cup {INVALID} /\ tail[i] \in Offset
      BY <1>6 DEF Shape
    <2>2. i <= TailIndex(Last)
      BY <1>6
    <2> QED
      BY <1>5, <1>6, <2>1, <2>2, Numbers DEF OneTimeline, LogletsFit
  <1>8. point \in Lsn /\ point \in Nat
    <2>1. B[i] \in Nat /\ B[i] >= 1
      BY <1>5, <1>6
    <2>2. OffsetBy(B[i], tail[i]) = B[i] + tail[i] - 1
      BY <1>7, <2>1, OffsetIs
    <2>3. point = B[i] + trimPoint[i] - 1
      BY <1>6, <1>7, <2>1, OffsetIs
    <2> HIDE DEF point, i
    <2>4. point \in Int /\ point >= 1 /\ point <= MaxLsn
      BY <1>7, <2>1, <2>2, <2>3, ChainAssumption
    <2> QED
      BY <2>4, Numbers
  <1>9. PICK t \in trims : point <= t
    BY <1>5, <1>6 DEF OneTimeline, TrimsFit
  <1>10. t \in Nat
    BY DEF Shape
  <1>11. SegmentTrimPoint(chain, b, trimPoint) = IF end = INVALID THEN point ELSE Min({point, end - 1})
    BY DEF SegmentTrimPoint
  <1> HIDE DEF point, end
  <1>12. CASE end = INVALID
    BY <1>3, <1>8, <1>9, <1>11, <1>12
  <1>13. CASE end # INVALID
    <2>1. end > b /\ end \in Nat
      <3>1. end > b
        BY <1>1, <1>5, <1>13, TailLsnIs DEF end
      <3>2. end \in DOMAIN chain
        BY <1>1, <1>5, <1>13, TailLsnIs DEF end
      <3> QED
        BY <1>2, <3>1, <3>2
    <2>2. {point, end - 1} \subseteq Nat /\ end - 1 >= 1
      BY <1>5, <1>8, <2>1
    <2> DEFINE m == Min({point, end - 1})
    <2>3. m \in {point, end - 1} /\ m <= point
      BY <2>2, MinIs
    <2> HIDE DEF m
    <2>4. m \in Lsn /\ m <= t
      BY <1>8, <1>9, <1>10, <2>1, <2>2, <2>3, Numbers
    <2> QED
      BY <1>3, <1>11, <1>13, <2>4 DEF m
  <1> QED
    BY <1>12, <1>13

LEMMA LogTrimmedKeeps ==
    ASSUME Shape, NEW B, OneTimeline(B), NEW t \in Task, LogTrimmed(t)
    PROVE  Shape' /\ OneTimeline(B)'
  <1> USE DEF LogTrimmed, chainVars, logletVars, history
  <1> DEFINE p == Home[t]
             point == GetTrimPoint(View(p), trimPoint)
  <1>1. task' = [task EXCEPT ![t] = Idle]
    OBVIOUS
  <1>2. CASE point = INVALID
    <2>1. queue' = queue
      BY <1>2
    <2> QED
      BY <1>1, <2>1, TaskEndsKeeps
  <1>3. CASE point # INVALID
    <2>1. p \in Process /\ view[p] \in 1 .. Latest
      BY ChainAssumption DEF Shape
    <2>2. PICK lsn \in Lsn : lsn = point /\ \E q \in trims : lsn <= q
      BY <1>3, <2>1, TrimPointAsked DEF View
    <2> DEFINE x == [op |-> "trim", seg |-> -1, lsn |-> lsn, task |-> {}]
    <2>3. queue' = [queue EXCEPT ![p] = Append(@, x)]
      BY <1>3, <2>2 DEF Send
    <2>4. x \in Command /\ x.op = "trim" /\ x.lsn = lsn
      BY DEF Command
    <2> HIDE DEF x, point, p
    <2>5. CommandFits(x, B)'
      BY <2>2, <2>4 DEF CommandFits
    <2>6. bound \in [Index -> Offset]
      BY DEF Shape
    <2>7. bound' \in [Index -> Offset] /\ \A i \in Index : bound'[i] <= bound[i]
      BY <2>6, Numbers
    <2>8. queue' \in [Process -> Seq(Command)] /\ CommandsFit(B)'
      BY <2>1, <2>3, <2>4, <2>5, <2>7, SendFacts
    <2>9. Latest' = Latest /\ Last' = Last /\ Latest' \in Nat
      BY LastFacts DEF Latest, Last, OneTimeline
    <2>10. Idle \in TaskState /\ TaskFits(Idle, B)'
      BY <2>9, RestingFits
    <2>11. TasksFit(B)' /\ task' \in [Task -> TaskState]
      BY <1>1, <2>10, TaskMoves
    <2>12. Shape'
      BY <2>8, <2>9, <2>11 DEF Shape
    <2> QED
      BY <2>8, <2>11, <2>12, Frame DEF OneTimeline
  <1> QED
    BY <1>2, <1>3
-----------------------------------------------------------------------------
(* Steps that write a version *)

\* what the commands of a batch make of the latest version, on the timeline D
Reached(chain, B, D) ==
    /\ D \in [0 .. MaxVersion -> Lsn] /\ \A k \in 0 .. End(Last) : D[k] = B[k]
    /\ End(chain) \in Nat /\ Fits(chain, D, End(chain)) /\ Rising(D, End(chain))
    /\ End(Last) <= End(chain) /\ End(chain) <= TailIndex(Last) + 1
    /\ TailIndex(Last) <= TailIndex(chain) /\ TailIndex(chain) <= TailIndex(Last) + 1
    /\ End(Last) < End(chain) =>
          OffsetBy(B[TailIndex(Last)], bound[TailIndex(Last)]) <= D[TailIndex(Last) + 1]
    /\ \E b \in DOMAIN chain, t \in trims \cup {0} : b <= t + 1

\* a segment or a marker after an open tail
LEMMA PutReached ==
    ASSUME Shape, NEW B, OneTimeline(B), NEW chain, NEW D, Reached(chain, B, D), ~IsSealed(chain),
           NEW cmd \in Command, cmd.op # "trim", CommandFits(cmd, B), TailIndex(chain) = cmd.seg,
           cmd.lsn >= TailBase(chain), NEW segment \in Segments, Pos(segment) = cmd.seg + 1,
           segment.index \in {cmd.seg, cmd.seg + 1}
    PROVE  \E E \in [0 .. MaxVersion -> Lsn] : Reached(Put(chain, cmd.lsn, segment), B, E)
  <1> DEFINE T == TailIndex(Last)
             J == End(Last)
             new == Put(chain, cmd.lsn, segment)
             E == [D EXCEPT ![T + 1] = cmd.lsn]
  <1>1. T \in Nat /\ J \in Nat /\ J \in {T, T + 1} /\ T + 1 \in 0 .. MaxVersion /\ T \in Index
    BY LastFacts DEF OneTimeline
  <1>2. /\ D \in [0 .. MaxVersion -> Lsn] /\ \A k \in 0 .. J : D[k] = B[k]
        /\ End(chain) \in Nat /\ Fits(chain, D, End(chain)) /\ Rising(D, End(chain))
        /\ J <= End(chain) /\ T <= TailIndex(chain)
        /\ \E b \in DOMAIN chain, t \in trims \cup {0} : b <= t + 1
    BY DEF Reached
  <1>3. End(chain) = TailIndex(chain) /\ TailBase(chain) = D[End(chain)]
    BY <1>2, FitsTail
  <1>4. cmd.seg \in 0 .. T /\ (cmd.seg = J => OffsetBy(B[cmd.seg], bound[cmd.seg]) <= cmd.lsn)
    BY DEF CommandFits
  <1>5. cmd.seg = T /\ End(chain) = T /\ J = T
    BY <1>1, <1>2, <1>3, <1>4
  <1>6. cmd.lsn \in Lsn /\ cmd.lsn \in Nat \ {0}
    BY Numbers DEF Command
  <1>7. /\ E \in [0 .. MaxVersion -> Lsn] /\ E[T + 1] = cmd.lsn
        /\ \A k \in 0 .. T : E[k] = D[k]
    BY <1>1, <1>2, <1>6
  <1> HIDE DEF T, J, E
  <1>8. Fits(new, E, T + 1) /\ Rising(E, T + 1)
    <2>1. Fits(chain, D, T) /\ Rising(D, T) /\ cmd.lsn >= D[T] /\ Pos(segment) = T + 1
      BY <1>2, <1>3, <1>5
    <2>2. PICK lsn \in Nat \ {0} : lsn = cmd.lsn
      BY <1>6
    <2>3. Fits(Put(chain, lsn, segment), E, T + 1) /\ Rising(E, T + 1)
      <3>1. lsn >= D[T] /\ E[T + 1] = lsn /\ T \in Nat
        BY <1>1, <1>7, <2>1, <2>2
      <3>2. \A k \in 0 .. T : E[k] = D[k]
        BY <1>7
      <3>3. Fits(Put(chain, lsn, segment), E, T + 1)
        BY <2>1, <3>1, <3>2, PutFits
      <3>4. Rising(E, T + 1)
        BY <2>1, <3>1, <3>2, PutFits
      <3> QED
        BY <3>3, <3>4
    <2> QED
      BY <2>2, <2>3
  <1>9. End(new) = T + 1 /\ TailIndex(new) = new[cmd.lsn].index
    <2>1. T + 1 \in Nat
      BY <1>1
    <2>2. End(new) = T + 1 /\ TailIndex(new) = new[E[T + 1]].index
      BY <1>8, <2>1, FitsTail
    <2> QED
      BY <1>7, <2>2
  <1>10. new[cmd.lsn] = segment /\ DOMAIN chain \subseteq DOMAIN new
    BY DEF Put
  <1>11. TailIndex(new) \in {T, T + 1}
    BY <1>5, <1>9, <1>10
  <1> HIDE DEF new
  <1>12. \E b \in DOMAIN new, t \in trims \cup {0} : b <= t + 1
    BY <1>2, <1>10
  <1>13. \A k \in 0 .. J : E[k] = B[k]
    BY <1>2, <1>5, <1>7
  <1>14. OffsetBy(B[T], bound[T]) <= E[T + 1]
    BY <1>4, <1>5, <1>7
  <1>15. /\ End(new) \in Nat /\ J <= End(new) /\ End(new) <= T + 1
         /\ T <= TailIndex(new) /\ TailIndex(new) <= T + 1
    BY <1>1, <1>5, <1>9, <1>11
  <1>16. Reached(new, B, E)
    BY <1>7, <1>8, <1>9, <1>12, <1>13, <1>14, <1>15 DEF Reached, T, J
  <1> QED
    BY <1>7, <1>16 DEF new

\* a segment in place of the marker
LEMMA ReplaceReached ==
    ASSUME Shape, NEW B, OneTimeline(B), NEW chain, NEW D, Reached(chain, B, D), IsSealed(chain),
           NEW cmd \in Command, cmd.op # "trim", CommandFits(cmd, B), TailIndex(chain) = cmd.seg,
           cmd.lsn = TailBase(chain)
    PROVE  Reached(Put(chain, cmd.lsn, Loglet(cmd.seg + 1)), B, D)
  <1> DEFINE T == TailIndex(Last)
             J == End(Last)
             new == Put(chain, cmd.lsn, Loglet(cmd.seg + 1))
  <1>1. T \in Nat /\ J \in Nat
    BY LastFacts DEF OneTimeline
  <1>2. /\ End(chain) \in Nat /\ Fits(chain, D, End(chain)) /\ Rising(D, End(chain))
        /\ T <= TailIndex(chain) /\ J <= End(chain)
        /\ \E b \in DOMAIN chain, t \in trims \cup {0} : b <= t + 1
    BY DEF Reached
  <1>3. End(chain) = TailIndex(chain) + 1 /\ TailBase(chain) = D[End(chain)]
    BY <1>2, FitsTail
  <1>4. cmd.seg \in 0 .. T
    BY DEF CommandFits
  <1>5. cmd.seg = T /\ End(chain) = T + 1
    BY <1>1, <1>2, <1>3, <1>4
  <1> HIDE DEF T, J
  <1>6. Fits(new, D, T + 1) /\ Rising(D, T + 1)
    BY <1>1, <1>2, <1>3, <1>5, ReplaceFits
  <1>7. End(new) = T + 1 /\ TailIndex(new) = new[cmd.lsn].index
    BY <1>1, <1>3, <1>5, <1>6, FitsTail
  <1>8. new[cmd.lsn] = Loglet(cmd.seg + 1) /\ DOMAIN chain \subseteq DOMAIN new
    BY DEF Put
  <1>9. TailIndex(new) = T + 1
    BY <1>5, <1>7, <1>8 DEF Loglet
  <1> HIDE DEF new
  <1>10. \E b \in DOMAIN new, t \in trims \cup {0} : b <= t + 1
    BY <1>2, <1>8
  <1>11. /\ End(new) \in Nat /\ J <= End(new) /\ End(new) <= T + 1
         /\ T <= TailIndex(new) /\ TailIndex(new) <= T + 1 /\ End(new) = End(chain)
    BY <1>1, <1>2, <1>5, <1>7, <1>9
  <1>12. Reached(new, B, D)
    BY <1>6, <1>7, <1>10, <1>11 DEF Reached, T, J
  <1> QED
    BY <1>12 DEF new

LEMMA TrimReached ==
    ASSUME Shape, NEW B, OneTimeline(B), NEW chain, NEW D, Reached(chain, B, D),
           NEW cmd \in Command, cmd.op = "trim", CommandFits(cmd, B)
    PROVE  Reached(Trimmed(chain, cmd.lsn), B, D)
  <1> DEFINE J == End(chain)
  <1>1. /\ J \in Nat /\ Fits(chain, D, J) /\ Rising(D, J)
        /\ \E b \in DOMAIN chain, t \in trims \cup {0} : b <= t + 1
    BY DEF Reached
  <1>2. PICK lsn \in Nat : lsn = cmd.lsn
    BY Numbers DEF Command
  <1> HIDE DEF J
  <1> DEFINE new == Trimmed(chain, lsn)
  <1>3. /\ Fits(new, D, J) /\ new[D[J]] = chain[D[J]] /\ DOMAIN new \subseteq DOMAIN chain
        /\ \A b \in DOMAIN chain : \E c \in DOMAIN new : c <= b \/ c <= lsn + 1
    <2>1. J \in Nat /\ Fits(chain, D, J) /\ Rising(D, J)
      BY <1>1
    <2> HIDE DEF new
    <2>2. Fits(new, D, J)
      BY <2>1, TrimFits DEF new
    <2>3. DOMAIN new \subseteq DOMAIN chain
      BY <2>1, TrimFits DEF new
    <2>4. new[D[J]] = chain[D[J]]
      BY <2>1, TrimFits DEF new
    <2>5. \A b \in DOMAIN chain : \E c \in DOMAIN new : c <= b \/ c <= lsn + 1
      BY <2>1, TrimFits DEF new
    <2> QED
      BY <2>2, <2>3, <2>4, <2>5
  <1>4. End(new) = J /\ TailIndex(new) = new[D[J]].index
    BY <1>1, <1>3, FitsTail
  <1>5. TailIndex(chain) = chain[D[J]].index
    BY <1>1, FitsTail
  <1>6. TailIndex(new) = TailIndex(chain)
    BY <1>3, <1>4, <1>5
  <1>7. \E b \in DOMAIN new, t \in trims \cup {0} : b <= t + 1
    <2>1. PICK b \in DOMAIN chain, t \in trims \cup {0} : b <= t + 1
      BY <1>1
    <2>2. PICK c \in DOMAIN new : c <= b \/ c <= lsn + 1
      BY <1>3
    <2>3. PICK u \in trims : lsn <= u
      BY <1>2 DEF CommandFits
    <2>4. trims \subseteq Nat /\ 0 \in Nat
      BY DEF Shape
    <2>5. DOMAIN chain \subseteq Nat
      <3>1. chain \in ChainSet
        BY <1>1 DEF Fits
      <3> QED
        BY <3>1, ChainFields
    <2>6. b \in Nat /\ c \in Nat /\ t \in Nat /\ u \in Nat
      BY <1>3, <2>4, <2>5
    <2>7. c <= t + 1 \/ c <= u + 1
      BY <1>2, <2>1, <2>2, <2>3, <2>6
    <2> QED
      BY <2>7
  <1> HIDE DEF new
  <1>8. Reached(new, B, D)
    BY <1>1, <1>3, <1>4, <1>6, <1>7 DEF Reached, J
  <1> QED
    BY <1>2, <1>8 DEF new

LEMMA ApplyReached ==
    ASSUME Shape, NEW B, OneTimeline(B), NEW chain, NEW D, Reached(chain, B, D),
           NEW cmd \in Command, CommandFits(cmd, B)
    PROVE  \E E \in [0 .. MaxVersion -> Lsn] : Reached(Apply(chain, cmd), B, E)
  <1>1. cmd.seg \in Nat \cup {-1} /\ cmd.op \in {"extend", "seal", "trim"}
    BY Numbers DEF Command
  <1>2. D \in [0 .. MaxVersion -> Lsn]
    BY DEF Reached
  <1>3. CASE cmd.op = "extend" /\ MayExtend(chain, cmd)
    <2>1. Apply(chain, cmd) = Put(chain, cmd.lsn, Loglet(cmd.seg + 1))
      BY <1>3 DEF Apply
    <2>2. /\ TailIndex(chain) = cmd.seg /\ cmd.lsn >= TailBase(chain)
          /\ IsSealed(chain) => cmd.lsn = TailBase(chain)
      BY <1>3 DEF MayExtend
    <2>3. CASE IsSealed(chain)
      BY <1>2, <1>3, <2>1, <2>2, <2>3, ReplaceReached
    <2>4. CASE ~IsSealed(chain)
      <3>1. cmd.seg \in Nat
        BY <1>3 DEF CommandFits
      <3>2. PICK segment \in Segments : segment = Loglet(cmd.seg + 1)
        <4>1. cmd.seg + 1 \in Nat
          BY <3>1
        <4> QED
          BY <4>1 DEF Segments, Loglet
      <3>3. Pos(segment) = cmd.seg + 1 /\ segment.index \in {cmd.seg, cmd.seg + 1}
        BY <3>2 DEF Pos, Loglet
      <3> QED
        BY <1>3, <2>1, <2>2, <2>4, <3>2, <3>3, PutReached
    <2> QED
      BY <2>3, <2>4
  <1>4. CASE cmd.op = "seal" /\ MaySeal(chain, cmd)
    <2>1. Apply(chain, cmd) = Put(chain, cmd.lsn, Marker(cmd.seg))
      BY <1>4 DEF Apply
    <2>2. TailIndex(chain) = cmd.seg /\ ~IsSealed(chain) /\ cmd.lsn >= TailBase(chain)
      BY <1>4 DEF MaySeal
    <2>3. cmd.seg \in Nat
      BY <1>4 DEF CommandFits
    <2>4. PICK segment \in Segments : segment = Marker(cmd.seg)
      BY <2>3 DEF Segments, Marker
    <2>5. Pos(segment) = cmd.seg + 1 /\ segment.index \in {cmd.seg, cmd.seg + 1}
      BY <2>4 DEF Pos, Marker
    <2> QED
      BY <1>4, <2>1, <2>2, <2>4, <2>5, PutReached
  <1>5. CASE cmd.op = "trim"
    <2>1. Apply(chain, cmd) = Trimmed(chain, cmd.lsn)
      BY <1>5 DEF Apply
    <2> QED
      BY <1>2, <1>5, <2>1, TrimReached
  <1>6. CASE /\ ~(cmd.op = "extend" /\ MayExtend(chain, cmd))
             /\ ~(cmd.op = "seal" /\ MaySeal(chain, cmd)) /\ cmd.op # "trim"
    <2>1. Apply(chain, cmd) = chain
      BY <1>6 DEF Apply
    <2> QED
      BY <1>2, <2>1
  <1> QED
    BY <1>3, <1>4, <1>5, <1>6

\* ... and so for a whole batch
LEMMA BatchReached ==
    ASSUME Shape, NEW B, OneTimeline(B), NEW p \in Process, NEW k \in 1 .. Len(queue[p])
    PROVE  \E D \in [0 .. MaxVersion -> Lsn] :
               Reached(ApplyBatch(Last, SubSeq(queue[p], 1, k)), B, D)
  <1> DEFINE Good == {C \in ChainSet : \E D \in [0 .. MaxVersion -> Lsn] : Reached(C, B, D)}
             cmds == SubSeq(queue[p], 1, k)
  <1>1. queue[p] \in Seq(Command)
    BY DEF Shape
  <1>2. /\ cmds \in Seq(Command)
        /\ \A n \in 1 .. Len(cmds) : n \in 1 .. Len(queue[p]) /\ cmds[n] = queue[p][n]
    BY <1>1
  <1> HIDE DEF cmds
  <1>3. \A n \in 1 .. Len(cmds) : cmds[n] \in Command /\ CommandFits(cmds[n], B)
    <2>1. \A n \in 1 .. Len(queue[p]) : queue[p][n] \in Command /\ CommandFits(queue[p][n], B)
      BY <1>1 DEF OneTimeline, CommandsFit
    <2> QED
      BY <1>2, <2>1
  <1>4. Last \in Good
    <2>1. B \in [0 .. MaxVersion -> Lsn] /\ \E b \in DOMAIN Last, t \in trims \cup {0} : b <= t + 1
      BY DEF OneTimeline, VersionsFit, TrimsFit
    <2>2. /\ Last \in ChainSet /\ End(Last) \in Nat /\ TailIndex(Last) \in Nat
          /\ Fits(Last, B, End(Last)) /\ Rising(B, End(Last))
          /\ End(Last) \in {TailIndex(Last), TailIndex(Last) + 1}
      BY LastFacts DEF OneTimeline
    <2>3. Reached(Last, B, B)
      BY <2>1, <2>2 DEF Reached
    <2> QED
      BY <2>1, <2>2, <2>3
  <1>5. ASSUME NEW C \in Good, NEW n \in 1 .. Len(cmds) PROVE Apply(C, cmds[n]) \in Good
    <2>1. PICK D \in [0 .. MaxVersion -> Lsn] : Reached(C, B, D)
      OBVIOUS
    <2>2. cmds[n] \in Command /\ CommandFits(cmds[n], B)
      BY <1>3
    <2>3. PICK E \in [0 .. MaxVersion -> Lsn] : Reached(Apply(C, cmds[n]), B, E)
      BY <2>1, <2>2, ApplyReached
    <2>4. Apply(C, cmds[n]) \in ChainSet
      BY <2>3 DEF Reached, Fits
    <2> QED
      BY <2>3, <2>4
  <1> HIDE DEF Good
  <1>6. ApplyBatch(Last, cmds) \in Good
    BY <1>2, <1>4, <1>5, BatchKeeps
  <1> QED
    BY <1>6 DEF Good, cmds
\* the tail of the new version
LEMMA NewTail ==
    ASSUME Shape, NEW B, OneTimeline(B), NEW N, NEW D, Reached(N, B, D)
    PROVE  LET T == TailIndex(Last)  J == End(Last) IN
           /\ T \in Nat /\ TailIndex(N) \in Nat /\ T <= TailIndex(N) /\ TailIndex(N) <= T + 1
           /\ J \in Nat /\ End(N) \in Nat /\ J <= End(N) /\ T <= J /\ End(N) <= T + 1
           /\ Latest \in Nat /\ TailIndex(N) < Latest + 1
  <1>1. /\ Latest \in Nat /\ TailIndex(Last) \in Nat /\ End(Last) \in Nat
        /\ End(Last) \in {TailIndex(Last), TailIndex(Last) + 1} /\ TailIndex(Last) < Latest
    BY LastFacts DEF OneTimeline
  <1>2. /\ End(Last) <= End(N) /\ End(N) <= TailIndex(Last) + 1
        /\ TailIndex(Last) <= TailIndex(N) /\ TailIndex(N) <= TailIndex(Last) + 1
    BY DEF Reached
  <1>3. TailIndex(N) \in Nat /\ End(N) \in Nat
    <2>1. End(N) \in Nat /\ Fits(N, D, End(N)) /\ Rising(D, End(N))
      BY DEF Reached
    <2> QED
      BY <2>1, FitsTail
  <1> QED
    BY <1>1, <1>2, <1>3

LEMMA NewVersion ==
    ASSUME Shape, NEW B, NEW N, NEW D, Reached(N, B, D), Latest < MaxVersion,
           versions' = Append(versions, N)
    PROVE  /\ Latest' = Latest + 1 /\ Last' = N /\ Latest' \in 1 .. MaxVersion
           /\ versions' \in Seq(ChainSet)
           /\ \A v \in 1 .. Latest : versions'[v] = versions[v]
           /\ versions'[Latest + 1] = N
  <1>1. N \in ChainSet /\ versions \in Seq(ChainSet)
    BY DEF Reached, Fits, Shape
  <1>2. /\ versions' \in Seq(ChainSet) /\ Len(versions') = Len(versions) + 1
        /\ versions'[Len(versions) + 1] = N
        /\ \A v \in 1 .. Len(versions) : versions'[v] = versions[v]
    BY <1>1
  <1>3. Latest' = Latest + 1 /\ Last' = N
    BY <1>2 DEF Last, Latest
  <1>4. Latest' \in 1 .. MaxVersion
    <2>1. Latest \in Nat
      BY <1>1 DEF Latest
    <2> QED
      BY <1>3, <2>1, ChainAssumption
  <1> QED
    BY <1>2, <1>3, <1>4 DEF Latest

\* what refers to the timeline of the old versions is right on that of the new one
LEMMA NewVersionFits ==
    ASSUME Shape, NEW B, OneTimeline(B), NEW N, NEW D, Reached(N, B, D), Latest < MaxVersion,
           versions' = Append(versions, N)
    PROVE  VersionsFit(D)'
  <1>1. /\ Latest' = Latest + 1 /\ Last' = N
        /\ \A v \in 1 .. Latest : versions'[v] = versions[v]
        /\ versions'[Latest + 1] = N
    BY NewVersion
  <1>2. /\ Fits(N, D, End(N)) /\ Rising(D, End(N))
        /\ D \in [0 .. MaxVersion -> Lsn] /\ \A k \in 0 .. End(Last) : D[k] = B[k]
    BY DEF Reached
  <1>3. /\ TailIndex(Last) \in Nat /\ TailIndex(N) \in Nat /\ TailIndex(Last) <= TailIndex(N)
        /\ End(Last) \in Nat /\ End(N) \in Nat /\ End(Last) <= End(N)
        /\ Latest \in Nat /\ TailIndex(N) < Latest + 1
    BY NewTail
  <1>4. ASSUME NEW v \in 1 .. Latest
        PROVE  /\ End(versions[v]) \in Nat /\ Fits(versions[v], D, End(versions[v]))
               /\ TailIndex(versions[v]) <= TailIndex(N) /\ End(versions[v]) <= End(N)
    <2>1. /\ Fits(versions[v], B, End(versions[v])) /\ End(versions[v]) \in Nat
          /\ TailIndex(versions[v]) \in Nat
          /\ TailIndex(versions[v]) <= TailIndex(Last) /\ End(versions[v]) <= End(Last)
      BY VersionFacts DEF OneTimeline
    <2>2. \A k \in 0 .. End(versions[v]) : D[k] = B[k]
      <3>1. PICK m \in Nat, n \in Nat : m = End(versions[v]) /\ n = End(Last) /\ m <= n
        BY <1>3, <2>1
      <3>2. \A k \in 0 .. m : k \in 0 .. n
        BY <3>1
      <3> QED
        BY <1>2, <3>1, <3>2
    <2>3. Fits(versions[v], D, End(versions[v]))
      BY <2>1, <2>2, FitsAgree
    <2>4. \A a, b, c \in Nat : a <= b /\ b <= c => a <= c
      OBVIOUS
    <2>5. TailIndex(versions[v]) <= TailIndex(N) /\ End(versions[v]) <= End(N)
      BY <1>3, <2>1, <2>4, Zenon
    <2> QED
      BY <2>1, <2>3, <2>5
  <1>5. ASSUME NEW v \in 1 .. Latest + 1
        PROVE  /\ End(versions'[v]) \in Nat /\ Fits(versions'[v], D, End(versions'[v]))
               /\ TailIndex(versions'[v]) <= TailIndex(N)
               /\ \A w \in v .. Latest + 1 : End(versions'[v]) <= End(versions'[w])
    <2>1. CASE v \in 1 .. Latest
      <3>1. ASSUME NEW w \in v .. Latest + 1 PROVE End(versions'[v]) <= End(versions'[w])
        <4>1. CASE w = Latest + 1
          BY <1>1, <1>4, <2>1, <4>1
        <4>2. CASE w # Latest + 1
          <5>1. w \in 1 .. Latest /\ w \in v .. Latest
            BY <1>3, <2>1, <4>2
          <5>2. End(versions[v]) <= End(versions[w])
            BY <2>1, <5>1 DEF OneTimeline, VersionsFit
          <5> QED
            BY <1>1, <2>1, <5>1, <5>2
        <4> QED
          BY <4>1, <4>2
      <3> QED
        BY <1>1, <1>4, <2>1, <3>1
    <2>2. CASE v = Latest + 1
      <3>1. \A w \in v .. Latest + 1 : w = v
        BY <1>3, <2>2
      <3>2. versions'[v] = N
        BY <1>1, <2>2
      <3>4. \A n \in Nat : n <= n
        OBVIOUS
      <3>3. \A w \in v .. Latest + 1 : End(versions'[v]) <= End(versions'[w])
        BY <1>3, <3>1, <3>2, <3>4, Zenon
      <3> QED
        BY <1>2, <1>3, <3>2, <3>3, <3>4
    <2>3. v \in 1 .. Latest \/ v = Latest + 1
      BY <1>3
    <2> QED
      BY <2>1, <2>2, <2>3
  <1> QED
    BY <1>1, <1>2, <1>5, <1>3 DEF VersionsFit

LEMMA NewLogletsFit ==
    ASSUME Shape, NEW B, OneTimeline(B), NEW N, NEW D, Reached(N, B, D), Latest < MaxVersion,
           versions' = Append(versions, N), UNCHANGED <<logletVars, history>>
    PROVE  EndsCover(D)' /\ LogletsFit(D)' /\ AckedFit(D)' /\ AnswersFit(D)' /\ TrimsFit(D)'
  <1> USE DEF logletVars, history
  <1> DEFINE T == TailIndex(Last)
             J == End(Last)
  <1>1. /\ T \in Nat /\ TailIndex(N) \in Nat /\ T <= TailIndex(N) /\ TailIndex(N) <= T + 1
        /\ J \in Nat /\ End(N) \in Nat /\ J <= End(N) /\ T <= J /\ End(N) <= T + 1
    BY NewTail
  <1>2. Last' = N
    BY NewVersion
  <1>3. D \in [0 .. MaxVersion -> Lsn] /\ \A k \in 0 .. J : D[k] = B[k]
    BY DEF Reached
  <1>4. \A k \in 0 .. T : D[k] = B[k]
    <2>1. \A k \in 0 .. T : k \in 0 .. J
      BY <1>1
    <2> QED
      BY <1>3, <2>1
  <1>5. T \in Index /\ 0 .. T \subseteq Index
    BY LastFacts DEF OneTimeline
  <1>6. /\ J < End(N) => OffsetBy(B[T], bound[T]) <= D[T + 1]
        /\ \E b \in DOMAIN N, t \in trims \cup {0} : b <= t + 1
    BY DEF Reached
  <1>7. \A i \in Index : i \in Nat /\ (i <= T => i \in 0 .. T)
    BY <1>1, Numbers
  <1> HIDE DEF T, J
  <1>8. EndsCover(D)'
    <2> SUFFICES ASSUME NEW i \in 0 .. End(N) - 1 PROVE OffsetBy(D[i], bound[i]) <= D[i + 1]
      BY <1>2 DEF EndsCover
    <2>1. CASE i < J
      <3>1. OffsetBy(B[i], bound[i]) <= B[i + 1]
        BY <1>1, <2>1 DEF OneTimeline, EndsCover, J
      <3>2. i \in 0 .. J /\ i + 1 \in 0 .. J
        BY <1>1, <2>1
      <3>3. D[i] = B[i] /\ D[i + 1] = B[i + 1]
        BY <1>3, <3>2
      <3> QED
        BY <3>1, <3>3
    <2>2. CASE ~(i < J)
      <3>1. i = T /\ J < End(N) /\ T \in 0 .. T
        BY <1>1, <2>2
      <3>2. D[T] = B[T]
        BY <1>4, <3>1
      <3> QED
        BY <1>6, <3>1, <3>2
    <2> QED
      BY <2>1, <2>2
  <1>9. \A i \in Index : i > T => tail[i] = OLDEST /\ trimPoint[i] = INVALID
    <2> SUFFICES ASSUME NEW i \in Index, i > T PROVE tail[i] = OLDEST /\ trimPoint[i] = INVALID
      OBVIOUS
    <2>1. ~(i <= T)
      BY <1>1, <1>7
    <2>2. trimPoint[i] < tail[i] /\ tail[i] = OLDEST
      BY <2>1 DEF OneTimeline, LogletsFit, T
    <2>3. trimPoint[i] \in Offset \cup {INVALID}
      BY DEF Shape
    <2> QED
      BY <2>2, <2>3, Numbers
  <1>10. LogletsFit(D)'
    <2> SUFFICES ASSUME NEW i \in Index
                 PROVE  /\ tail[i] <= bound[i] /\ trimPoint[i] < tail[i]
                        /\ IF i <= TailIndex(N) THEN OffsetBy(D[i], tail[i]) <= MaxLsn
                           ELSE tail[i] = OLDEST
      BY <1>2 DEF LogletsFit
    <2>1. tail[i] <= bound[i] /\ trimPoint[i] < tail[i]
      BY DEF OneTimeline, LogletsFit
    <2>2. CASE i <= T
      <3>1. OffsetBy(B[i], tail[i]) <= MaxLsn
        BY <2>2 DEF OneTimeline, LogletsFit, T
      <3>2. i <= TailIndex(N) /\ D[i] = B[i]
        BY <1>1, <1>4, <1>7, <2>2
      <3> QED
        BY <2>1, <3>1, <3>2
    <2>3. CASE ~(i <= T)
      <3>1. tail[i] = OLDEST
        BY <1>1, <1>7, <1>9, <2>3
      <3>2. D[i] \in Lsn
        BY <1>3, Numbers
      <3>3. OffsetBy(D[i], OLDEST) <= MaxLsn
        BY <3>2, Numbers DEF OffsetBy
      <3> QED
        BY <2>1, <3>1, <3>3
    <2> QED
      BY <2>2, <2>3
  <1>11. AckedFit(D)'
    <2> SUFFICES ASSUME NEW r \in acked
                 PROVE  /\ r.index <= TailIndex(N)
                        /\ D[r.index] <= r.lsn /\ r.lsn < OffsetBy(D[r.index], tail[r.index])
      BY <1>2 DEF AckedFit
    <2>1. /\ r.index <= T
          /\ B[r.index] <= r.lsn /\ r.lsn < OffsetBy(B[r.index], tail[r.index])
      BY DEF OneTimeline, AckedFit, T
    <2>2. r.index \in Index
      BY DEF Shape
    <2>3. D[r.index] = B[r.index] /\ r.index <= TailIndex(N)
      BY <1>1, <1>4, <1>7, <2>1, <2>2
    <2> QED
      BY <2>1, <2>3
  <1>12. AnswersFit(D)'
    <2> SUFFICES ASSUME NEW a \in answers PROVE a.index < End(N) /\ a.lsn = D[a.index + 1]
      BY <1>2 DEF AnswersFit
    <2>1. a.index < J /\ a.lsn = B[a.index + 1]
      BY DEF OneTimeline, AnswersFit, J
    <2>2. a.index \in Nat
      BY Numbers DEF Shape
    <2>3. a.index + 1 \in 0 .. J
      <3>1. a.index < J /\ J \in Nat
        BY <1>1, <2>1
      <3> HIDE <2>1
      <3> QED
        BY <2>2, <3>1
    <2>4. a.index < End(N)
      BY <1>1, <2>1, <2>2
    <2> QED
      BY <1>3, <2>1, <2>3, <2>4
  <1>13. TrimsFit(D)'
    <2>1. ASSUME NEW i \in 0 .. TailIndex(N), trimPoint[i] # INVALID
          PROVE  \E t \in trims : OffsetBy(D[i], trimPoint[i]) <= t
      <3>1. i \in 0 .. T
        <4>1. TailIndex(N) < Latest + 1 /\ Latest \in Nat
          BY NewTail
        <4>2. i \in Index
          BY <1>1, <4>1, ChainAssumption DEF Index
        <4> QED
          BY <1>1, <1>9, <2>1, <4>2
      <3>2. D[i] = B[i]
        BY <1>4, <3>1
      <3>3. \E t \in trims : OffsetBy(B[i], trimPoint[i]) <= t
        BY <2>1, <3>1 DEF OneTimeline, TrimsFit, T
      <3> QED
        BY <3>2, <3>3
    <2> QED
      BY <1>6, <1>2, <2>1 DEF TrimsFit
  <1> QED
    BY <1>8, <1>10, <1>11, <1>12, <1>13

LEMMA NewClientsFit ==
    ASSUME Shape, NEW B, OneTimeline(B), NEW N, NEW D, Reached(N, B, D), Latest < MaxVersion,
           versions' = Append(versions, N), bound' = bound, trims' = trims
    PROVE  /\ \A l \in Wrapper : OnTimeline(l, B) => OnTimeline(l, D)'
           /\ \A x \in TaskState : TaskFits(x, B) => TaskFits(x, D)'
           /\ \A c \in Command : CommandFits(c, B) => CommandFits(c, D)'
  <1> DEFINE T == TailIndex(Last)
             J == End(Last)
  <1>1. /\ T \in Nat /\ TailIndex(N) \in Nat /\ T <= TailIndex(N)
        /\ J \in Nat /\ End(N) \in Nat /\ J <= End(N) /\ T <= J /\ Latest \in Nat
    BY NewTail
  <1>2. Last' = N /\ Latest' = Latest + 1
    BY NewVersion
  <1>3. \A k \in 0 .. J : D[k] = B[k]
    BY DEF Reached
  <1> HIDE DEF T, J
  <1>4. ASSUME NEW l \in Wrapper, OnTimeline(l, B) PROVE OnTimeline(l, D)'
    <2>1. l.index \in 0 .. T /\ Pos(l) <= J /\ l.base = B[Pos(l)]
      BY <1>4 DEF OnTimeline, T, J
    <2>2. Pos(l) \in 0 .. J
      <3>1. l.index \in Nat
        BY <1>1, <2>1
      <3>2. Pos(l) \in Nat
        BY <3>1 DEF Pos
      <3> QED
        BY <1>1, <2>1, <3>2
    <2>3. l.base = D[Pos(l)] /\ Pos(l) <= End(N) /\ l.index \in 0 .. TailIndex(N)
      BY <1>1, <1>3, <2>1, <2>2
    <2> QED
      BY <1>2, <2>3 DEF OnTimeline
  <1>5. ASSUME NEW x \in TaskState, TaskFits(x, B) PROVE TaskFits(x, D)'
    <2>1. x.ver \in Nat /\ x.ver <= Latest' /\ x.loglet \in Wrapper
      BY <1>1, <1>5, <1>2 DEF TaskFits, TaskState
    <2>2. x.step \in {"find", "ask"} => OnTimeline(x.loglet, D)'
      <3>1. PICK l \in Wrapper : l = x.loglet
        BY <2>1
      <3>2. x.step \in {"find", "ask"} => OnTimeline(l, B)
        BY <1>5, <3>1 DEF TaskFits
      <3>3. x.step \in {"find", "ask"} => OnTimeline(l, D)'
        BY <1>4, <3>2
      <3> QED
        BY <3>1, <3>3
    <2>3. x.step \in {"seal", "find"} =>
            x.op \in {"extend", "seal"} /\ x.seg \in 0 .. TailIndex(N)
      BY <1>1, <1>5 DEF TaskFits, T
    <2>4. /\ x.step = "find" => x.seg = x.loglet.index
          /\ x.step = "trim" => x.lsn \in trims /\ x.ver > 0
      BY <1>5 DEF TaskFits
    <2> QED
      BY <1>2, <2>1, <2>2, <2>3, <2>4 DEF TaskFits
  <1>6. ASSUME NEW c \in Command, CommandFits(c, B) PROVE CommandFits(c, D)'
    <2>1. CASE c.op = "trim"
      BY <1>6, <2>1 DEF CommandFits
    <2>2. CASE c.op # "trim"
      <3>1. /\ c.seg \in 0 .. T
            /\ c.seg = J => OffsetBy(B[c.seg], bound[c.seg]) <= c.lsn
        BY <1>6, <2>2 DEF CommandFits, T, J
      <3>2. c.seg \in 0 .. TailIndex(N) /\ c.seg \in 0 .. J
        BY <1>1, <3>1
      <3>3. c.seg = End(N) => c.seg = J
        BY <1>1, <3>2
      <3>4. D[c.seg] = B[c.seg]
        BY <1>3, <3>2
      <3> QED
        BY <1>2, <2>2, <3>1, <3>2, <3>3, <3>4 DEF CommandFits
    <2> QED
      BY <2>1, <2>2
  <1> QED
    BY <1>4, <1>5, <1>6
LEMMA SwapReached ==
    ASSUME Shape, NEW B, OneTimeline(B), NEW p \in Process, NEW k \in 1 .. Len(queue[p]),
           CompareAndSwap(p, k)
    PROVE  \E N \in ChainSet : \E D \in [0 .. MaxVersion -> Lsn] :
              Latest < MaxVersion /\ versions' = Append(versions, N) /\ Reached(N, B, D)
  <1>1. /\ Latest < MaxVersion
        /\ versions' = Append(versions, ApplyBatch(Last, SubSeq(queue[p], 1, k)))
    BY DEF CompareAndSwap, View, Last
  <1>2. PICK D \in [0 .. MaxVersion -> Lsn] : Reached(ApplyBatch(Last, SubSeq(queue[p], 1, k)), B, D)
    BY BatchReached
  <1>3. ApplyBatch(Last, SubSeq(queue[p], 1, k)) \in ChainSet
    BY <1>2 DEF Reached, Fits
  <1> QED
    BY <1>1, <1>2, <1>3

\* tasks and commands that were there before, or a task that is at rest now
LEMMA WrittenFits ==
    ASSUME Shape, NEW B, OneTimeline(B), NEW N, NEW D, Reached(N, B, D), Latest < MaxVersion,
           versions' = Append(versions, N), UNCHANGED <<cache, logletVars, history>>,
           queue' \in [Process -> Seq(Command)], task' \in [Task -> TaskState],
           \A q \in Process : \A n \in 1 .. Len(queue'[q]) :
                 \E m \in 1 .. Len(queue[q]) : queue'[q][n] = queue[q][m],
           \A t \in Task : task'[t] = Idle \/ task'[t] = task[t],
           view' \in [Process -> 1 .. Latest + 1]
    PROVE  Shape' /\ OneTimeline(D)'
  <1> USE DEF logletVars, history
  <1>1. Latest' = Latest + 1 /\ Latest' \in 1 .. MaxVersion /\ versions' \in Seq(ChainSet)
    BY NewVersion
  <1>2. Shape'
    BY <1>1 DEF Shape
  <1>3. VersionsFit(D)'
    BY NewVersionFits
  <1>4. EndsCover(D)' /\ LogletsFit(D)' /\ AckedFit(D)' /\ AnswersFit(D)' /\ TrimsFit(D)'
    BY NewLogletsFit
  <1>5. /\ \A l \in Wrapper : OnTimeline(l, B) => OnTimeline(l, D)'
        /\ \A x \in TaskState : TaskFits(x, B) => TaskFits(x, D)'
        /\ \A c \in Command : CommandFits(c, B) => CommandFits(c, D)'
    BY NewClientsFit
  <1>6. CachesFit(D)'
    <2> SUFFICES ASSUME NEW q \in Process PROVE OnTimeline(cache[q], D)'
      BY DEF CachesFit
    <2>1. cache[q] \in Wrapper
      <3>1. cache[q] \in [base : Lsn, index : Index, marker : BOOLEAN]
        BY DEF Shape
      <3> QED
        BY <3>1, Numbers DEF Wrapper
    <2>2. PICK l \in Wrapper : l = cache[q]
      BY <2>1
    <2>3. OnTimeline(l, B)
      BY <2>2 DEF OneTimeline, CachesFit
    <2>4. OnTimeline(l, D)'
      BY <1>5, <2>3
    <2>5. cache'[q] = l
      BY <2>2
    <2> QED
      BY <2>4, <2>5 DEF OnTimeline
  <1>7. TasksFit(D)'
    <2> SUFFICES ASSUME NEW t \in Task PROVE TaskFits(task[t], D)'
      BY DEF TasksFit
    <2>1. CASE task'[t] = Idle
      <3>1. Latest' \in Nat
        BY <1>1
      <3> QED
        BY <2>1, <3>1 DEF TaskFits, Idle
    <2>2. CASE task'[t] = task[t]
      <3>1. PICK x \in TaskState : x = task[t]
        BY DEF Shape
      <3>2. TaskFits(x, B)
        BY <3>1 DEF OneTimeline, TasksFit
      <3>3. TaskFits(x, D)'
        BY <1>5, <3>2
      <3>4. task'[t] = x
        BY <2>2, <3>1
      <3> QED
        BY <3>3, <3>4 DEF TaskFits, OnTimeline
    <2> QED
      BY <2>1, <2>2
  <1>8. CommandsFit(D)'
    <2> SUFFICES ASSUME NEW q \in Process, NEW n \in 1 .. Len(queue'[q])
                 PROVE  CommandFits(queue[q][n], D)'
      BY DEF CommandsFit
    <2>1. PICK m \in 1 .. Len(queue[q]) : queue'[q][n] = queue[q][m]
      OBVIOUS
    <2>2. queue[q] \in Seq(Command)
      BY DEF Shape
    <2>3. PICK c \in Command : c = queue[q][m]
      BY <2>2
    <2>4. CommandFits(c, B)
      BY <2>3 DEF OneTimeline, CommandsFit
    <2>5. CommandFits(c, D)'
      BY <1>5, <2>4
    <2>6. queue'[q][n] = c
      BY <2>1, <2>3
    <2> QED
      BY <2>5, <2>6 DEF CommandFits
  <1> QED
    BY <1>2, <1>3, <1>4, <1>6, <1>7, <1>8 DEF OneTimeline

LEMMA WriteBatchKeeps ==
    ASSUME Shape, NEW B, OneTimeline(B), NEW p \in Process, WriteBatch(p)
    PROVE  ChainInv'
  <1>1. PICK k \in 1 .. Len(queue[p]) :
          /\ CompareAndSwap(p, k)
          /\ view' = [view EXCEPT ![p] = Latest + 1]
          /\ CompleteBatch(p, k)
          /\ UNCHANGED <<cache, logletVars, history>>
    BY DEF WriteBatch
  <1>2. PICK N \in ChainSet, D \in [0 .. MaxVersion -> Lsn] :
          Latest < MaxVersion /\ versions' = Append(versions, N) /\ Reached(N, B, D)
    BY <1>1, SwapReached
  <1>3. /\ queue' \in [Process -> Seq(Command)] /\ task' \in [Task -> TaskState]
        /\ \A q \in Process : \A n \in 1 .. Len(queue'[q]) :
              \E m \in 1 .. Len(queue[q]) : queue'[q][n] = queue[q][m]
        /\ \A t \in Task : task'[t] = Idle \/ task'[t] = task[t]
    BY <1>1, CompleteBatchFacts
  <1>4. view' \in [Process -> 1 .. Latest + 1]
    <2>1. view \in [Process -> 1 .. Latest] /\ Latest \in Nat
      BY LastFacts DEF Shape, OneTimeline
    <2>2. 1 .. Latest \subseteq 1 .. Latest + 1 /\ Latest + 1 \in 1 .. Latest + 1
      BY <2>1
    <2> QED
      BY <1>1, <2>1, <2>2
  <1>5. Shape' /\ OneTimeline(D)'
    BY <1>1, <1>2, <1>3, <1>4, WrittenFits
  <1> QED
    BY <1>5 DEF ChainInv

LEMMA WriteUnacknowledgedKeeps ==
    ASSUME Shape, NEW B, OneTimeline(B), NEW p \in Process, WriteUnacknowledged(p)
    PROVE  ChainInv'
  <1>1. PICK k \in 1 .. Len(queue[p]) :
          CompareAndSwap(p, k) /\ UNCHANGED <<view, queue, task, cache, logletVars, history>>
    BY DEF WriteUnacknowledged
  <1>2. PICK N \in ChainSet, D \in [0 .. MaxVersion -> Lsn] :
          Latest < MaxVersion /\ versions' = Append(versions, N) /\ Reached(N, B, D)
    BY <1>1, SwapReached
  <1>3. /\ queue' \in [Process -> Seq(Command)] /\ task' \in [Task -> TaskState]
        /\ \A q \in Process : \A n \in 1 .. Len(queue'[q]) :
              \E m \in 1 .. Len(queue[q]) : queue'[q][n] = queue[q][m]
        /\ \A t \in Task : task'[t] = Idle \/ task'[t] = task[t]
    BY <1>1 DEF Shape
  <1>4. view' \in [Process -> 1 .. Latest + 1]
    <2>1. view \in [Process -> 1 .. Latest] /\ Latest \in Nat
      BY LastFacts DEF Shape, OneTimeline
    <2>2. 1 .. Latest \subseteq 1 .. Latest + 1
      BY <2>1
    <2> QED
      BY <1>1, <2>1, <2>2
  <1>5. Shape' /\ OneTimeline(D)'
    BY <1>1, <1>2, <1>3, <1>4, WrittenFits
  <1> QED
    BY <1>5 DEF ChainInv

-----------------------------------------------------------------------------
(* The invariant *)

LEMMA InitInv == Init => ChainInv
  <1> SUFFICES ASSUME Init PROVE ChainInv
    OBVIOUS
  <1> USE Numbers
  <1> DEFINE first == [b \in {OLDEST} |-> Loglet(0)]
             B == [i \in 0 .. MaxVersion |-> OLDEST]
  <1>1. versions = <<first>> /\ Latest = 1 /\ Last = first
    BY DEF Init, Latest, Last
  <1>2. /\ first \in [{1} -> Segments] /\ DOMAIN first = {1} /\ first[1] = Loglet(0)
    BY DEF Loglet, Segments
  <1>3. first \in ChainSet
    <2>1. {1} \in SUBSET (Nat \ {0})
      OBVIOUS
    <2> HIDE DEF first
    <2> QED
      BY <1>2, <2>1 DEF ChainSet
  <1>4. B \in [0 .. MaxVersion -> Lsn] /\ \A i \in 0 .. MaxVersion : B[i] = 1
    OBVIOUS
  <1> HIDE DEF first, B
  <1>5. Pos(first[1]) = 0 /\ ~first[1].marker
    BY <1>2 DEF Pos, Loglet
  <1>6. B[0] = 1
    BY <1>4
  <1>7. Fits(first, B, 0) /\ Rising(B, 0)
    <2>1. \A k \in 0 .. 0 : k = 0
      OBVIOUS
    <2>2. \A k \in 0 + 1 .. 0 : FALSE
      OBVIOUS
    <2> QED
      BY <1>2, <1>3, <1>5, <1>6, <2>1, <2>2 DEF Fits, Rising
  <1>8. End(first) = 0 /\ TailIndex(first) = 0 /\ TailBase(first) = 1
    <2>1. ~IsSealed(first) /\ End(first) = 0 /\ TailIndex(first) = first[1].index /\ TailBase(first) = 1
      BY <1>5, <1>6, <1>7, FitsTail
    <2> QED
      BY <1>2, <2>1 DEF Loglet
  <1>9. Shape
    <2>1. versions \in Seq(ChainSet) /\ Latest \in 1 .. MaxVersion
      BY <1>1, <1>3
    <2>2. Idle \in TaskState
      <3>1. NoLoglet \in Wrapper
        BY DEF NoLoglet, Wrapper
      <3> QED
        BY <3>1 DEF Idle, TaskState
    <2>3. view \in [Process -> 1 .. Latest]
      BY <1>1 DEF Init
    <2>4. queue \in [Process -> Seq(Command)]
      BY DEF Init
    <2>5. task \in [Task -> TaskState]
      BY <2>2 DEF Init
    <2>6. cache \in [Process -> [base : Lsn, index : Index, marker : BOOLEAN]]
      BY DEF Init
    <2>7. /\ tail \in [Index -> Offset] /\ sealed \in [Index -> BOOLEAN]
          /\ bound \in [Index -> Offset] /\ trimPoint \in [Index -> Offset \cup {INVALID}]
      BY DEF Init, Unbounded
    <2>8. /\ acked \subseteq [lsn : Lsn, index : Index] /\ answers \subseteq [lsn : Lsn, index : Index]
          /\ trims \subseteq Nat
      BY DEF Init
    <2> QED
      BY <2>1, <2>3, <2>4, <2>5, <2>6, <2>7, <2>8 DEF Shape
  <1>10. VersionsFit(B)
    <2>1. \A v \in 1 .. Latest : v = 1 /\ versions[v] = first
      BY <1>1
    <2>2. \A v \in 1 .. Latest : \A w \in v .. Latest : w \in 1 .. Latest
      BY <1>1
    <2> QED
      BY <1>1, <1>4, <1>7, <1>8, <2>1, <2>2 DEF VersionsFit
  <1>11. EndsCover(B)
    BY <1>1, <1>8 DEF EndsCover
  <1>12. LogletsFit(B)
    <2> SUFFICES ASSUME NEW i \in Index
                 PROVE  /\ tail[i] <= bound[i] /\ trimPoint[i] < tail[i]
                        /\ IF i <= TailIndex(Last) THEN OffsetBy(B[i], tail[i]) <= MaxLsn
                           ELSE tail[i] = OLDEST
      BY DEF LogletsFit
    <2>1. tail[i] = 1 /\ bound[i] = MaxLsn /\ trimPoint[i] = 0
      BY DEF Init, Unbounded
    <2>2. i \in 0 .. MaxVersion
      OBVIOUS
    <2>3. OffsetBy(B[i], 1) = 1
      BY <1>4, <2>2 DEF OffsetBy
    <2> QED
      BY <2>1, <2>3
  <1>13. CachesFit(B)
    <2> SUFFICES ASSUME NEW p \in Process PROVE OnTimeline(cache[p], B)
      BY DEF CachesFit
    <2>1. cache[p] = [base |-> 1, index |-> 0, marker |-> FALSE]
      BY DEF Init
    <2>2. Pos(cache[p]) = 0 /\ cache[p].index = 0 /\ cache[p].base = 1
      BY <2>1 DEF Pos
    <2> QED
      BY <1>1, <1>6, <1>8, <2>2 DEF OnTimeline
  <1>14. TasksFit(B)
    BY <1>1 DEF Init, TasksFit, TaskFits, Idle
  <1>15. CommandsFit(B)
    <2>1. \A p \in Process : queue[p] = <<>>
      BY DEF Init
    <2>2. \A p \in Process : 1 .. Len(queue[p]) = {}
      BY <2>1
    <2> QED
      BY <2>2 DEF CommandsFit
  <1>16. AckedFit(B) /\ AnswersFit(B)
    BY DEF Init, AckedFit, AnswersFit
  <1>17. TrimsFit(B)
    <2>1. \A i \in Index : trimPoint[i] = INVALID
      BY DEF Init
    <2>2. \A i \in 0 .. TailIndex(Last) : i \in Index
      BY <1>1, <1>8
    <2>3. 1 \in DOMAIN Last /\ 0 \in trims \cup {0} /\ 1 <= 0 + 1
      BY <1>1, <1>2
    <2> QED
      BY <2>1, <2>2, <2>3 DEF TrimsFit
  <1>18. OneTimeline(B)
    BY <1>10, <1>11, <1>12, <1>13, <1>14, <1>15, <1>16, <1>17 DEF OneTimeline
  <1> QED
    BY <1>4, <1>9, <1>18 DEF ChainInv

LEMMA NextInv == ChainInv /\ [Next]_vars => ChainInv'
  <1> SUFFICES ASSUME ChainInv, [Next]_vars PROVE ChainInv'
    OBVIOUS
  <1>1. PICK B \in [0 .. MaxVersion -> Lsn] : Shape /\ OneTimeline(B)
    BY DEF ChainInv
  <1>2. Shape' /\ OneTimeline(B)' => ChainInv'
    BY DEF ChainInv
  <1>3. ASSUME NEW p \in Process, ProcessNext(p) PROVE ChainInv'
    BY <1>1, <1>2, <1>3, SyncMetadataKeeps, WriteBatchKeeps, WriteUnacknowledgedKeeps,
       WriteFailsKeeps, AppendRecordKeeps, NewSegmentDetectedKeeps DEF ProcessNext
  <1>4. ASSUME NEW t \in Task, TaskNext(t) PROVE ChainInv'
    <2>1. CASE SealFails(t) \/ TailOpen(t) \/ TrimFails(t)
      BY <1>1, <1>2, <2>1, TaskEndsKeeps DEF SealFails, TailOpen, TrimFails
    <2>2. CASE StartAdmin(t) \/ SealLoglet(t) \/ FoundSealed(t) \/ FoundOpen(t)
      BY <1>1, <1>2, <2>2, StartAdminKeeps, SealLogletKeeps, FoundSealedKeeps, FoundOpenKeeps
    <2>3. CASE FindTail(t) \/ TailSealed(t)
      BY <1>1, <1>2, <2>3, FindTailKeeps, TailSealedKeeps
    <2>4. CASE Trim(t) \/ TrimSegment(t) \/ LogTrimmed(t)
      BY <1>1, <1>2, <2>4, TrimKeeps, TrimSegmentKeeps, LogTrimmedKeeps
    <2> QED
      BY <1>4, <2>1, <2>2, <2>3, <2>4 DEF TaskNext
  <1>5. CASE UNCHANGED vars
    <2> USE <1>5 DEF vars, chainVars, logletVars, history
    <2>1. Shape'
      BY <1>1 DEF Shape, Latest
    <2>2. OneTimeline(B)'
      BY <1>1, Frame DEF OneTimeline
    <2> QED
      BY <1>2, <2>1, <2>2
  <1> QED
    BY <1>3, <1>4, <1>5 DEF Next

\* Every reachable state of LogChain has a timeline: however stale the caches, the
\* tasks and the queued commands are, all that they hold, and every version of Logs,
\* agrees on where each segment starts and ends (log_chain_writer.rs, bifrost_admin.rs).
THEOREM TimelineAlways == Spec => []ChainInv
  BY InitInv, NextInv, PTL DEF Spec
-----------------------------------------------------------------------------
(* What follows from it *)

LEMMA TypeFollows == ChainInv => TypeOK
  <1> SUFFICES ASSUME ChainInv PROVE TypeOK
    OBVIOUS
  <1>1. PICK B \in [0 .. MaxVersion -> Lsn] : Shape /\ OneTimeline(B)
    BY DEF ChainInv
  <1>2. VersionsFit(B)
    BY <1>1 DEF OneTimeline
  <1>3. ASSUME NEW v \in 1 .. Latest PROVE IsChain(versions[v])
    <2> DEFINE chain == versions[v]
               J == End(chain)
    <2>1. /\ Fits(chain, B, J) /\ Rising(B, J) /\ J \in Nat /\ TailIndex(chain) \in Nat
          /\ TailIndex(chain) <= TailIndex(Last) /\ J <= End(Last) /\ chain \in ChainSet
          /\ B[J] \in DOMAIN chain
      BY <1>1, <1>2, VersionFacts
    <2>2. TailIndex(Last) \in Nat /\ 0 .. TailIndex(Last) \subseteq Index
          /\ End(Last) \in Nat /\ End(Last) <= MaxVersion
      BY <1>1, <1>2, LastFacts
    <2> HIDE DEF J, chain
    <2>3. ASSUME NEW b \in DOMAIN chain
          PROVE  b \in Lsn /\ chain[b] \in [index : Index, marker : BOOLEAN]
      <3>1. Pos(chain[b]) \in 0 .. J /\ B[Pos(chain[b])] = b
        BY <2>1 DEF Fits
      <3>2. Pos(chain[b]) \in 0 .. MaxVersion
        <4>1. \A j \in 0 .. J : j \in 0 .. MaxVersion
          BY <2>1, <2>2, ChainAssumption
        <4> QED
          BY <3>1, <4>1
      <3>3. b \in Lsn
        BY <3>1, <3>2
      <3>4. chain[b].index <= TailIndex(chain)
        BY <2>1, StretchFields
      <3>5. chain[b] \in Segments
        BY <2>1, ChainFields
      <3>6. chain[b].index \in 0 .. TailIndex(Last)
        BY <2>1, <2>2, <3>4, <3>5 DEF Segments
      <3> QED
        BY <2>2, <3>3, <3>5, <3>6 DEF Segments
    <2> QED
      BY <2>1, <2>3 DEF IsChain, chain
  <1>4. ASSUME NEW p \in Process, NEW c \in Range(queue[p])
        PROVE  c.lsn \in Lsn /\ c.seg \in Index \cup {-1}
    <2>1. queue[p] \in Seq(Command)
      BY <1>1 DEF Shape
    <2>2. c \in Command
      BY <1>4, <2>1 DEF Range
    <2> QED
      BY <2>2 DEF Command
  <1>5. ASSUME NEW t \in Task PROVE task[t].seg \in Index \cup {-1} /\ task[t].ver \in 0 .. Latest
    <2>1. task[t] \in TaskState /\ TaskFits(task[t], B)
      BY <1>1 DEF Shape, OneTimeline, TasksFit
    <2>2. task[t].ver \in Nat /\ task[t].ver <= Latest /\ Latest \in Nat
      BY <1>1, <1>2, <2>1, LastFacts DEF TaskState, TaskFits
    <2> QED
      BY <2>1, <2>2 DEF TaskState
  <1> QED
    BY <1>1, <1>3, <1>4, <1>5 DEF TypeOK, Shape

\* a record of a closed segment is before the end of that segment
LEMMA RecordBelowEnd ==
    ASSUME Shape, NEW B, OneTimeline(B), NEW i \in Index, i < End(Last), NEW x \in Nat,
           x < OffsetBy(B[i], tail[i])
    PROVE  x < B[i + 1]
  <1>1. End(Last) \in Nat /\ B[i] \in Nat /\ B[i + 1] \in Nat
    BY LastFacts DEF OneTimeline
  <1>2. i \in 0 .. End(Last) - 1
    BY <1>1, Numbers
  <1>3. OffsetBy(B[i], bound[i]) <= B[i + 1]
    BY <1>2 DEF OneTimeline, EndsCover
  <1>4. bound[i] \in Offset /\ tail[i] \in Offset
    BY DEF Shape
  <1>5. tail[i] <= bound[i]
    BY DEF OneTimeline, LogletsFit
  <1>6. bound[i] \in Nat /\ tail[i] \in Nat
    BY <1>4, Numbers
  <1>7. OffsetBy(B[i], bound[i]) = B[i] + bound[i] - 1 /\ OffsetBy(B[i], tail[i]) = B[i] + tail[i] - 1
    BY <1>1, <1>6, OffsetIs
  <1> QED
    BY <1>1, <1>3, <1>5, <1>6, <1>7

LEMMA ReadableFollows == ChainInv => AckedRecordsReadable
  <1> SUFFICES ASSUME ChainInv, NEW r \in acked, \A lsn \in trims : lsn < r.lsn
               PROVE  /\ SegmentFor(Last, r.lsn) # INVALID
                      /\ Last[SegmentFor(Last, r.lsn)] = Loglet(r.index)
    BY DEF AckedRecordsReadable, Last
  <1>1. PICK B \in [0 .. MaxVersion -> Lsn] : Shape /\ OneTimeline(B)
    BY DEF ChainInv
  <1> DEFINE T == TailIndex(Last)
             J == End(Last)
             i == r.index
  <1>2. /\ i <= T /\ B[i] <= r.lsn /\ r.lsn < OffsetBy(B[i], tail[i])
    BY <1>1 DEF OneTimeline, AckedFit
  <1>3. r.lsn \in Nat /\ r.lsn >= 1 /\ i \in Index /\ i \in Nat
    <2>1. r \in [lsn : Lsn, index : Index]
      BY <1>1 DEF Shape
    <2> QED
      BY <2>1, Numbers
  <1>4. /\ T \in Nat /\ J \in Nat /\ J \in {T, T + 1} /\ Fits(Last, B, J) /\ Rising(B, J)
        /\ IsSealed(Last) => J = T + 1
        /\ ~IsSealed(Last) => J = T
        /\ Last \in ChainSet
    BY <1>1, LastFacts DEF OneTimeline
  <1>5. /\ \A k \in 0 .. MaxVersion : B[k] \in Nat
        /\ \A k \in Index : k \in 0 .. MaxVersion /\ k + 1 \in 0 .. MaxVersion
    BY <1>1, LastFacts DEF OneTimeline
  <1>6. i \in 0 .. J
    BY <1>2, <1>3, <1>4
  <1>7. i < J => r.lsn < B[i + 1]
    BY <1>1, <1>2, <1>3, RecordBelowEnd
  <1>8. \E b \in DOMAIN Last : b <= r.lsn
    <2>1. PICK b \in DOMAIN Last, t \in trims \cup {0} : b <= t + 1
      BY <1>1 DEF OneTimeline, TrimsFit
    <2>2. t \in Nat /\ b \in Nat
      BY <1>1, <1>4, ChainFields DEF Shape
    <2>3. t < r.lsn
      BY <1>3
    <2>4. b <= r.lsn
      BY <1>3, <2>1, <2>2, <2>3
    <2> QED
      BY <2>4
  <1> HIDE DEF i, J
  <1>9. /\ SegmentFor(Last, r.lsn) = B[i] /\ B[i] \in DOMAIN Last /\ Pos(Last[B[i]]) = i
        /\ SegmentFor(Last, r.lsn) # INVALID
    <2>1. PICK x \in Nat : x = r.lsn
      BY <1>3
    <2>2. B[i] <= x /\ (i < J => x < B[i + 1]) /\ \E b \in DOMAIN Last : b <= x
      BY <1>2, <1>7, <1>8, <2>1
    <2>3. J \in Nat /\ Fits(Last, B, J) /\ Rising(B, J)
      BY <1>4
    <2>4. LeadsTo(Last, B, x, i)
      BY <1>6, <2>2, <2>3, SegmentAt
    <2> QED
      BY <2>1, <2>4 DEF LeadsTo
  <1>10. ~Last[B[i]].marker
    <2> SUFFICES ASSUME Last[B[i]].marker PROVE FALSE
      BY <1>4, <1>9, ChainFields
    <2>1. i = J
      BY <1>4, <1>9 DEF Fits
    <2>2. IsSealed(Last) = Last[B[J]].marker
      BY <1>4, FitsTail
    <2>3. J = T + 1
      BY <1>4, <2>1, <2>2
    <2> QED
      BY <1>2, <1>3, <1>4, <2>1, <2>3 DEF i
  <1>11. Last[B[i]] = Loglet(i)
    BY <1>4, <1>9, <1>10, ChainFields
  <1> QED
    BY <1>9, <1>11 DEF i

LEMMA SeparateFollows == ChainInv => SealedAnswersSeparate
  <1> SUFFICES ASSUME ChainInv, NEW a \in answers, NEW r \in acked
               PROVE  r.index <= a.index <=> r.lsn < a.lsn
    BY DEF SealedAnswersSeparate
  <1>1. PICK B \in [0 .. MaxVersion -> Lsn] : Shape /\ OneTimeline(B)
    BY DEF ChainInv
  <1> DEFINE T == TailIndex(Last)
             J == End(Last)
  <1>2. PICK i \in Nat, j \in Nat, x \in Nat, y \in Nat :
          /\ i = r.index /\ j = a.index /\ x = r.lsn /\ y = a.lsn
          /\ i \in Index /\ j \in Index
    <2>1. r \in [lsn : Lsn, index : Index] /\ a \in [lsn : Lsn, index : Index]
      BY <1>1 DEF Shape
    <2>2. /\ r.index \in Nat /\ a.index \in Nat /\ r.lsn \in Nat /\ a.lsn \in Nat
          /\ r.index \in Index /\ a.index \in Index
      BY <2>1, Numbers
    <2> QED
      BY <2>2
  <1>3. i <= T /\ B[i] <= x /\ x < OffsetBy(B[i], tail[i])
    BY <1>1, <1>2 DEF OneTimeline, AckedFit
  <1>4. j < J /\ y = B[j + 1]
    BY <1>1, <1>2 DEF OneTimeline, AnswersFit
  <1>5. T \in Nat /\ J \in Nat /\ J \in {T, T + 1} /\ Rising(B, J) /\ B[i] \in Nat /\ B[i + 1] \in Nat
    BY <1>1, <1>2, LastFacts DEF OneTimeline
  <1>6. CASE i <= j
    <2>1. i < J
      BY <1>4, <1>5, <1>6
    <2>2. B[i + 1] <= B[j + 1]
      <3>1. i + 1 \in 0 .. J /\ j + 1 \in 0 .. J /\ i + 1 <= j + 1
        BY <1>4, <1>5, <1>6
      <3> QED
        BY <1>5, <3>1 DEF Rising
    <2>3. x < B[i + 1]
      BY <1>1, <1>2, <1>3, <2>1, RecordBelowEnd
    <2>4. x < y
      BY <1>4, <1>5, <2>2, <2>3
    <2> QED
      BY <1>2, <1>6, <2>4
  <1>7. CASE ~(i <= j)
    <2>1. B[j + 1] <= B[i]
      <3>1. i \in 0 .. J /\ j + 1 \in 0 .. J /\ j + 1 <= i
        BY <1>3, <1>4, <1>5, <1>7
      <3> QED
        BY <1>5, <3>1 DEF Rising
    <2>2. y <= B[i] /\ B[i] <= x /\ B[i] \in Nat
      BY <1>3, <1>4, <1>5, <2>1
    <2>3. ~(x < y)
      BY <2>2
    <2> QED
      BY <1>2, <1>7, <2>3
  <1> QED
    BY <1>6, <1>7
\* a segment of a version that has an end, and what a later version has there
LEMMA AgreeFollows == ChainInv => VersionsAgree
  <1> SUFFICES ASSUME ChainInv, NEW v \in 1 .. Latest, NEW b \in DOMAIN versions[v],
                      {c \in DOMAIN versions[v] : c > b} # {}
               PROVE  LET later == {c \in DOMAIN versions[v] : c > b} IN
                      /\ ~versions[v][b].marker
                      /\ \A w \in v + 1 .. Latest :
                            LET new == versions[w] IN
                            \/ \A c \in DOMAIN new : \E e \in later : c >= e
                            \/ /\ b \in DOMAIN new /\ new[b] = versions[v][b]
                               /\ \E e \in later \cap DOMAIN new :
                                     \A c \in later \cup DOMAIN new : c <= b \/ c >= e
    BY DEF VersionsAgree
  <1>1. PICK B \in [0 .. MaxVersion -> Lsn] : Shape /\ OneTimeline(B)
    BY DEF ChainInv
  <1> DEFINE old == versions[v]
             J == End(old)
             later == {c \in DOMAIN old : c > b}
             i == Pos(old[b])
             e == B[i + 1]
  <1>2. /\ Fits(old, B, J) /\ Rising(B, J) /\ J \in Nat /\ old \in ChainSet
        /\ Pos(old[B[J]]) = J /\ B[J] \in DOMAIN old /\ \A c \in DOMAIN old : c <= B[J]
    BY <1>1, VersionFacts DEF OneTimeline
  <1>3. /\ DOMAIN old \subseteq Nat \ {0} /\ b \in Nat
        /\ i \in 0 .. J /\ B[i] = b /\ \A k \in i + 1 .. J : B[k] > b
    BY <1>2, ChainFields DEF Fits
  <1>4. i # J
    <2>1. PICK c \in DOMAIN old : c > b
      OBVIOUS
    <2>2. c <= B[J] /\ c \in Nat /\ B[J] \in Nat
      BY <1>2, <1>3
    <2>3. B[J] # b
      BY <1>3, <2>1, <2>2
    <2> QED
      BY <1>3, <2>3
  <1> HIDE DEF J, old
  <1>5. e \in DOMAIN old /\ b < e /\ ~old[b].marker /\ e \in later /\ e \in Nat
    <2>1. e \in DOMAIN old /\ b < e /\ ~old[b].marker
      BY <1>2, <1>4, TailLsnIs DEF old
    <2> QED
      BY <1>3, <2>1
  <1>6. \A c \in later : c >= e
    <2> SUFFICES ASSUME NEW c \in DOMAIN old, c > b PROVE c >= e
      OBVIOUS
    <2>1. Pos(old[c]) \in 0 .. J /\ B[Pos(old[c])] = c /\ c \in Nat
      BY <1>2, <1>3 DEF Fits
    <2>2. i < Pos(old[c])
      <3>1. Pos(old[c]) <= i => B[Pos(old[c])] <= B[i]
        BY <1>2, <1>3, <2>1 DEF Rising
      <3> QED
        BY <1>3, <2>1, <3>1
    <2>3. i + 1 \in 0 .. J /\ i + 1 <= Pos(old[c])
      BY <1>2, <1>3, <2>1, <2>2
    <2> QED
      BY <1>2, <2>1, <2>3 DEF Rising
  <1>7. ASSUME NEW w \in v + 1 .. Latest, ~ \A c \in DOMAIN versions[w] : \E d \in later : c >= d
        PROVE  /\ b \in DOMAIN versions[w] /\ versions[w][b] = old[b] /\ e \in DOMAIN versions[w]
               /\ \A c \in DOMAIN versions[w] : c <= b \/ c >= e
    <2> DEFINE new == versions[w]
               K == End(new)
    <2>1. w \in 1 .. Latest /\ w \in v .. Latest /\ v \in 1 .. Latest /\ Latest \in Nat
      BY <1>1, LastFacts DEF OneTimeline
    <2>2. /\ Fits(new, B, K) /\ Rising(B, K) /\ K \in Nat /\ new \in ChainSet
      BY <1>1, <2>1, VersionFacts DEF OneTimeline
    <2>3. J <= K
      BY <1>1, <2>1 DEF OneTimeline, VersionsFit, J, old
    <2> HIDE DEF new, K
    <2>4. /\ DOMAIN new \subseteq Nat \ {0}
          /\ \A c \in DOMAIN new : Pos(new[c]) \in 0 .. K /\ B[Pos(new[c])] = c
          /\ \A c \in DOMAIN new : ~new[c].marker => new[c] = Loglet(Pos(new[c]))
      BY <2>2, ChainFields DEF Fits
    <2>5. PICK c \in DOMAIN new : c < e
      <3>1. PICK c \in DOMAIN new : \A d \in later : ~(c >= d)
        BY <1>7 DEF new
      <3> QED
        BY <1>5, <2>4, <3>1
    <2>6. i \in 0 .. K /\ i + 1 \in 0 .. K /\ i < K
      BY <1>2, <1>3, <1>4, <2>2, <2>3
    <2>7. c <= b
      <3>1. i < Pos(new[c]) => e <= c
        <4>1. i < Pos(new[c]) => i + 1 <= Pos(new[c])
          BY <2>4, <2>6
        <4> QED
          BY <2>2, <2>4, <2>6, <4>1 DEF Rising
      <3>2. Pos(new[c]) <= i => c <= b
        BY <1>3, <2>2, <2>4, <2>6 DEF Rising
      <3> QED
        BY <1>5, <2>4, <2>5, <2>6, <3>1, <3>2
    <2>8. b \in DOMAIN new /\ e \in DOMAIN new
      <3>1. b = B[i] /\ c <= B[i] /\ c <= B[i + 1]
        BY <1>3, <1>5, <2>4, <2>5, <2>7
      <3> QED
        BY <2>2, <2>6, <3>1 DEF Fits
    <2>9. Pos(new[b]) = i
      <3>1. Pos(new[b]) \in 0 .. K /\ B[Pos(new[b])] = b
        BY <2>4, <2>8
      <3>2. CASE Pos(new[b]) < i
        <4>1. i \in Pos(new[b]) + 1 .. K
          BY <2>6, <3>1, <3>2
        <4>2. B[i] > b
          BY <2>2, <2>8, <4>1 DEF Fits
        <4> QED
          BY <1>3, <4>2
      <3>3. CASE i < Pos(new[b])
        <4>1. i + 1 <= Pos(new[b])
          BY <2>6, <3>1, <3>3
        <4>2. e <= b
          BY <2>2, <2>6, <3>1, <4>1 DEF Rising
        <4> QED
          BY <1>3, <1>5, <4>2
      <3> QED
        BY <2>6, <3>1, <3>2, <3>3
    <2>10. ~new[b].marker
      <3>1. new[b].marker => Pos(new[b]) = K
        BY <2>2, <2>8 DEF Fits
      <3> QED
        BY <2>6, <2>9, <3>1
    <2>11. new[b] = old[b]
      <3>1. new[b] = Loglet(i)
        BY <2>4, <2>8, <2>9, <2>10
      <3>2. old[b] = Loglet(i)
        BY <1>2, <1>5, ChainFields DEF old
      <3> QED
        BY <3>1, <3>2
    <2>12. ASSUME NEW d \in DOMAIN new PROVE d <= b \/ d >= e
      <3>1. Pos(new[d]) \in 0 .. K /\ B[Pos(new[d])] = d /\ d \in Nat
        BY <2>4
      <3>2. CASE Pos(new[d]) <= i
        <4>1. B[Pos(new[d])] <= B[i]
          BY <2>2, <2>6, <3>1, <3>2 DEF Rising
        <4> QED
          BY <1>3, <3>1, <4>1
      <3>3. CASE ~(Pos(new[d]) <= i)
        <4>1. i + 1 <= Pos(new[d])
          BY <2>6, <3>1, <3>3
        <4>2. B[i + 1] <= B[Pos(new[d])]
          BY <2>2, <2>6, <3>1, <4>1 DEF Rising
        <4> QED
          BY <1>5, <3>1, <4>2
      <3> QED
        BY <3>2, <3>3
    <2> QED
      BY <2>8, <2>11, <2>12 DEF new
  <1>8. ASSUME NEW w \in v + 1 .. Latest
        PROVE  \/ \A c \in DOMAIN versions[w] : \E d \in later : c >= d
               \/ /\ b \in DOMAIN versions[w] /\ versions[w][b] = old[b]
                  /\ \E d \in later \cap DOMAIN versions[w] :
                        \A c \in later \cup DOMAIN versions[w] : c <= b \/ c >= d
    <2> HIDE DEF later, e
    <2>1. CASE \A c \in DOMAIN versions[w] : \E d \in later : c >= d
      BY <2>1
    <2>2. CASE ~ \A c \in DOMAIN versions[w] : \E d \in later : c >= d
      <3>1. /\ b \in DOMAIN versions[w] /\ versions[w][b] = old[b] /\ e \in DOMAIN versions[w]
            /\ \A c \in DOMAIN versions[w] : c <= b \/ c >= e
        BY <1>7, <2>2
      <3>2. e \in later \cap DOMAIN versions[w] /\ \A c \in later \cup DOMAIN versions[w] : c <= b \/ c >= e
        BY <1>5, <1>6, <3>1
      <3> QED
        BY <3>1, <3>2
    <2> QED
      BY <2>1, <2>2
  <1> QED
    BY <1>5, <1>8 DEF old

\* The type of every variable, for any number of processes, tasks, versions and LSNs:
\* no trim empties a chain, and no command, wrapper or chain holds an invalid LSN
\* (trim_prefix, LogChainWriter::run_inner).
THEOREM TypeCorrect == Spec => []TypeOK
  BY TimelineAlways, TypeFollows, PTL

\* An acknowledged record that nobody asked to trim is found in the latest chain, in the
\* segment that acknowledged it (find_segment_for_lsn, append_segment, trim_prefix).
THEOREM AckedRecordsAlwaysReadable == Spec => []AckedRecordsReadable
  BY TimelineAlways, ReadableFollows, PTL

\* A sealed tail that find_tail has returned separates what the segments up to it
\* acknowledge from what later segments do (Bifrost::find_tail, BifrostAdmin::seal).
THEOREM SealedAnswersAlwaysSeparate == Spec => []SealedAnswersSeparate
  BY TimelineAlways, SeparateFollows, PTL

\* A segment with an end has the same end in all later versions that still have it
\* (ChainBuilder::append_segment, seal and trim_prefix under the compare-and-swap).
THEOREM VersionsAlwaysAgree == Spec => []VersionsAgree
  BY TimelineAlways, AgreeFollows, PTL
=============================================================================
