----------------------- MODULE ReplicatedLogletProofs -----------------------
(***************************************************************************)
(* Theorems about ReplicatedLoglet, for every node set, every family of    *)
(* write quorums, every number of remote loglets and every offset limit.   *)
(***************************************************************************)
EXTENDS ReplicatedLoglet, TLAPS

-----------------------------------------------------------------------------
(* Facts about the larger of two tails. *)

LEMMA LaterIsTail ==
    \A a, b \in TailOffset : /\ Later(a, b) \in TailOffset
                             /\ Later(a, b) >= a /\ Later(a, b) >= b
                             /\ Later(a, b) = a \/ Later(a, b) = b
  BY LogletAssumption DEF Later, TailOffset, OLDEST

LEMMA OffsetIsTail ==
    /\ \A o \in Offset : o \in TailOffset /\ o + 1 \in TailOffset
    /\ \A o, t \in TailOffset : o < t => o \in Offset
    /\ OLDEST \in TailOffset
  BY LogletAssumption DEF Offset, TailOffset, OLDEST

LEMMA NestedUpdate ==
    ASSUME NEW A, NEW B, NEW V, NEW f \in [A -> [B -> V]], NEW a \in A, NEW b \in B, NEW v \in V
    PROVE  [f EXCEPT ![a][b] = v] \in [A -> [B -> V]]
  OBVIOUS

-----------------------------------------------------------------------------
(* Type correctness, one lemma per process *)

LEMMA InitTypeOK == Init => TypeOK
<1> SUFFICES ASSUME Init PROVE TypeOK
  OBVIOUS
<1> USE LogletAssumption, OffsetIsTail DEF Init, Unknown
<1>1. /\ stored \in [Node -> SUBSET Offset]
      /\ localTail \in [Node -> TailOffset] /\ serverTail \in [Node -> TailOffset]
      /\ sealed \in [Node -> BOOLEAN]
      /\ stores \subseteq StoreRequest /\ replies \subseteq StoreReply
      /\ nextOffset \in TailOffset /\ seqTail \in TailOffset
      /\ sealPhase \in {"open", "draining", "sealed"} /\ closed \in BOOLEAN
      /\ watchTail \in [Node -> TailOffset] /\ watchSealed \in [Node -> BOOLEAN]
  OBVIOUS
<1>2. /\ appender \in [Offset -> {"none", "ready", "wave"} \cup Ended]
      /\ wave \in [Offset -> 0 .. MaxWaves]
  OBVIOUS
<1>3. task \in [Offset -> [Node -> {"none", "waiting", "sent"}]]
  OBVIOUS
<1>4. attr \in [Offset -> [Node -> {"none", "committed", "sealed"}]]
  OBVIOUS
<1>5. /\ clientTail \in [Client -> TailOffset] /\ clientSealed \in [Client -> BOOLEAN]
      /\ phase \in [Client -> {"idle", "gather", "wait", "sealing", "repair"}]
      /\ knownSealed \in [Client -> SUBSET Node]
      /\ floor \in [Client -> TailOffset]
      /\ startOffset \in [Client -> TailOffset] /\ targetTail \in [Client -> TailOffset]
      /\ digests \in [Client -> SUBSET Node]
      /\ sealedTails \subseteq TailOffset
  OBVIOUS
<1>6. /\ known \in [Client -> [Node -> TailOffset \cup {Unknown}]]
      /\ copies \in [Client -> [Offset -> SUBSET Node]]
  OBVIOUS
<1> QED
  BY ONLY <1>1, <1>2, <1>3, <1>4, <1>5, <1>6 DEF TypeOK

\* the variables of an appender that ends
LEMMA EndAppenderTypeOK ==
    ASSUME TypeOK, NEW o \in Offset, NEW state \in Ended, EndAppender(o, state)
    PROVE  /\ appender' \in [Offset -> {"none", "ready", "wave"} \cup Ended]
           /\ wave' \in [Offset -> 0 .. MaxWaves]
           /\ task' \in [Offset -> [Node -> {"none", "waiting", "sent"}]]
           /\ attr' \in [Offset -> [Node -> {"none", "committed", "sealed"}]]
           /\ replies' \subseteq StoreReply
<1> USE LogletAssumption DEF TypeOK, EndAppender
<1>1. appender' \in [Offset -> {"none", "ready", "wave"} \cup Ended]
  OBVIOUS
<1>2. wave' \in [Offset -> 0 .. MaxWaves]
  OBVIOUS
<1>3. task' \in [Offset -> [Node -> {"none", "waiting", "sent"}]]
  OBVIOUS
<1>4. attr' \in [Offset -> [Node -> {"none", "committed", "sealed"}]]
  OBVIOUS
<1>5. replies' \subseteq StoreReply
  OBVIOUS
<1> QED
  BY <1>1, <1>2, <1>3, <1>4, <1>5

LEMMA SequencerTypeOK == TypeOK /\ SequencerNext => TypeOK'
<1> SUFFICES ASSUME TypeOK, SequencerNext PROVE TypeOK'
  OBVIOUS
<1> USE LogletAssumption, LaterIsTail, OffsetIsTail
<1> USE DEF TypeOK, serverVars, netVars, seqVars, watchVars, appVars, clientVars, repairVars, Ended
<1>1. CASE EnqueueBatch
  <2>1. nextOffset \in Offset /\ nextOffset + 1 \in TailOffset
    BY <1>1 DEF EnqueueBatch, Offset, TailOffset, OLDEST
  <2> QED
    BY <1>1, <2>1 DEF EnqueueBatch
<1>2. CASE OffsetsExhausted
  BY <1>2 DEF OffsetsExhausted
<1>3. CASE Drain
  BY <1>3 DEF Drain
<1>4. CASE Drained
  BY <1>4 DEF Drained
<1>5. ASSUME NEW n \in Node, SequencerSealsNode(n) PROVE TypeOK'
  BY <1>5 DEF SequencerSealsNode
<1>6. ASSUME NEW n \in Node, CheckSeal(n) PROVE TypeOK'
  BY <1>6 DEF CheckSeal
<1>7. ASSUME NEW o \in Offset, SendWave(o) PROVE TypeOK'
  BY <1>7 DEF SendWave
<1>8. ASSUME NEW o \in Offset, WriteUnavailable(o) PROVE TypeOK'
  BY <1>8, EndAppenderTypeOK DEF WriteUnavailable
<1>9. ASSUME NEW o \in Offset, EndWave(o) PROVE TypeOK'
  <2>1. CASE IsFMajority(WithAttr(o, "sealed"))
    BY <1>9, <2>1, EndAppenderTypeOK DEF EndWave
  <2>2. CASE ~IsFMajority(WithAttr(o, "sealed"))
    <3>1. /\ appender' = [appender EXCEPT ![o] = "ready"]
          /\ UNCHANGED <<wave, task, attr, replies, serverVars, stores, seqVars, watchVars,
                         clientVars, repairVars, sealedTails>>
      BY <1>9, <2>2 DEF EndWave
    <3>2. appender' \in [Offset -> {"none", "ready", "wave"} \cup Ended]
      BY <3>1
    <3> QED
      BY <3>1, <3>2
  <2> QED
    BY <2>1, <2>2
<1>10. ASSUME NEW o \in Offset, Cancel(o) PROVE TypeOK'
  BY <1>10, EndAppenderTypeOK DEF Cancel
<1>11. ASSUME NEW o \in Offset, NEW n \in Node, SendStore(o, n) PROVE TypeOK'
  BY <1>11 DEF SendStore, StoreRequest
<1>12. ASSUME NEW o \in Offset, NEW n \in Node, SkipSealedNode(o, n) PROVE TypeOK'
  <2>1. CASE EndAppender(o, "sealed")
    BY <1>12, <2>1, EndAppenderTypeOK DEF SkipSealedNode
  <2>2. CASE ~EndAppender(o, "sealed")
    <3>1. /\ task' = [task EXCEPT ![o][n] = "none"]
          /\ attr' = [attr EXCEPT ![o][n] = "sealed"]
          /\ UNCHANGED <<appender, wave, replies, serverVars, stores, seqVars, watchVars,
                         clientVars, repairVars, sealedTails>>
      BY <1>12, <2>2 DEF SkipSealedNode
    <3>2. task' \in [Offset -> [Node -> {"none", "waiting", "sent"}]]
      BY <3>1
    <3>3. attr' \in [Offset -> [Node -> {"none", "committed", "sealed"}]]
      BY <3>1
    <3> QED
      BY <3>1, <3>2, <3>3
  <2> QED
    BY <2>1, <2>2
<1>13. ASSUME NEW o \in Offset, NEW n \in Node, StoreTimeout(o, n) PROVE TypeOK'
  BY <1>13 DEF StoreTimeout
<1>14. ASSUME NEW r \in replies, Stored(r) PROVE TypeOK'
  <2>1. r.offset \in Offset /\ r.node \in Node /\ r.tail \in TailOffset
    BY DEF StoreReply
  <2>2. watchTail' \in [Node -> TailOffset] /\ watchSealed' \in [Node -> BOOLEAN]
    BY <1>14, <2>1 DEF Stored
  <2>3. seqTail' \in TailOffset
    BY <1>14, <2>1 DEF Stored
  <2>4. /\ appender' \in [Offset -> {"none", "ready", "wave"} \cup Ended]
        /\ wave' \in [Offset -> 0 .. MaxWaves]
        /\ task' \in [Offset -> [Node -> {"none", "waiting", "sent"}]]
        /\ attr' \in [Offset -> [Node -> {"none", "committed", "sealed"}]]
        /\ replies' \subseteq StoreReply
    <3>1. CASE EndAppender(r.offset, "sealed") \/ EndAppender(r.offset, "done")
      BY <3>1, <2>1, EndAppenderTypeOK
    <3>2. CASE ~(EndAppender(r.offset, "sealed") \/ EndAppender(r.offset, "done"))
      <4>1. /\ attr' = [attr EXCEPT ![r.offset][r.node] =
                           IF r.status = "Ok" THEN "committed"
                           ELSE IF r.status = "Sealed" THEN "sealed" ELSE @]
            /\ task' = [task EXCEPT ![r.offset][r.node] = "none"]
            /\ replies' \subseteq replies
            /\ UNCHANGED <<appender, wave>>
        BY <1>14, <3>2 DEF Stored
      <4> QED
        BY <4>1, <2>1
    <3> QED
      BY <3>1, <3>2
  <2> QED
    BY <1>14, <2>2, <2>3, <2>4 DEF Stored
<1> QED
  BY <1>1, <1>2, <1>3, <1>4, <1>5, <1>6, <1>7, <1>8, <1>9, <1>10, <1>11, <1>12, <1>13, <1>14
     DEF SequencerNext

LEMMA ServerTypeOK == TypeOK /\ ServerNext => TypeOK'
<1> SUFFICES ASSUME TypeOK, ServerNext PROVE TypeOK'
  OBVIOUS
<1> USE LogletAssumption, LaterIsTail, OffsetIsTail
<1> USE DEF TypeOK, serverVars, netVars, seqVars, watchVars, appVars, clientVars, repairVars, Ended
<1>1. ASSUME NEW m \in stores, ProcessStore(m) PROVE TypeOK'
  <2>1. /\ m.offset \in Offset /\ m.node \in Node /\ m.tail \in TailOffset
        /\ m.from \in Client \cup {Sequencer}
    BY DEF StoreRequest
  <2>2. /\ stores' \subseteq StoreRequest
        /\ serverTail' \in [Node -> TailOffset]
    BY <1>1, <2>1 DEF ProcessStore
  <2>3. /\ stored' \in [Node -> SUBSET Offset]
        /\ localTail' \in [Node -> TailOffset]
    <3>1. \/ UNCHANGED <<stored, localTail>>
          \/ /\ stored' = [stored EXCEPT ![m.node] = @ \cup {m.offset}]
             /\ localTail' = [localTail EXCEPT ![m.node] = Later(@, m.offset + 1)]
      BY <1>1 DEF ProcessStore
    <3>2. CASE UNCHANGED <<stored, localTail>>
      BY <3>2
    <3>3. CASE /\ stored' = [stored EXCEPT ![m.node] = @ \cup {m.offset}]
               /\ localTail' = [localTail EXCEPT ![m.node] = Later(@, m.offset + 1)]
      <4>1. stored[m.node] \cup {m.offset} \in SUBSET Offset
        BY <2>1
      <4>2. Later(localTail[m.node], m.offset + 1) \in TailOffset
        BY <2>1
      <4> QED
        BY <3>3, <4>1, <4>2, <2>1
    <3> QED
      BY <3>1, <3>2, <3>3
  <2>4. \E status \in {"Ok", "Sealed", "OutOfBounds"}, t \in TailOffset : Reply(m, status, t)
    BY <1>1, <2>1 DEF ProcessStore
  <2>5. /\ replies' \subseteq StoreReply
        /\ copies' \in [Client -> [Offset -> SUBSET Node]]
    <3>1. PICK status \in {"Ok", "Sealed", "OutOfBounds"}, t \in TailOffset : Reply(m, status, t)
      BY <2>4
    <3>2. CASE m.from = Sequencer
      BY <3>1, <3>2, <2>1 DEF Reply, StoreReply
    <3>3. CASE m.from # Sequencer
      <4>1. replies' = replies /\ m.from \in Client
        BY <3>1, <3>3, <2>1 DEF Reply
      <4> DEFINE v == copies[m.from][m.offset] \cup {m.node}
      <4>2. copies' = copies \/ copies' = [copies EXCEPT ![m.from][m.offset] = v]
        BY <3>1, <3>3 DEF Reply
      <4>3. v \in SUBSET Node
        BY <4>1, <2>1
      <4> HIDE DEF v
      <4>4. [copies EXCEPT ![m.from][m.offset] = v] \in [Client -> [Offset -> SUBSET Node]]
        BY <4>1, <4>3, <2>1, NestedUpdate
      <4> QED
        BY <4>1, <4>2, <4>4
    <3> QED
      BY <3>2, <3>3
  <2> QED
    BY <1>1, <2>2, <2>3, <2>5 DEF ProcessStore
<1>2. ASSUME NEW n \in Node, ProcessSeal(n) PROVE TypeOK'
  BY <1>2 DEF ProcessSeal
<1>3. ASSUME NEW n \in Node, Restart(n) PROVE TypeOK'
  <2>1. \A t \in OLDEST .. serverTail[n] : t \in TailOffset
    BY DEF TailOffset, OLDEST
  <2> QED
    BY <1>3, <2>1 DEF Restart
<1> QED
  BY <1>1, <1>2, <1>3 DEF ServerNext

LEMMA AnswerTypeOK ==
    ASSUME TypeOK, NEW c \in Client, NEW t \in TailOffset, NEW b \in BOOLEAN, Answer(c, t, b)
    PROVE  TypeOK'
  BY LogletAssumption, LaterIsTail, OffsetIsTail
     DEF Answer, Forget, TypeOK, serverVars, netVars, seqVars, watchVars, appVars, Unknown

LEMMA ClientTypeOK ==
    ASSUME TypeOK, NEW c \in Client, ClientNext(c)
    PROVE  TypeOK'
<1> USE LogletAssumption, LaterIsTail, OffsetIsTail
<1> USE DEF TypeOK, serverVars, netVars, seqVars, watchVars, appVars, clientVars, repairVars, Unknown
<1>1. CASE FindTail(c)
  BY <1>1 DEF FindTail
<1>2. CASE AskSequencer(c)
  BY <1>2, AnswerTypeOK DEF AskSequencer
<1>3. CASE Appended(c)
  BY <1>3 DEF Appended
<1>4. CASE RestartFindTail(c)
  BY <1>4 DEF RestartFindTail, Forget
<1>5. CASE FoundSealed(c)
  BY <1>5, AnswerTypeOK DEF FoundSealed
<1>6. CASE FoundOpen(c)
  BY <1>6, AnswerTypeOK DEF FoundOpen
<1>7. CASE WaitForTail(c)
  BY <1>7 DEF WaitForTail
<1>8. CASE NodeGotSealed(c)
  BY <1>8 DEF NodeGotSealed
<1>9. CASE AssistSeal(c)
  BY <1>9 DEF AssistSeal, Forget
<1>10. CASE FindTailFails(c)
  BY <1>10 DEF FindTailFails, Forget
<1>11. CASE StartRepair(c)
  BY <1>11 DEF StartRepair
<1>12. CASE RecordRepaired(c)
  BY <1>12 DEF RecordRepaired
<1>13. CASE RepairCompleted(c)
  BY <1>13, AnswerTypeOK DEF RepairCompleted
<1>14. ASSUME NEW n \in Node, Read(c, n) PROVE TypeOK'
  BY <1>14 DEF Read, Exchange
<1>15. ASSUME NEW n \in Node, GetLogletInfo(c, n) PROVE TypeOK'
  <2>1. Later(known[c][n], localTail[n]) \in TailOffset
    BY DEF Later, TailOffset, OLDEST
  <2> QED
    BY <1>15, <2>1 DEF GetLogletInfo, Exchange
<1>16. ASSUME NEW n \in Node, SealNode(c, n) PROVE TypeOK'
  BY <1>16 DEF SealNode, Exchange
<1>17. ASSUME NEW n \in Node, GetDigest(c, n) PROVE TypeOK'
  <2>1. startOffset' \in [Client -> TailOffset]
    <3>1. PICK s \in TailOffset : startOffset' = [startOffset EXCEPT ![c] = s]
      <4> DEFINE g == Later(startOffset[c], Later(serverTail[n], clientTail[c]))
      <4>1. g \in TailOffset
        OBVIOUS
      <4>2. \/ startOffset' = [startOffset EXCEPT ![c] = g]
            \/ \E o \in Offset : startOffset' = [startOffset EXCEPT ![c] = o + 1]
        BY <1>17 DEF GetDigest
      <4> QED
        BY <4>1, <4>2
    <3> QED
      BY <3>1
  <2>2. digests' \in [Client -> SUBSET Node]
    BY <1>17 DEF GetDigest
  <2>3. copies' \in [Client -> [Offset -> SUBSET Node]]
    <3> DEFINE g == Later(startOffset[c], Later(serverTail[n], clientTail[c]))
               found == [o \in Offset |-> IF o \in stored[n] /\ o >= g /\ o < targetTail[c]
                                          THEN copies[c][o] \cup {n} ELSE copies[c][o]]
    <3>1. copies' = [copies EXCEPT ![c] = found]
      BY <1>17 DEF GetDigest
    <3>2. \A o \in Offset : copies[c][o] \subseteq Node /\ copies[c][o] \cup {n} \subseteq Node
      OBVIOUS
    <3>3. found \in [Offset -> SUBSET Node]
      BY <3>2
    <3> HIDE DEF found
    <3> QED
      BY <3>1, <3>3
  <2>4. clientTail' \in [Client -> TailOffset] /\ serverTail' \in [Node -> TailOffset]
    BY <1>17 DEF GetDigest, Exchange
  <2> QED
    BY <1>17, <2>1, <2>2, <2>3, <2>4 DEF GetDigest
<1>18. ASSUME NEW n \in Node, SendRepairStore(c, n) PROVE TypeOK'
  <2>1. startOffset[c] \in Offset /\ startOffset[c] \in TailOffset
    BY <1>18 DEF SendRepairStore
  <2> QED
    BY <1>18, <2>1 DEF SendRepairStore, StoreRequest
<1> QED
  BY <1>1, <1>2, <1>3, <1>4, <1>5, <1>6, <1>7, <1>8, <1>9, <1>10, <1>11, <1>12, <1>13, <1>14,
     <1>15, <1>16, <1>17, <1>18 DEF ClientNext

(* TypeCorrect: in every reachable state of the loglet the variables have   *)
(* the shapes TypeOK gives them; in particular no offset above the soft     *)
(* limit is ever handed out, stored, reported or sent.                      *)
THEOREM TypeCorrect == Spec => []TypeOK
<1>1. TypeOK /\ [Next]_vars => TypeOK'
  <2> SUFFICES ASSUME TypeOK, [Next]_vars PROVE TypeOK'
    OBVIOUS
  <2>1. CASE SequencerNext
    BY <2>1, SequencerTypeOK
  <2>2. CASE ServerNext
    BY <2>2, ServerTypeOK
  <2>3. ASSUME NEW c \in Client, ClientNext(c) PROVE TypeOK'
    BY <2>3, ClientTypeOK
  <2>4. CASE UNCHANGED vars
    BY <2>4 DEF vars, serverVars, netVars, seqVars, watchVars, appVars, clientVars, repairVars, TypeOK
  <2> QED
    BY <2>1, <2>2, <2>3, <2>4 DEF Next
<1> QED
  BY InitTypeOK, <1>1, PTL DEF Spec

-----------------------------------------------------------------------------
(***************************************************************************)
(* The gate of LogServerStoreTask keeps every store within the bounds of   *)
(* the log server that receives it: StoresInBounds.                        *)
(***************************************************************************)
-----------------------------------------------------------------------------
(* The inductive invariant: what the sequencer believes about the local    *)
(* tail of a server, or hears of it in a reply, is never ahead of it.  The *)
(* bound of a store does not lean on the server's known global tail, which *)
(* a restart may lower.                                                    *)

WatchesBehind == \A n \in Node : watchTail[n] <= localTail[n]

RepliesBehind == \A r \in replies : r.tail <= localTail[r.node]

StoresWithin == \A m \in stores : m.offset <= Later(localTail[m.node], m.tail)

GateInv == TypeOK /\ WatchesBehind /\ RepliesBehind /\ StoresWithin

-----------------------------------------------------------------------------

LEMMA TailIsNat == (\A o \in Offset : o \in Nat) /\ (\A t \in TailOffset : t \in Nat)
  BY LogletAssumption DEF TailOffset, Offset, OLDEST

LEMMA LaterBound ==
    ASSUME NEW a \in Nat, NEW b \in Nat
    PROVE  /\ Later(a, b) \in Nat /\ a <= Later(a, b) /\ b <= Later(a, b)
           /\ \A x \in Nat : a <= x /\ b <= x => Later(a, b) <= x
           /\ \A x \in Nat : a <= x => Later(a, b) <= Later(x, b)
           /\ \A x \in Nat : b <= x => Later(a, b) <= Later(a, x)
  BY DEF Later

\* the fields of a message are what TypeOK says
LEMMA MessageTypes ==
    ASSUME TypeOK
    PROVE  /\ \A m \in stores : /\ m.offset \in Offset /\ m.node \in Node /\ m.tail \in TailOffset
           /\ \A r \in replies : /\ r.offset \in Offset /\ r.node \in Node /\ r.tail \in TailOffset
  BY DEF TypeOK, StoreRequest, StoreReply

LEMMA GateFrame ==
    ASSUME GateInv, localTail' = localTail
    PROVE  /\ UNCHANGED watchTail => WatchesBehind'
           /\ replies' \subseteq replies => RepliesBehind'
           /\ stores' \subseteq stores => StoresWithin'
  BY DEF GateInv, WatchesBehind, RepliesBehind, StoresWithin

LEMMA InitGateInv == Init => GateInv
<1> SUFFICES ASSUME Init PROVE GateInv
  OBVIOUS
<1>1. WatchesBehind /\ RepliesBehind /\ StoresWithin
  BY DEF Init, WatchesBehind, RepliesBehind, StoresWithin, OLDEST
<1> QED
  BY <1>1, InitTypeOK DEF GateInv

LEMMA SequencerGate ==
    ASSUME GateInv, TypeOK', SequencerNext
    PROVE  GateInv'
<1> USE GateFrame
<1> USE DEF GateInv, serverVars, netVars, seqVars, watchVars, appVars
<1>1. CASE EnqueueBatch \/ OffsetsExhausted \/ Drain \/ Drained
  BY <1>1 DEF EnqueueBatch, OffsetsExhausted, Drain, Drained
<1>2. ASSUME NEW n \in Node, SequencerSealsNode(n) PROVE GateInv'
  BY <1>2 DEF SequencerSealsNode
<1>3. ASSUME NEW n \in Node, CheckSeal(n) PROVE GateInv'
  <2>1. localTail' = localTail /\ stores' = stores /\ replies' = replies
        /\ watchTail' = [watchTail EXCEPT ![n] = Later(@, localTail[n])]
    BY <1>3 DEF CheckSeal
  <2>2. Later(watchTail[n], localTail[n]) <= localTail[n]
    BY LaterBound, TailIsNat DEF WatchesBehind, TypeOK
  <2>3. WatchesBehind'
    BY <2>1, <2>2 DEF WatchesBehind, TypeOK
  <2> QED
    BY <2>1, <2>3
<1>4. ASSUME NEW o \in Offset, SendWave(o) \/ WriteUnavailable(o) \/ EndWave(o) \/ Cancel(o)
      PROVE  GateInv'
  <2>1. localTail' = localTail /\ watchTail' = watchTail /\ stores' = stores /\ replies' \subseteq replies
    BY <1>4 DEF SendWave, WriteUnavailable, EndWave, Cancel, EndAppender
  <2> QED
    BY <2>1
<1>5. ASSUME NEW o \in Offset, NEW n \in Node, SendStore(o, n) PROVE GateInv'
  <2>1. /\ localTail' = localTail /\ watchTail' = watchTail /\ replies' = replies
        /\ stores' = stores \cup {[offset |-> o, node |-> n, tail |-> seqTail, from |-> Sequencer,
                                   wave |-> wave[o]]}
    BY <1>5 DEF SendStore
  <2>2. o <= watchTail[n] \/ o <= seqTail
    BY <1>5, TailIsNat DEF SendStore, GateOpen, TypeOK
  <2>3. o <= Later(localTail[n], seqTail)
    <3>1. o \in Nat /\ watchTail[n] \in Nat /\ localTail[n] \in Nat /\ seqTail \in Nat
      BY TailIsNat DEF TypeOK
    <3>2. watchTail[n] <= localTail[n]
      BY DEF WatchesBehind
    <3> QED
      BY <2>2, <3>1, <3>2, LaterBound
  <2>4. StoresWithin'
    BY <2>1, <2>3 DEF StoresWithin
  <2> QED
    BY <2>1, <2>4
<1>6. ASSUME NEW o \in Offset, NEW n \in Node, SkipSealedNode(o, n) \/ StoreTimeout(o, n)
      PROVE  GateInv'
  <2>1. localTail' = localTail /\ watchTail' = watchTail /\ stores' = stores /\ replies' \subseteq replies
    BY <1>6 DEF SkipSealedNode, StoreTimeout, EndAppender
  <2> QED
    BY <2>1
<1>7. ASSUME NEW r \in replies, Stored(r) PROVE GateInv'
  <2>1. /\ localTail' = localTail /\ stores' = stores /\ replies' \subseteq replies
        /\ watchTail' = [watchTail EXCEPT ![r.node] = Later(@, r.tail)]
    BY <1>7 DEF Stored, EndAppender
  <2>2. r.node \in Node /\ r.tail \in TailOffset /\ r.tail <= localTail[r.node]
    BY MessageTypes DEF RepliesBehind
  <2>3. Later(watchTail[r.node], r.tail) <= localTail[r.node]
    BY <2>2, LaterBound, TailIsNat DEF WatchesBehind, TypeOK
  <2>4. WatchesBehind'
    BY <2>1, <2>2, <2>3 DEF WatchesBehind, TypeOK
  <2> QED
    BY <2>1, <2>4
<1> QED
  BY <1>1, <1>2, <1>3, <1>4, <1>5, <1>6, <1>7 DEF SequencerNext

LEMMA ProcessStoreGate ==
    ASSUME GateInv, TypeOK', NEW m \in stores, ProcessStore(m)
    PROVE  GateInv'
<1> USE DEF GateInv
<1> DEFINE n == m.node
           o == m.offset
<1>1. o \in Offset /\ n \in Node
  BY MessageTypes
<1>2. stores' = stores \ {m} /\ watchTail' = watchTail
  BY DEF ProcessStore, watchVars
<1>3. \/ UNCHANGED localTail
      \/ localTail' = [localTail EXCEPT ![n] = Later(@, o + 1)]
  BY DEF ProcessStore
<1>4. \E status, t : /\ Reply(m, status, t) /\ t \in TailOffset
                     /\ \/ UNCHANGED localTail /\ t = localTail[n]
                        \/ /\ localTail' = [localTail EXCEPT ![n] = Later(@, o + 1)]
                           /\ t = Later(localTail[n], o + 1)
  BY <1>1, LaterIsTail, OffsetIsTail DEF ProcessStore, TypeOK
<1>5. \E t : /\ t \in TailOffset /\ t = localTail'[n]
             /\ \A r \in replies' : r \in replies \/ (r.node = n /\ r.tail = t)
  <2>1. PICK status, t : /\ Reply(m, status, t) /\ t \in TailOffset
                         /\ \/ UNCHANGED localTail /\ t = localTail[n]
                            \/ /\ localTail' = [localTail EXCEPT ![n] = Later(@, o + 1)]
                               /\ t = Later(localTail[n], o + 1)
    BY <1>4
  <2>2. t = localTail'[n]
    BY <1>1, <2>1 DEF TypeOK
  <2>3. replies' \subseteq replies \cup {[offset |-> o, node |-> n, status |-> status, tail |-> t]}
    BY <2>1 DEF Reply
  <2> QED
    BY <2>1, <2>2, <2>3
<1> HIDE DEF n, o
<1>6. \A k \in Node : /\ localTail[k] \in Nat /\ localTail'[k] \in Nat /\ watchTail[k] \in Nat
                      /\ localTail[k] <= localTail'[k]
  <2>1. \A k \in Node : localTail[k] \in Nat /\ localTail'[k] \in Nat /\ watchTail[k] \in Nat
    BY TailIsNat DEF TypeOK
  <2>2. localTail[n] <= Later(localTail[n], o + 1)
    <3>1. o + 1 \in Nat /\ localTail[n] \in Nat
      BY <1>1, <2>1, TailIsNat
    <3> QED
      BY <3>1, LaterBound
  <2>3. ASSUME NEW k \in Node PROVE localTail[k] <= localTail'[k]
    <3>1. localTail'[k] = localTail[k] \/ (k = n /\ localTail'[k] = Later(localTail[k], o + 1))
      BY <1>3 DEF TypeOK
    <3> QED
      BY <2>1, <2>2, <3>1
  <2> QED
    BY <2>1, <2>3
<1>7. WatchesBehind'
  BY <1>2, <1>6 DEF WatchesBehind
<1>8. RepliesBehind'
  <2>1. ASSUME NEW r \in replies' PROVE r.tail <= localTail'[r.node]
    <3>1. CASE r \in replies
      <4>1. r.node \in Node /\ r.tail \in Nat /\ r.tail <= localTail[r.node]
        BY <3>1, MessageTypes, TailIsNat DEF RepliesBehind
      <4> QED
        BY <1>6, <4>1
    <3>2. CASE r \notin replies
      BY <1>1, <1>5, <1>6, <3>2
    <3> QED
      BY <3>1, <3>2
  <2> QED
    BY <2>1 DEF RepliesBehind
<1>9. StoresWithin'
  <2>1. ASSUME NEW k \in stores PROVE k.offset <= Later(localTail'[k.node], k.tail)
    <3>1. k.offset \in Nat /\ k.node \in Node /\ k.tail \in Nat
      BY MessageTypes, TailIsNat
    <3>2. k.offset <= Later(localTail[k.node], k.tail)
      BY DEF StoresWithin
    <3>3. Later(localTail[k.node], k.tail) <= Later(localTail'[k.node], k.tail)
      BY <1>6, <3>1, LaterBound
    <3>4. Later(localTail[k.node], k.tail) \in Nat /\ Later(localTail'[k.node], k.tail) \in Nat
      BY <1>6, <3>1, LaterBound
    <3> QED
      BY <3>1, <3>2, <3>3, <3>4
  <2> QED
    BY <1>2, <2>1 DEF StoresWithin
<1> QED
  BY <1>7, <1>8, <1>9

LEMMA OthersGate ==
    ASSUME GateInv, TypeOK', \/ \E n \in Node : ProcessSeal(n) \/ Restart(n)
                             \/ \E c \in Client : ClientNext(c)
    PROVE  GateInv'
<1> USE GateFrame
<1> USE DEF GateInv, serverVars, netVars, watchVars
<1>1. CASE \E n \in Node : ProcessSeal(n) \/ Restart(n)
  BY <1>1 DEF ProcessSeal, Restart
<1>2. ASSUME NEW c \in Client,
             \/ FindTail(c) \/ AskSequencer(c) \/ Appended(c) \/ RestartFindTail(c)
             \/ FoundSealed(c) \/ FoundOpen(c) \/ WaitForTail(c) \/ NodeGotSealed(c)
             \/ AssistSeal(c) \/ FindTailFails(c)
             \/ StartRepair(c) \/ RecordRepaired(c) \/ RepairCompleted(c)
             \/ \E n \in Node : \/ Read(c, n) \/ GetLogletInfo(c, n) \/ SealNode(c, n)
                                \/ GetDigest(c, n)
      PROVE  GateInv'
  <2>1. UNCHANGED <<localTail, watchTail, stores, replies>>
    BY <1>2 DEF FindTail, AskSequencer, Appended, RestartFindTail, FoundSealed, FoundOpen,
                WaitForTail, NodeGotSealed, AssistSeal, FindTailFails, StartRepair, RecordRepaired,
                RepairCompleted, Answer, Read, GetLogletInfo, SealNode, GetDigest
  <2> QED
    BY <2>1
<1>3. ASSUME NEW c \in Client, NEW n \in Node, SendRepairStore(c, n) PROVE GateInv'
  <2> DEFINE o == startOffset[c]
  <2>1. /\ localTail' = localTail /\ watchTail' = watchTail /\ replies' = replies
        /\ stores' = stores \cup {[offset |-> o, node |-> n, tail |-> o, from |-> c, wave |-> 0]}
    BY <1>3 DEF SendRepairStore
  <2>2. o <= Later(localTail[n], o)
    BY LaterBound, TailIsNat DEF TypeOK
  <2>3. StoresWithin'
    BY <2>1, <2>2 DEF StoresWithin
  <2> QED
    BY <2>1, <2>3
<1> QED
  BY <1>1, <1>2, <1>3 DEF ClientNext

LEMMA GateInvInvariant == Spec => []GateInv
<1>1. GateInv /\ [Next]_vars /\ TypeOK' => GateInv'
  <2> SUFFICES ASSUME GateInv, [Next]_vars, TypeOK' PROVE GateInv'
    OBVIOUS
  <2>1. CASE SequencerNext
    BY <2>1, SequencerGate
  <2>2. ASSUME NEW m \in stores, ProcessStore(m) PROVE GateInv'
    BY <2>2, ProcessStoreGate
  <2>3. CASE UNCHANGED vars
    BY <2>3, GateFrame DEF vars, serverVars, netVars, watchVars, GateInv
  <2> QED
    BY <2>1, <2>2, <2>3, OthersGate DEF Next, ServerNext
<1> QED
  BY InitGateInv, TypeCorrect, <1>1, PTL DEF Spec

(* GateKeepsStoresInBounds: whenever a store is in flight, the records      *)
(* before it are on its log server or below a global tail that the server   *)
(* knows or learns from the store, so that the server never answers         *)
(* OutOfBounds, also after a restart that lost its known global tail.       *)
THEOREM GateKeepsStoresInBounds == Spec => []StoresInBounds
<1>1. GateInv => StoresInBounds
  <2> SUFFICES ASSUME GateInv, NEW m \in stores
               PROVE  m.offset <= Later(localTail[m.node], Later(serverTail[m.node], m.tail))
    BY DEF StoresInBounds
  <2>1. /\ m.offset \in Nat /\ m.tail \in Nat /\ m.node \in Node
        /\ localTail[m.node] \in Nat /\ serverTail[m.node] \in Nat
    BY MessageTypes, TailIsNat DEF GateInv, TypeOK
  <2>2. m.offset <= Later(localTail[m.node], m.tail)
    BY DEF GateInv, StoresWithin
  <2> QED
    BY <2>1, <2>2 DEF Later
<1> QED
  BY GateInvInvariant, <1>1, PTL

-----------------------------------------------------------------------------
(***************************************************************************)
(* Every tail that travels through the loglet is backed by write quorums:  *)
(* KnownTailsCommitted, for every node set and every family of quorums.    *)
(***************************************************************************)
-----------------------------------------------------------------------------
(* What a tail promises about the records st[n] of the nodes n.  The       *)
(* operators take the records as an argument, so that a step that stores   *)
(* another record is an instance of their monotonicity.                    *)

Durable(st, o) == IsWriteQuorum({n \in Node : o \in st[n]})

\* every record below t is on a write quorum
QuorumBelow(st, t) == \A o \in Offset : o < t => Durable(st, o)

\* node n has every record below t, except those that a write quorum has
HeldBelow(st, n, t) == \A o \in Offset : o < t => o \in st[n] \/ Durable(st, o)

Records == [Node -> SUBSET Offset]

Grows(st, su) == \A n \in Node : st[n] \subseteq su[n]

-----------------------------------------------------------------------------
(* The inductive invariant.  KnownTailsCommitted speaks of the tails only; *)
(* to see that a tail moves no further than the records allow, one needs   *)
(* to know what the evidence for a move is worth: a local tail, an Ok      *)
(* reply, an entry of an appender's checker, a tail that a finder heard,   *)
(* a copy that a digest listed.                                            *)

ServersHold ==
    \A n \in Node : /\ HeldBelow(stored, n, localTail[n])
                    /\ \A o \in stored[n] : o < localTail[n]

SequencerTailDurable == QuorumBelow(stored, seqTail)

ServerTailsDurable == \A n \in Node : QuorumBelow(stored, serverTail[n])

ClientTailsDurable == \A c \in Client : QuorumBelow(stored, clientTail[c])

StoreTailsDurable == \A m \in stores : QuorumBelow(stored, m.tail)

RepairsDurable == \A c \in Client : QuorumBelow(stored, startOffset[c])

RepliesHold == \A r \in replies : r.status = "Ok" => HeldBelow(stored, r.node, r.offset + 1)

AppendersHold ==
    \A o \in Offset, n \in Node : attr[o][n] = "committed" => HeldBelow(stored, n, o + 1)

DoneDurable == \A o \in Offset : appender[o] = "done" => QuorumBelow(stored, o + 1)

FindersHold == \A c \in Client, n \in Node : HeldBelow(stored, n, known[c][n])

CopiesHold == \A c \in Client, o \in Offset : \A n \in copies[c][o] : o \in stored[n]

TailInv ==
    /\ TypeOK
    /\ ServersHold
    /\ SequencerTailDurable /\ ServerTailsDurable /\ ClientTailsDurable /\ StoreTailsDurable
    /\ RepairsDurable
    /\ RepliesHold /\ AppendersHold /\ DoneDurable
    /\ FindersHold /\ CopiesHold

-----------------------------------------------------------------------------
(* Facts about the operators *)

LEMMA OffsetIsNat ==
    /\ \A o \in Offset : o \in Nat
    /\ \A t \in TailOffset : t \in Nat
  BY LogletAssumption DEF TailOffset, Offset, OLDEST

LEMMA SmallerTail ==
    ASSUME NEW st, NEW t \in Nat, NEW u \in Nat, u <= t
    PROVE  /\ QuorumBelow(st, t) => QuorumBelow(st, u)
           /\ \A n \in Node : HeldBelow(st, n, t) => HeldBelow(st, n, u)
  BY LogletAssumption DEF QuorumBelow, HeldBelow, Offset, OLDEST

LEMMA LaterDurable ==
    ASSUME NEW st, NEW a \in TailOffset, NEW b \in TailOffset,
           QuorumBelow(st, a), QuorumBelow(st, b)
    PROVE  QuorumBelow(st, Later(a, b))
  BY LaterIsTail

LEMMA DurableIsHeld ==
    ASSUME NEW st, NEW t, NEW n \in Node, QuorumBelow(st, t)
    PROVE  HeldBelow(st, n, t)
  BY DEF QuorumBelow, HeldBelow

\* the heart of the argument: if every node of a write quorum holds what is
\* below t, then each record below t has a write quorum of its own
LEMMA QuorumHolds ==
    ASSUME NEW st, NEW t, NEW S \in SUBSET Node, IsWriteQuorum(S),
           \A n \in S : HeldBelow(st, n, t)
    PROVE  QuorumBelow(st, t)
<1> SUFFICES ASSUME NEW o \in Offset, o < t, ~Durable(st, o) PROVE FALSE
  BY DEF QuorumBelow
<1>1. S \subseteq {n \in Node : o \in st[n]}
  BY DEF HeldBelow
<1> QED
  BY <1>1 DEF Durable, IsWriteQuorum

LEMMA MoreRecords ==
    ASSUME NEW st, NEW su, Grows(st, su)
    PROVE  /\ \A o : Durable(st, o) => Durable(su, o)
           /\ \A t : QuorumBelow(st, t) => QuorumBelow(su, t)
           /\ \A n \in Node : \A t : HeldBelow(st, n, t) => HeldBelow(su, n, t)
<1>1. ASSUME NEW o, Durable(st, o) PROVE Durable(su, o)
  <2>1. {n \in Node : o \in st[n]} \subseteq {n \in Node : o \in su[n]}
    BY DEF Grows
  <2> QED
    BY <1>1, <2>1 DEF Durable, IsWriteQuorum
<1>2. ASSUME NEW t, QuorumBelow(st, t) PROVE QuorumBelow(su, t)
  BY <1>1, <1>2 DEF QuorumBelow
<1>3. ASSUME NEW n \in Node, NEW t, HeldBelow(st, n, t) PROVE HeldBelow(su, n, t)
  BY <1>1, <1>3 DEF HeldBelow, Grows
<1> QED
  BY <1>1, <1>2, <1>3

\* a record stored on a node that holds everything below it
LEMMA OneMoreRecord ==
    ASSUME NEW st \in Records, NEW n \in Node, NEW o \in Offset
    PROVE  LET su == [st EXCEPT ![n] = @ \cup {o}]
           IN  /\ Grows(st, su) /\ o \in su[n]
               /\ su[n] = st[n] \cup {o}
               /\ \A k \in Node \ {n} : su[k] = st[k]
  BY DEF Records, Grows

LEMMA HeldAndStored ==
    ASSUME NEW st, NEW n \in Node, NEW o \in Offset, HeldBelow(st, n, o), o \in st[n]
    PROVE  HeldBelow(st, n, o + 1)
<1>1. \A p \in Offset : p < o + 1 => p < o \/ p = o
  BY OffsetIsNat
<1> QED
  BY <1>1 DEF HeldBelow

\* what remains true of the parts of TailInv when no record is stored
LEMMA Frame ==
    ASSUME TailInv, stored' = stored
    PROVE  /\ UNCHANGED localTail => ServersHold'
           /\ UNCHANGED seqTail => SequencerTailDurable'
           /\ UNCHANGED serverTail => ServerTailsDurable'
           /\ UNCHANGED clientTail => ClientTailsDurable'
           /\ stores' \subseteq stores => StoreTailsDurable'
           /\ UNCHANGED startOffset => RepairsDurable'
           /\ replies' \subseteq replies => RepliesHold'
           /\ UNCHANGED attr => AppendersHold'
           /\ UNCHANGED appender => DoneDurable'
           /\ UNCHANGED known => FindersHold'
           /\ UNCHANGED copies => CopiesHold'
<1> USE DEF TailInv
<1>1. UNCHANGED localTail => ServersHold'
  BY DEF ServersHold
<1>2. UNCHANGED seqTail => SequencerTailDurable'
  BY DEF SequencerTailDurable
<1>3. UNCHANGED serverTail => ServerTailsDurable'
  BY DEF ServerTailsDurable
<1>4. UNCHANGED clientTail => ClientTailsDurable'
  BY DEF ClientTailsDurable
<1>5. stores' \subseteq stores => StoreTailsDurable'
  BY DEF StoreTailsDurable
<1>6. UNCHANGED startOffset => RepairsDurable'
  BY DEF RepairsDurable
<1>7. replies' \subseteq replies => RepliesHold'
  BY DEF RepliesHold
<1>8. UNCHANGED attr => AppendersHold'
  BY DEF AppendersHold
<1>9. UNCHANGED appender => DoneDurable'
  BY DEF DoneDurable
<1>10. UNCHANGED known => FindersHold'
  BY DEF FindersHold
<1>11. UNCHANGED copies => CopiesHold'
  BY DEF CopiesHold
<1> QED
  BY ONLY <1>1, <1>2, <1>3, <1>4, <1>5, <1>6, <1>7, <1>8, <1>9, <1>10, <1>11

LEMMA InitTailInv == Init => TailInv
<1> SUFFICES ASSUME Init PROVE TailInv
  OBVIOUS
<1>1. \A o \in Offset : ~(o < OLDEST) /\ ~(o < Unknown)
  BY LogletAssumption DEF Offset, OLDEST, Unknown
<1>2. QuorumBelow(stored, OLDEST) /\ \A n \in Node : /\ HeldBelow(stored, n, OLDEST)
                                                      /\ HeldBelow(stored, n, Unknown)
  BY <1>1 DEF QuorumBelow, HeldBelow
<1>3. /\ ServersHold /\ SequencerTailDurable /\ ServerTailsDurable /\ ClientTailsDurable
      /\ StoreTailsDurable /\ RepairsDurable
  BY <1>2 DEF Init, ServersHold, SequencerTailDurable, ServerTailsDurable, ClientTailsDurable,
              StoreTailsDurable, RepairsDurable
<1>4. RepliesHold /\ AppendersHold /\ DoneDurable
  BY DEF Init, RepliesHold, AppendersHold, DoneDurable
<1>5. FindersHold /\ CopiesHold
  BY <1>2 DEF Init, FindersHold, CopiesHold
<1> QED
  BY <1>3, <1>4, <1>5, InitTypeOK DEF TailInv

-----------------------------------------------------------------------------
(* The steps of the sequencer's process *)

\* an appender that ends drops its evidence; only "done" has to be justified
LEMMA EndAppenderTails ==
    ASSUME TailInv, stored' = stored, NEW o \in Offset, NEW state \in Ended, EndAppender(o, state),
           state = "done" => QuorumBelow(stored, o + 1)
    PROVE  RepliesHold' /\ AppendersHold' /\ DoneDurable'
<1> USE DEF TailInv, EndAppender
<1>1. RepliesHold'
  BY Frame
<1>2. AppendersHold'
  <2>1. \A p \in Offset, n \in Node : attr'[p][n] = "committed" => attr[p][n] = "committed"
    BY DEF TypeOK
  <2> QED
    BY <2>1 DEF AppendersHold
<1>3. DoneDurable'
  BY DEF DoneDurable, TypeOK
<1> QED
  BY <1>1, <1>2, <1>3

LEMMA StoredTails ==
    ASSUME TailInv, TypeOK', NEW r \in replies, Stored(r)
    PROVE  TailInv'
<1> USE DEF TailInv
<1> DEFINE o == r.offset
           n == r.node
<1>1. o \in Offset /\ n \in Node
  BY DEF TypeOK, StoreReply
<1>2. /\ stored' = stored
      /\ UNCHANGED <<localTail, serverTail, clientTail, stores, startOffset, known, copies>>
  BY DEF Stored, serverVars, clientVars, repairVars
<1>3. CASE EndAppender(o, "sealed") /\ UNCHANGED seqTail
  BY <1>1, <1>2, <1>3, Frame, EndAppenderTails DEF Ended
<1>4. CASE WriteQuorumReached(r) /\ seqTail' = Later(seqTail, o + 1) /\ EndAppender(o, "done")
  <2> DEFINE S == WithAttr(o, "committed") \cup {n}
  <2>1. S \in SUBSET Node /\ IsWriteQuorum(S)
    BY <1>1, <1>4 DEF WithAttr, WriteQuorumReached
  <2>2. \A k \in S : HeldBelow(stored, k, o + 1)
    BY <1>1, <1>4 DEF WithAttr, WriteQuorumReached, RepliesHold, AppendersHold
  <2>3. QuorumBelow(stored, o + 1)
    <3> HIDE DEF S
    <3> QED
      BY <2>1, <2>2, QuorumHolds
  <2>4. SequencerTailDurable'
    <3>1. QuorumBelow(stored, Later(seqTail, o + 1))
      BY <1>1, <2>3, LaterDurable, OffsetIsTail DEF SequencerTailDurable, TypeOK
    <3> QED
      BY <1>2, <1>4, <3>1 DEF SequencerTailDurable
  <2>5. RepliesHold' /\ AppendersHold' /\ DoneDurable'
    BY <1>1, <1>2, <1>4, <2>3, EndAppenderTails DEF Ended
  <2> QED
    BY <1>2, <2>4, <2>5, Frame
<1>5. CASE /\ attr' = [attr EXCEPT ![o][n] = IF r.status = "Ok" THEN "committed"
                                               ELSE IF r.status = "Sealed" THEN "sealed" ELSE @]
           /\ replies' \subseteq replies
           /\ UNCHANGED <<seqTail, appender>>
  <2>1. ASSUME NEW p \in Offset, NEW k \in Node, attr'[p][k] = "committed"
        PROVE  HeldBelow(stored, k, p + 1)
    <3>1. CASE p = o /\ k = n /\ r.status = "Ok"
      BY <3>1 DEF RepliesHold
    <3>2. CASE ~(p = o /\ k = n /\ r.status = "Ok")
      <4>1. attr[p][k] = "committed"
        BY <1>1, <1>5, <2>1, <3>2 DEF TypeOK
      <4> QED
        BY <4>1 DEF AppendersHold
    <3> QED
      BY <3>1, <3>2
  <2>2. AppendersHold'
    BY <1>2, <2>1 DEF AppendersHold
  <2> QED
    BY <1>2, <1>5, <2>2, Frame
<1> QED
  BY <1>3, <1>4, <1>5 DEF Stored

LEMMA SequencerTails ==
    ASSUME TailInv, TypeOK', SequencerNext
    PROVE  TailInv'
<1> USE Frame
<1> USE DEF TailInv, serverVars, netVars, seqVars, watchVars, appVars, clientVars, repairVars
<1>1. CASE EnqueueBatch
  <2>1. DoneDurable'
    BY <1>1 DEF EnqueueBatch, DoneDurable, TypeOK
  <2> QED
    BY <1>1, <2>1 DEF EnqueueBatch
<1>2. CASE OffsetsExhausted
  BY <1>2 DEF OffsetsExhausted
<1>3. CASE Drain
  BY <1>3 DEF Drain
<1>4. CASE Drained
  BY <1>4 DEF Drained
<1>5. ASSUME NEW n \in Node, SequencerSealsNode(n) \/ CheckSeal(n) PROVE TailInv'
  <2> DEFINE g == Later(serverTail[n], seqTail)
  <2>1. /\ stored' = stored /\ serverTail' = [serverTail EXCEPT ![n] = g] /\ seqTail' = g
        /\ UNCHANGED <<localTail, stores, replies, appender, attr, clientTail, known, startOffset, copies>>
    BY <1>5 DEF SequencerSealsNode, CheckSeal
  <2>2. QuorumBelow(stored, g)
    BY LaterDurable DEF SequencerTailDurable, ServerTailsDurable, TypeOK
  <2> HIDE DEF g
  <2>3. SequencerTailDurable'
    BY <2>1, <2>2 DEF SequencerTailDurable
  <2>4. ServerTailsDurable'
    BY <2>1, <2>2 DEF ServerTailsDurable, TypeOK
  <2> QED
    BY <2>1, <2>3, <2>4
<1>7. ASSUME NEW o \in Offset, SendWave(o) PROVE TailInv'
  <2>1. DoneDurable'
    BY <1>7 DEF SendWave, DoneDurable, TypeOK
  <2> QED
    BY <1>7, <2>1 DEF SendWave
<1>8. ASSUME NEW o \in Offset, WriteUnavailable(o) PROVE TailInv'
  BY <1>8, EndAppenderTails DEF WriteUnavailable, Ended
<1>9. ASSUME NEW o \in Offset, EndWave(o) PROVE TailInv'
  <2>1. CASE EndAppender(o, "sealed")
    BY <1>9, <2>1, EndAppenderTails DEF EndWave, Ended
  <2>2. CASE appender' = [appender EXCEPT ![o] = "ready"] /\ UNCHANGED <<attr, replies>>
    <3>1. stored' = stored
      BY <1>9 DEF EndWave
    <3>2. DoneDurable'
      BY <2>2, <3>1 DEF DoneDurable, TypeOK
    <3> QED
      BY <1>9, <2>2, <3>2 DEF EndWave
  <2> QED
    BY <1>9, <2>1, <2>2 DEF EndWave
<1>10. ASSUME NEW o \in Offset, Cancel(o) PROVE TailInv'
  BY <1>10, EndAppenderTails DEF Cancel, Ended
<1>11. ASSUME NEW o \in Offset, NEW n \in Node, SendStore(o, n) PROVE TailInv'
  <2>1. StoreTailsDurable'
    BY <1>11 DEF SendStore, StoreTailsDurable, SequencerTailDurable
  <2> QED
    BY <1>11, <2>1 DEF SendStore
<1>12. ASSUME NEW o \in Offset, NEW n \in Node, SkipSealedNode(o, n) PROVE TailInv'
  <2>1. CASE EndAppender(o, "sealed")
    BY <1>12, <2>1, EndAppenderTails DEF SkipSealedNode, Ended
  <2>2. CASE attr' = [attr EXCEPT ![o][n] = "sealed"] /\ UNCHANGED <<appender, replies>>
    <3>1. stored' = stored
      BY <1>12 DEF SkipSealedNode
    <3>2. \A p \in Offset, k \in Node : attr'[p][k] = "committed" => attr[p][k] = "committed"
      BY <2>2 DEF TypeOK
    <3>3. AppendersHold'
      BY <3>1, <3>2 DEF AppendersHold
    <3> QED
      BY <1>12, <2>2, <3>3 DEF SkipSealedNode
  <2> QED
    BY <1>12, <2>1, <2>2 DEF SkipSealedNode
<1>13. ASSUME NEW o \in Offset, NEW n \in Node, StoreTimeout(o, n) PROVE TailInv'
  BY <1>13 DEF StoreTimeout
<1> QED
  BY <1>1, <1>2, <1>3, <1>4, <1>5, <1>7, <1>8, <1>9, <1>10, <1>11, <1>12, <1>13, StoredTails
     DEF SequencerNext

-----------------------------------------------------------------------------
(* The steps of the log servers *)

LEMMA ProcessStoreTails ==
    ASSUME TailInv, TypeOK', NEW m \in stores, ProcessStore(m)
    PROVE  TailInv'
<1> USE DEF TailInv
<1> DEFINE n == m.node
           o == m.offset
           g == Later(serverTail[n], m.tail)
<1>1. o \in Offset /\ n \in Node /\ m.tail \in TailOffset /\ m.from \in Client \cup {Sequencer}
  BY DEF TypeOK, StoreRequest
<1>2. /\ stores' = stores \ {m} /\ serverTail' = [serverTail EXCEPT ![n] = g]
      /\ UNCHANGED <<seqTail, appender, attr, clientTail, known, startOffset>>
  BY DEF ProcessStore, seqVars, appVars, clientVars
<1>3. \/ UNCHANGED <<stored, localTail>>
      \/ /\ o <= Later(localTail[n], g)
         /\ stored' = [stored EXCEPT ![n] = @ \cup {o}]
         /\ localTail' = [localTail EXCEPT ![n] = Later(@, o + 1)]
  BY DEF ProcessStore
\* the reply is worth what RepliesHold and CopiesHold say of it
<1>4. \E status \in {"Ok", "Sealed", "OutOfBounds"}, t \in TailOffset :
         /\ Reply(m, status, t)
         /\ status = "Ok" => \/ m.from = Sequencer /\ localTail[n] > o
                             \/ m.from = Sequencer /\ g > o
                             \/ /\ o <= Later(localTail[n], g)
                                /\ stored' = [stored EXCEPT ![n] = @ \cup {o}]
  BY <1>1, LaterIsTail, OffsetIsTail DEF ProcessStore, TypeOK
<1>5. localTail[n] \in TailOffset /\ g \in TailOffset /\ Later(localTail[n], g) \in TailOffset
  BY <1>1, LaterIsTail DEF TypeOK
<1>6. o \in Nat /\ localTail[n] \in Nat /\ g \in Nat /\ Later(localTail[n], g) \in Nat
  BY <1>1, <1>5, OffsetIsNat
<1>7. QuorumBelow(stored, g)
  BY <1>1, LaterDurable DEF ServerTailsDurable, StoreTailsDurable, TypeOK
<1>8. HeldBelow(stored, n, Later(localTail[n], g))
  BY <1>1, <1>5, <1>7, LaterIsTail, DurableIsHeld DEF ServersHold
<1>9. Grows(stored, stored')
  <2>1. Grows(stored, stored)
    BY DEF Grows
  <2>2. stored \in Records
    BY DEF Records, TypeOK
  <2>3. Grows(stored, [stored EXCEPT ![n] = @ \cup {o}])
    BY <1>1, <2>2, OneMoreRecord
  <2> QED
    BY <1>3, <2>1, <2>3
<1> HIDE DEF n, o, g
<1>10. /\ \A t : QuorumBelow(stored, t) => QuorumBelow(stored', t)
       /\ \A k \in Node : \A t : HeldBelow(stored, k, t) => HeldBelow(stored', k, t)
  BY <1>9, MoreRecords
\* the new record completes what the node held below it
<1>11. ASSUME o <= Later(localTail[n], g), stored' = [stored EXCEPT ![n] = @ \cup {o}]
       PROVE  HeldBelow(stored', n, o + 1)
  <2>1. HeldBelow(stored', n, o)
    BY <1>1, <1>5, <1>6, <1>8, <1>10, <1>11, SmallerTail
  <2>2. o \in stored'[n]
    BY <1>1, <1>11, OneMoreRecord DEF Records, TypeOK
  <2> QED
    BY <1>1, <2>1, <2>2, HeldAndStored
<1>12. ServersHold'
  <2>1. CASE UNCHANGED <<stored, localTail>>
    BY <2>1 DEF ServersHold
  <2>2. CASE /\ o <= Later(localTail[n], g)
             /\ stored' = [stored EXCEPT ![n] = @ \cup {o}]
             /\ localTail' = [localTail EXCEPT ![n] = Later(@, o + 1)]
    <3>1. HeldBelow(stored', n, localTail'[n])
      <4>1. localTail'[n] = localTail[n] \/ localTail'[n] = o + 1
        BY <1>1, <2>2, LaterIsTail, OffsetIsTail DEF TypeOK
      <4>2. HeldBelow(stored', n, localTail[n])
        BY <1>1, <1>10 DEF ServersHold
      <4>3. HeldBelow(stored', n, o + 1)
        BY <1>11, <2>2
      <4> QED
        BY <4>1, <4>2, <4>3
    <3>2. \A p \in stored'[n] : p < localTail'[n]
      <4>1. localTail'[n] >= localTail[n] /\ localTail'[n] >= o + 1 /\ localTail'[n] \in TailOffset
        BY <1>1, <2>2, LaterIsTail, OffsetIsTail DEF TypeOK
      <4>2. stored'[n] = stored[n] \cup {o}
        BY <1>1, <2>2, OneMoreRecord DEF Records, TypeOK
      <4>3. \A p \in stored[n] : p \in Nat /\ p < localTail[n]
        BY <1>1, OffsetIsNat DEF ServersHold, TypeOK
      <4> QED
        BY <1>6, <4>1, <4>2, <4>3, OffsetIsNat
    <3>3. \A k \in Node \ {n} : stored'[k] = stored[k] /\ localTail'[k] = localTail[k]
      BY <2>2 DEF TypeOK
    <3> QED
      BY <1>10, <3>1, <3>2, <3>3 DEF ServersHold
  <2> QED
    BY <1>3, <2>1, <2>2
<1>13. ServerTailsDurable'
  BY <1>2, <1>7, <1>10 DEF ServerTailsDurable, TypeOK
<1>14. SequencerTailDurable' /\ ClientTailsDurable' /\ StoreTailsDurable' /\ RepairsDurable'
  BY <1>2, <1>10 DEF SequencerTailDurable, ClientTailsDurable, StoreTailsDurable, RepairsDurable
<1>15. AppendersHold' /\ DoneDurable' /\ FindersHold'
  BY <1>2, <1>10 DEF AppendersHold, DoneDurable, FindersHold
<1>16. PICK status \in {"Ok", "Sealed", "OutOfBounds"}, t \in TailOffset :
         /\ Reply(m, status, t)
         /\ status = "Ok" => \/ m.from = Sequencer /\ localTail[n] > o
                             \/ m.from = Sequencer /\ g > o
                             \/ /\ o <= Later(localTail[n], g)
                                /\ stored' = [stored EXCEPT ![n] = @ \cup {o}]
  BY <1>4
<1>17. RepliesHold'
  <2>1. status = "Ok" => HeldBelow(stored', n, o + 1)
    <3>1. ASSUME localTail[n] > o PROVE HeldBelow(stored', n, o + 1)
      <4>1. o + 1 \in Nat /\ o + 1 <= localTail[n]
        BY <1>6, <3>1
      <4>2. HeldBelow(stored, n, o + 1)
        BY <1>1, <1>6, <4>1, SmallerTail DEF ServersHold
      <4> QED
        BY <1>1, <1>10, <4>2
    <3>2. ASSUME g > o PROVE HeldBelow(stored', n, o + 1)
      <4>1. o + 1 \in Nat /\ o + 1 <= g
        BY <1>6, <3>2
      <4>2. HeldBelow(stored, n, o + 1)
        BY <1>1, <1>6, <1>7, <4>1, SmallerTail, DurableIsHeld
      <4> QED
        BY <1>1, <1>10, <4>2
    <3> QED
      BY <1>11, <1>16, <3>1, <3>2
  <2>2. replies' \subseteq replies \cup {[offset |-> o, node |-> n, status |-> status, tail |-> t]}
    BY <1>16 DEF Reply, n, o
  <2>3. \A r \in replies : r.node \in Node
    BY DEF TypeOK, StoreReply
  <2> QED
    BY <1>10, <2>1, <2>2, <2>3 DEF RepliesHold
<1>18. CopiesHold'
  <2>1. \A c \in Client, p \in Offset : \A k \in copies[c][p] : p \in stored'[k]
    BY <1>9 DEF CopiesHold, Grows, TypeOK
  <2>2. CASE UNCHANGED copies
    BY <2>1, <2>2 DEF CopiesHold
  <2>3. CASE /\ m.from \in Client /\ o \in stored'[n]
             /\ copies' = [copies EXCEPT ![m.from][o] = @ \cup {n}]
    <3>1. \A c \in Client, p \in Offset :
             copies'[c][p] = IF c = m.from /\ p = o THEN copies[c][p] \cup {n} ELSE copies[c][p]
      BY <1>1, <2>3 DEF TypeOK
    <3> QED
      BY <2>1, <2>3, <3>1 DEF CopiesHold
  <2>4. status = "Ok" /\ m.from # Sequencer => o \in stored'[n]
    BY <1>1, <1>16 DEF TypeOK
  <2> QED
    BY <1>1, <1>16, <2>2, <2>3, <2>4 DEF Reply, n, o
<1> QED
  BY <1>12, <1>13, <1>14, <1>15, <1>17, <1>18

LEMMA ServerTails ==
    ASSUME TailInv, TypeOK', ServerNext
    PROVE  TailInv'
<1> USE DEF TailInv, netVars, seqVars, watchVars, appVars, clientVars, repairVars
<1>1. ASSUME NEW n \in Node, ProcessSeal(n) PROVE TailInv'
  BY <1>1, Frame DEF ProcessSeal
<1>2. ASSUME NEW n \in Node, Restart(n) PROVE TailInv'
  <2>1. stored' = stored
    BY <1>2 DEF Restart
  <2>2. PICK t \in OLDEST .. serverTail[n] : serverTail' = [serverTail EXCEPT ![n] = t]
    BY <1>2 DEF Restart
  <2>3. serverTail[n] \in Nat /\ t \in Nat /\ t <= serverTail[n]
    BY LogletAssumption DEF TypeOK, TailOffset, OLDEST
  <2>4. QuorumBelow(stored, t)
    BY <2>3, SmallerTail DEF ServerTailsDurable
  <2>5. ServerTailsDurable'
    BY <2>1, <2>2, <2>4 DEF ServerTailsDurable, TypeOK
  <2> QED
    BY <1>2, <2>5, Frame DEF Restart
<1> QED
  BY <1>1, <1>2, ProcessStoreTails DEF ServerNext

-----------------------------------------------------------------------------
(* The steps of the remote loglets *)

LEMMA NothingBelowOldest ==
    \A st : /\ QuorumBelow(st, OLDEST)
            /\ \A n \in Node : HeldBelow(st, n, Unknown)
<1>1. \A o \in Offset : ~(o < OLDEST) /\ ~(o < Unknown)
  BY LogletAssumption DEF Offset, OLDEST, Unknown
<1> QED
  BY <1>1 DEF QuorumBelow, HeldBelow

\* a finder that forgets has nothing left to justify
LEMMA ForgetTails ==
    ASSUME TailInv, stored' = stored, NEW c \in Client, Forget(c)
    PROVE  RepairsDurable' /\ FindersHold' /\ CopiesHold'
<1> USE DEF TailInv, Forget
<1>1. RepairsDurable'
  BY NothingBelowOldest DEF RepairsDurable, TypeOK
<1>2. FindersHold'
  <2>1. \A d \in Client, n \in Node : known'[d][n] = known[d][n] \/ known'[d][n] = Unknown
    BY DEF TypeOK
  <2> QED
    BY <2>1, NothingBelowOldest DEF FindersHold
<1>3. CopiesHold'
  <2>1. \A d \in Client, o \in Offset : copies'[d][o] \subseteq copies[d][o]
    BY DEF TypeOK
  <2> QED
    BY <2>1 DEF CopiesHold
<1> QED
  BY <1>1, <1>2, <1>3

LEMMA AnswerTails ==
    ASSUME TailInv, TypeOK', NEW c \in Client, NEW t \in TailOffset, NEW b \in BOOLEAN, Answer(c, t, b),
           QuorumBelow(stored, t)
    PROVE  TailInv'
<1> USE DEF TailInv, serverVars, netVars, seqVars, appVars
<1>1. /\ stored' = stored /\ Forget(c)
      /\ UNCHANGED <<localTail, seqTail, serverTail, stores, replies, appender, attr>>
      /\ clientTail' = [clientTail EXCEPT ![c] = Later(@, t)]
  BY DEF Answer
<1>2. QuorumBelow(stored, Later(clientTail[c], t))
  BY LaterDurable DEF ClientTailsDurable, TypeOK
<1>3. ClientTailsDurable'
  BY <1>1, <1>2 DEF ClientTailsDurable, TypeOK
<1>4. RepairsDurable' /\ FindersHold' /\ CopiesHold'
  BY <1>1, ForgetTails
<1> QED
  BY <1>1, <1>3, <1>4, Frame

\* tails that are exchanged with a log server stay durable on both sides
LEMMA ExchangeTails ==
    ASSUME TailInv, stored' = stored, NEW c \in Client, NEW n \in Node, Exchange(c, n)
    PROVE  ServerTailsDurable' /\ ClientTailsDurable'
<1> USE DEF TailInv
<1> DEFINE g == Later(serverTail[n], clientTail[c])
<1>1. QuorumBelow(stored, g)
  BY LaterDurable DEF ServerTailsDurable, ClientTailsDurable, TypeOK
<1>2. serverTail' = [serverTail EXCEPT ![n] = g] /\ clientTail' = [clientTail EXCEPT ![c] = g]
  BY DEF Exchange
<1> HIDE DEF g
<1> QED
  BY <1>1, <1>2 DEF ServerTailsDurable, ClientTailsDurable, TypeOK

\* a write quorum of the nodes that a finder heard has everything below t
LEMMA ReachedIsDurable ==
    ASSUME TailInv, NEW c \in Client, NEW t \in TailOffset, IsWriteQuorum(Reached(c, t))
    PROVE  QuorumBelow(stored, t)
<1>1. Reached(c, t) \in SUBSET Node
  BY DEF Reached, Nodes
<1>2. ASSUME NEW n \in Reached(c, t) PROVE HeldBelow(stored, n, t)
  <2>1. n \in Node /\ known[c][n] \in TailOffset \cup {Unknown} /\ t <= known[c][n]
    BY OffsetIsNat DEF Reached, Nodes, TailInv, TypeOK, Unknown
  <2>2. known[c][n] \in Nat /\ t \in Nat
    BY <2>1, OffsetIsNat DEF Unknown
  <2>3. HeldBelow(stored, n, known[c][n])
    BY <2>1 DEF TailInv, FindersHold
  <2> QED
    BY <2>1, <2>2, <2>3, SmallerTail
<1> QED
  BY <1>1, <1>2, QuorumHolds

\* copies of a record on a write quorum make everything up to it durable: a
\* node that has the record holds everything below its local tail
LEMMA CopiesAreDurable ==
    ASSUME TailInv, NEW o \in Offset, NEW S \in SUBSET Node, IsWriteQuorum(S),
           \A n \in S : o \in stored[n]
    PROVE  QuorumBelow(stored, o + 1)
<1>1. ASSUME NEW n \in S PROVE HeldBelow(stored, n, o + 1)
  <2>1. HeldBelow(stored, n, localTail[n]) /\ o < localTail[n] /\ localTail[n] \in TailOffset
    BY DEF TailInv, ServersHold, TypeOK
  <2>2. o + 1 <= localTail[n] /\ localTail[n] \in Nat /\ o + 1 \in Nat
    BY <2>1, OffsetIsNat
  <2> QED
    BY <2>1, <2>2, SmallerTail
<1> QED
  BY <1>1, QuorumHolds

LEMMA GetDigestTails ==
    ASSUME TailInv, TypeOK', NEW c \in Client, NEW n \in Node, GetDigest(c, n)
    PROVE  TailInv'
<1> USE DEF TailInv
<1> DEFINE g == Later(startOffset[c], Later(serverTail[n], clientTail[c]))
           found == [o \in Offset |-> IF o \in stored[n] /\ o >= g /\ o < targetTail[c]
                                      THEN copies[c][o] \cup {n} ELSE copies[c][o]]
           durable == {o \in Offset : o >= g /\ o < targetTail[c] /\ IsWriteQuorum(found[o])}
<1>1. /\ stored' = stored /\ Exchange(c, n)
      /\ UNCHANGED <<localTail, seqTail, stores, replies, appender, attr, known>>
      /\ copies' = [copies EXCEPT ![c] = found]
  BY DEF GetDigest, netVars, seqVars, appVars
<1>2. \A o \in Offset : found[o] \subseteq Node /\ \A k \in found[o] : o \in stored[k]
  BY DEF CopiesHold, TypeOK
<1>3. CopiesHold'
  <2>1. \A d \in Client : copies'[d] = IF d = c THEN found ELSE copies[d]
    BY <1>1 DEF TypeOK
  <2> HIDE DEF found
  <2> QED
    BY <1>1, <1>2, <2>1 DEF CopiesHold
<1>4. QuorumBelow(stored, g)
  BY LaterDurable, LaterIsTail DEF ServerTailsDurable, ClientTailsDurable, RepairsDurable, TypeOK
<1>5. \/ startOffset' = [startOffset EXCEPT ![c] = g]
      \/ \E o \in durable : startOffset' = [startOffset EXCEPT ![c] = o + 1]
  BY DEF GetDigest, IsMaximum
<1>6. \A o \in durable : o \in Offset /\ IsWriteQuorum(found[o])
  OBVIOUS
<1> HIDE DEF g, found, durable
<1>7. \A o \in durable : QuorumBelow(stored, o + 1)
  BY <1>2, <1>6, CopiesAreDurable
<1>8. RepairsDurable'
  <2>1. PICK s : QuorumBelow(stored, s) /\ startOffset' = [startOffset EXCEPT ![c] = s]
    BY <1>4, <1>5, <1>7
  <2> QED
    BY <1>1, <2>1 DEF RepairsDurable, TypeOK
<1> QED
  BY <1>1, <1>3, <1>8, ExchangeTails, Frame

LEMMA ClientTails ==
    ASSUME TailInv, TypeOK', NEW c \in Client, ClientNext(c)
    PROVE  TailInv'
<1> USE Frame
<1> USE DEF TailInv, serverVars, netVars, seqVars, watchVars, appVars, clientVars, repairVars
<1>1. CASE FindTail(c)
  BY <1>1 DEF FindTail
<1>2. CASE AskSequencer(c)
  BY <1>2, AnswerTails DEF AskSequencer, SequencerTailDurable, TypeOK
<1>3. CASE Appended(c)
  <2>1. QuorumBelow(stored, Later(clientTail[c], seqTail))
    BY LaterDurable DEF ClientTailsDurable, SequencerTailDurable, TypeOK
  <2>2. ClientTailsDurable'
    BY <1>3, <2>1 DEF Appended, ClientTailsDurable, TypeOK
  <2> QED
    BY <1>3, <2>2 DEF Appended
<1>4. CASE RestartFindTail(c) \/ AssistSeal(c) \/ FindTailFails(c)
  <2>1. stored' = stored /\ Forget(c)
        /\ UNCHANGED <<localTail, seqTail, serverTail, clientTail, stores, replies, appender, attr>>
    BY <1>4 DEF RestartFindTail, AssistSeal, FindTailFails
  <2> QED
    BY <2>1, ForgetTails
<1>5. CASE FoundSealed(c)
  <2>1. PICK t \in TailOffset : /\ t = clientTail[c] \/ IsWriteQuorum(Reached(c, t))
                                /\ Answer(c, t, TRUE)
    BY <1>5 DEF FoundSealed
  <2>2. QuorumBelow(stored, t)
    BY <2>1, ReachedIsDurable DEF ClientTailsDurable
  <2> QED
    BY <2>1, <2>2, AnswerTails
<1>6. CASE FoundOpen(c)
  <2>1. PICK t \in TailOffset : /\ t = clientTail[c] \/ IsWriteQuorum(Reached(c, t))
                                /\ Answer(c, t, FALSE)
    BY <1>6 DEF FoundOpen, TypeOK
  <2>2. QuorumBelow(stored, t)
    BY <2>1, ReachedIsDurable DEF ClientTailsDurable
  <2> QED
    BY <2>1, <2>2, AnswerTails
<1>7. CASE WaitForTail(c)
  BY <1>7 DEF WaitForTail
<1>8. CASE NodeGotSealed(c)
  BY <1>8 DEF NodeGotSealed
<1>9. CASE StartRepair(c)
  <2>1. stored' = stored
    BY <1>9 DEF StartRepair
  <2>2. RepairsDurable'
    BY <1>9, <2>1 DEF StartRepair, RepairsDurable, ClientTailsDurable, TypeOK
  <2>3. \A d \in Client, n \in Node : known'[d][n] = known[d][n] \/ known'[d][n] = Unknown
    BY <1>9 DEF StartRepair, TypeOK
  <2>4. FindersHold'
    BY <2>1, <2>3, NothingBelowOldest DEF FindersHold
  <2> QED
    BY <1>9, <2>2, <2>4 DEF StartRepair
<1>10. CASE RecordRepaired(c)
  <2> DEFINE o == startOffset[c]
  <2>1. o \in Offset
    BY <1>10, OffsetIsTail DEF RecordRepaired, TypeOK
  <2>2. copies[c][o] \in SUBSET Node /\ \A n \in copies[c][o] : o \in stored[n]
    BY <2>1 DEF CopiesHold, TypeOK
  <2>3. QuorumBelow(stored, o + 1)
    BY <1>10, <2>1, <2>2, CopiesAreDurable DEF RecordRepaired
  <2>4. RepairsDurable'
    BY <1>10, <2>3 DEF RecordRepaired, RepairsDurable, TypeOK
  <2> QED
    BY <1>10, <2>4 DEF RecordRepaired
<1>11. CASE RepairCompleted(c)
  <2>1. QuorumBelow(stored, targetTail[c])
    BY <1>11, SmallerTail, OffsetIsNat DEF RepairCompleted, RepairsDurable, TypeOK
  <2> QED
    BY <1>11, <2>1, AnswerTails DEF RepairCompleted, TypeOK
<1>12. ASSUME NEW n \in Node, Read(c, n) \/ SealNode(c, n) PROVE TailInv'
  BY <1>12, ExchangeTails DEF Read, SealNode
<1>13. ASSUME NEW n \in Node, GetLogletInfo(c, n) PROVE TailInv'
  <2>1. stored' = stored
    BY <1>13 DEF GetLogletInfo
  <2>2. \A d \in Client, k \in Node :
           known'[d][k] = IF d = c /\ k = n THEN Later(known[d][k], localTail[k]) ELSE known[d][k]
    BY <1>13 DEF GetLogletInfo, TypeOK
  <2>3. HeldBelow(stored, n, Later(known[c][n], localTail[n]))
    BY DEF Later, FindersHold, ServersHold
  <2>4. FindersHold'
    BY <2>1, <2>2, <2>3 DEF FindersHold
  <2> QED
    BY <1>13, <2>4, ExchangeTails DEF GetLogletInfo
<1>14. ASSUME NEW n \in Node, SendRepairStore(c, n) PROVE TailInv'
  <2>1. StoreTailsDurable'
    BY <1>14 DEF SendRepairStore, StoreTailsDurable, RepairsDurable
  <2> QED
    BY <1>14, <2>1 DEF SendRepairStore
<1> QED
  BY <1>1, <1>2, <1>3, <1>4, <1>5, <1>6, <1>7, <1>8, <1>9, <1>10, <1>11, <1>12, <1>13, <1>14,
     GetDigestTails DEF ClientNext

-----------------------------------------------------------------------------

LEMMA TailInvInvariant == Spec => []TailInv
<1>1. TailInv /\ [Next]_vars /\ TypeOK' => TailInv'
  <2> SUFFICES ASSUME TailInv, [Next]_vars, TypeOK' PROVE TailInv'
    OBVIOUS
  <2>1. CASE SequencerNext
    BY <2>1, SequencerTails
  <2>2. CASE ServerNext
    BY <2>2, ServerTails
  <2>3. ASSUME NEW c \in Client, ClientNext(c) PROVE TailInv'
    BY <2>3, ClientTails
  <2>4. CASE UNCHANGED vars
    BY <2>4, Frame DEF vars, serverVars, netVars, seqVars, appVars, clientVars, repairVars, TailInv
  <2> QED
    BY <2>1, <2>2, <2>3, <2>4 DEF Next
<1> QED
  BY InitTailInv, TypeCorrect, <1>1, PTL DEF Spec

(* TailsCommitted: in every reachable state of the loglet, whatever its     *)
(* quorums, every record below a tail that a sequencer, a log server, a     *)
(* remote loglet, an acknowledged append or a store in flight vouches for   *)
(* is on a write quorum.                                                    *)
THEOREM TailsCommitted == Spec => []KnownTailsCommitted
<1>1. TailInv => KnownTailsCommitted
  <2>1. \A t : QuorumBelow(stored, t) => CommittedUpTo(t)
    BY DEF QuorumBelow, Durable, CommittedUpTo, Committed
  <2> QED
    BY <2>1 DEF TailInv, KnownTailsCommitted, SequencerTailDurable, ServerTailsDurable,
                ClientTailsDurable, StoreTailsDurable, DoneDurable, Acked
<1> QED
  BY TailInvInvariant, <1>1, PTL

-----------------------------------------------------------------------------
(***************************************************************************)
(* What a finder may rely on, for every node set and every two families    *)
(* of quorums that intersect: the answers that come from the log servers   *)
(* are current (DirectAnswerIsCurrent), and a repair finds the records it  *)
(* looks for (RepairFindsRecords).                                         *)
(***************************************************************************)
-----------------------------------------------------------------------------
(* Every step moves records and local tails forward, and the tails that a  *)
(* remote loglet knows.                                                    *)

Forward ==
    /\ Grows(stored, stored')
    /\ \A n \in Node : localTail[n] <= localTail'[n]
    /\ \A c \in Client : clientTail[c] <= clientTail'[c]

LEMMA LaterBounds ==
    ASSUME NEW a \in Nat, NEW b \in Nat
    PROVE  /\ Later(a, b) \in Nat /\ a <= Later(a, b) /\ b <= Later(a, b)
           /\ \A x \in Nat : x < Later(a, b) <=> x < a \/ x < b
           /\ \A x \in Nat : x <= Later(a, b) <=> x <= a \/ x <= b
  BY DEF Later

LEMMA TailsAreNat ==
    ASSUME TypeOK
    PROVE  /\ seqTail \in Nat
           /\ \A n \in Node : localTail[n] \in Nat /\ serverTail[n] \in Nat
           /\ \A c \in Client : /\ clientTail[c] \in Nat /\ targetTail[c] \in Nat
                                /\ startOffset[c] \in Nat /\ floor[c] \in Nat
                                /\ \A n \in Node : known[c][n] \in Nat
<1>1. /\ seqTail \in TailOffset
      /\ \A n \in Node : localTail[n] \in TailOffset /\ serverTail[n] \in TailOffset
      /\ \A c \in Client : /\ clientTail[c] \in TailOffset /\ targetTail[c] \in TailOffset
                           /\ startOffset[c] \in TailOffset /\ floor[c] \in TailOffset
                           /\ \A n \in Node : known[c][n] \in TailOffset \cup {0}
  BY DEF TypeOK, Unknown
<1> QED
  BY <1>1, OffsetIsNat

LEMMA ForwardKept ==
    ASSUME TypeOK, stored' = stored, localTail' = localTail,
           \A c \in Client : clientTail[c] <= clientTail'[c]
    PROVE  Forward
  BY TailsAreNat DEF Forward, Grows

\* a tail that is merged into that of one remote loglet
LEMMA ClientTailMoves ==
    ASSUME TypeOK, NEW c \in Client, NEW t \in Nat,
           clientTail' = [clientTail EXCEPT ![c] = t], clientTail[c] <= t
    PROVE  \A d \in Client : clientTail[d] <= clientTail'[d]
  BY TailsAreNat DEF TypeOK

LEMMA ServersForward ==
    ASSUME TypeOK, NEW m \in stores, ProcessStore(m)
    PROVE  Forward
<1> DEFINE n == m.node
           o == m.offset
<1>1. o \in Offset /\ n \in Node /\ clientTail' = clientTail
  BY DEF TypeOK, StoreRequest, ProcessStore, clientVars
<1>2. CASE UNCHANGED <<stored, localTail>>
  BY <1>1, <1>2, TailsAreNat DEF Forward, Grows
<1>3. CASE /\ stored' = [stored EXCEPT ![n] = @ \cup {o}]
           /\ localTail' = [localTail EXCEPT ![n] = Later(@, o + 1)]
  <2>1. Grows(stored, stored')
    BY <1>1, <1>3 DEF TypeOK, Grows
  <2>2. \A k \in Node : localTail[k] <= localTail'[k]
    <3>1. localTail[n] \in Nat /\ o + 1 \in Nat
      BY <1>1, TailsAreNat, OffsetIsNat
    <3>2. localTail[n] <= Later(localTail[n], o + 1)
      BY <3>1, LaterBounds
    <3> QED
      BY <1>1, <1>3, <3>2, TailsAreNat DEF TypeOK
  <2> QED
    BY <1>1, <2>1, <2>2, TailsAreNat DEF Forward
<1> QED
  BY <1>2, <1>3 DEF ProcessStore

LEMMA ExchangeForward ==
    ASSUME TypeOK, NEW c \in Client, NEW n \in Node, Exchange(c, n), stored' = stored,
           localTail' = localTail
    PROVE  Forward
<1>1. clientTail' = [clientTail EXCEPT ![c] = Later(serverTail[n], clientTail[c])]
  BY DEF Exchange
<1>2. /\ Later(serverTail[n], clientTail[c]) \in Nat
      /\ clientTail[c] <= Later(serverTail[n], clientTail[c])
  BY TailsAreNat, LaterBounds
<1> QED
  BY <1>1, <1>2, ClientTailMoves, ForwardKept

LEMMA AnswerForward ==
    ASSUME TypeOK, NEW c \in Client, NEW t \in Nat, stored' = stored, localTail' = localTail,
           clientTail' = [clientTail EXCEPT ![c] = Later(@, t)]
    PROVE  Forward
<1>1. /\ Later(clientTail[c], t) \in Nat
      /\ clientTail[c] <= Later(clientTail[c], t)
  BY TailsAreNat, LaterBounds
<1> QED
  BY <1>1, ClientTailMoves, ForwardKept

LEMMA SequencerForward ==
    ASSUME TypeOK, SequencerNext
    PROVE  Forward /\ UNCHANGED clientVars /\ UNCHANGED targetTail
<1>1. stored' = stored /\ localTail' = localTail /\ UNCHANGED clientVars /\ UNCHANGED targetTail
  BY DEF SequencerNext, EnqueueBatch, OffsetsExhausted, Drain, Drained, SequencerSealsNode, CheckSeal,
         SendWave, WriteUnavailable, EndWave, Cancel, SendStore, SkipSealedNode, StoreTimeout, Stored,
         serverVars, repairVars
<1> QED
  BY <1>1, ForwardKept, TailsAreNat DEF clientVars

LEMMA ServerForward ==
    ASSUME TypeOK, ServerNext
    PROVE  Forward /\ UNCHANGED clientVars /\ UNCHANGED targetTail
<1>1. ASSUME NEW m \in stores, ProcessStore(m)
      PROVE  Forward /\ UNCHANGED clientVars /\ UNCHANGED targetTail
  BY <1>1, ServersForward DEF ProcessStore
<1>2. ASSUME NEW n \in Node, ProcessSeal(n) \/ Restart(n)
      PROVE  Forward /\ UNCHANGED clientVars /\ UNCHANGED targetTail
  <2>1. stored' = stored /\ localTail' = localTail /\ UNCHANGED clientVars /\ UNCHANGED targetTail
    BY <1>2 DEF ProcessSeal, Restart, repairVars
  <2> QED
    BY <2>1, ForwardKept, TailsAreNat DEF clientVars
<1> QED
  BY <1>1, <1>2 DEF ServerNext

-----------------------------------------------------------------------------
(* The inductive invariant, finder by finder.                              *)

\* whoever is known to be sealed was heard; an idle process has heard nobody
HearsFirst(c) ==
    /\ knownSealed[c] \subseteq Nodes(c)
    /\ phase[c] = "idle" => \A n \in Node : known[c][n] = Unknown

\* the target of a repair has a record at every offset below it
TargetExists(c) ==
    phase[c] = "repair" =>
        \A o \in Offset : o < targetTail[c] => \E n \in Node : o \in stored[n]

\* a write quorum has reached the tails that were reported when the call
\* began, and a node of it that was heard has said so
FloorHeld(c) ==
    \/ floor[c] = OLDEST
    \/ \E Q \in WriteQuorums : \A n \in Q :
          /\ floor[c] <= localTail[n]
          /\ known[c][n] # Unknown => floor[c] <= known[c][n]

\* the tail that a call waits for, or repairs, is not below them
TargetCurrent(c) ==
    phase[c] \in {"wait", "repair"} => floor[c] <= targetTail[c]

FinderOK(c) == HearsFirst(c) /\ TargetExists(c) /\ FloorHeld(c) /\ TargetCurrent(c)

FinderInv == \A c \in Client : FinderOK(c)

\* no node of a write quorum is missing in Node
LEMMA QuorumNodes ==
    /\ \A Q \in WriteQuorums : Q \subseteq Node
    /\ \A F \in FMajorities : F \subseteq Node
  BY LogletAssumption

LEMMA StillReached ==
    ASSUME TypeOK, TypeOK', Forward, NEW Q \in WriteQuorums, NEW t \in Nat,
           \A n \in Q : t <= localTail[n]
    PROVE  \A n \in Q : t <= localTail'[n]
<1> SUFFICES ASSUME NEW n \in Q PROVE t <= localTail'[n]
  OBVIOUS
<1>1. n \in Node
  BY QuorumNodes
<1>2. localTail[n] \in Nat /\ localTail'[n] \in TailOffset
  BY <1>1, TailsAreNat DEF TypeOK
<1>3. t <= localTail[n] /\ localTail[n] <= localTail'[n]
  BY <1>1 DEF Forward
<1> QED
  BY <1>2, <1>3, OffsetIsNat

\* what a finder relies on is not disturbed by the steps of others
LEMMA FinderKept ==
    ASSUME TypeOK, TypeOK', Forward, NEW c \in Client, FinderOK(c),
           known'[c] = known[c], knownSealed'[c] = knownSealed[c], phase'[c] = phase[c],
           floor'[c] = floor[c], targetTail'[c] = targetTail[c]
    PROVE  FinderOK(c)'
<1>1. HearsFirst(c)'
  BY DEF FinderOK, HearsFirst, Nodes
<1>2. TargetExists(c)'
  BY DEF FinderOK, TargetExists, Forward, Grows
<1>3. FloorHeld(c)'
  <2>1. CASE floor[c] = OLDEST
    BY <2>1 DEF FloorHeld
  <2>2. ASSUME NEW Q \in WriteQuorums,
               \A n \in Q : /\ floor[c] <= localTail[n]
                            /\ known[c][n] # Unknown => floor[c] <= known[c][n]
        PROVE  FloorHeld(c)'
    <3>1. \A n \in Q : floor[c] <= localTail'[n]
      BY <2>2, StillReached, TailsAreNat
    <3> QED
      <4>1. \A n \in Q : /\ floor[c] <= localTail'[n]
                         /\ known[c][n] # Unknown => floor[c] <= known[c][n]
        BY <2>2, <3>1
      <4> QED
        BY <4>1 DEF FloorHeld
  <2> QED
    BY <2>1, <2>2 DEF FinderOK, FloorHeld
<1>4. TargetCurrent(c)'
  BY DEF FinderOK, TargetCurrent
<1> QED
  BY <1>1, <1>2, <1>3, <1>4 DEF FinderOK

\* a finder that forgets, because it returns or starts over
LEMMA ForgottenFinder ==
    ASSUME TypeOK, TypeOK', Forward, NEW c \in Client, FinderOK(c), Forget(c),
           phase'[c] \in {"idle", "gather", "sealing"}, floor'[c] \in {floor[c], OLDEST}
    PROVE  FinderOK(c)'
<1>0. knownSealed'[c] = {} /\ \A n \in Node : known'[c][n] = Unknown
  BY DEF Forget, TypeOK
<1>1. HearsFirst(c)' /\ TargetExists(c)' /\ TargetCurrent(c)'
  BY <1>0 DEF HearsFirst, TargetExists, TargetCurrent
<1>3. FloorHeld(c)'
  <2>1. CASE floor'[c] = OLDEST
    BY <2>1 DEF FloorHeld
  <2>2. ASSUME floor'[c] = floor[c], NEW Q \in WriteQuorums, \A n \in Q : floor[c] <= localTail[n]
        PROVE  FloorHeld(c)'
    <3>1. \A n \in Q : floor[c] <= localTail'[n]
      BY <2>2, StillReached, TailsAreNat
    <3> QED
      BY <1>0, <2>2, <3>1, QuorumNodes DEF FloorHeld
  <2> QED
    BY <2>1, <2>2 DEF FinderOK, FloorHeld
<1> QED
  BY <1>1, <1>3 DEF FinderOK

\* the answers of an f-majority of nodes are at least what was reported before
LEMMA FMajorityCurrent ==
    ASSUME TypeOK, NEW c \in Client, FinderOK(c), NEW S \in SUBSET Nodes(c), IsFMajority(S),
           NEW t \in TailOffset, IsMaxLocalTail(c, t, S)
    PROVE  floor[c] <= t
<1>1. CASE floor[c] = OLDEST
  BY <1>1, LogletAssumption DEF TailOffset, OLDEST
<1>2. ASSUME NEW Q \in WriteQuorums, \A n \in Q : known[c][n] # Unknown => floor[c] <= known[c][n]
      PROVE  floor[c] <= t
  <2>1. PICK F \in FMajorities : F \subseteq S
    BY DEF IsFMajority
  <2>2. PICK n \in Q : n \in S
    BY <2>1, QuorumAssumption
  <2>3. n \in Node /\ known[c][n] # Unknown
    BY <2>2 DEF Nodes
  <2>4. floor[c] <= known[c][n] /\ known[c][n] <= t
    BY <1>2, <2>2, <2>3 DEF IsMaxLocalTail, IsMaximum
  <2> QED
    BY <2>3, <2>4, TailsAreNat, OffsetIsNat
<1> QED
  BY <1>1, <1>2 DEF FinderOK, FloorHeld

\* a tail that is durable was reached by a write quorum: by those nodes that
\* have the last record below it
LEMMA DurableIsReached ==
    ASSUME TailInv, NEW t \in TailOffset, QuorumBelow(stored, t)
    PROVE  t = OLDEST \/ \E Q \in WriteQuorums : \A n \in Q : t <= localTail[n]
<1> SUFFICES ASSUME t # OLDEST
             PROVE  \E Q \in WriteQuorums : \A n \in Q : t <= localTail[n]
  OBVIOUS
<1>1. t - 1 \in Offset /\ t - 1 < t /\ t \in Nat
  BY LogletAssumption DEF TailOffset, Offset, OLDEST
<1>2. PICK Q \in WriteQuorums : \A n \in Q : t - 1 \in stored[n]
  BY <1>1 DEF QuorumBelow, Durable, IsWriteQuorum
<1>3. ASSUME NEW n \in Q PROVE t <= localTail[n]
  <2>1. n \in Node /\ t - 1 < localTail[n]
    BY <1>2, QuorumNodes DEF TailInv, ServersHold
  <2>2. localTail[n] \in Nat
    BY <2>1, TailsAreNat DEF TailInv
  <2> QED
    BY <1>1, <2>1, <2>2
<1> QED
  BY <1>3

-----------------------------------------------------------------------------
(* The steps of the remote loglets *)

\* the steps of a finder leave what the others know alone
OthersKept(c) ==
    \A d \in Client \ {c} :
        /\ known'[d] = known[d] /\ knownSealed'[d] = knownSealed[d] /\ phase'[d] = phase[d]
        /\ floor'[d] = floor[d] /\ targetTail'[d] = targetTail[d]

LEMMA OneFinderMoves ==
    ASSUME TypeOK, TypeOK', Forward, FinderInv, NEW c \in Client, OthersKept(c), FinderOK(c)'
    PROVE  FinderInv'
<1>1. ASSUME NEW d \in Client \ {c} PROVE FinderOK(d)'
  BY FinderKept DEF FinderInv, OthersKept
<1> QED
  BY <1>1 DEF FinderInv

LEMMA AnswerFinder ==
    ASSUME TypeOK, TypeOK', FinderInv, NEW c \in Client, NEW t \in TailOffset, NEW b, Answer(c, t, b)
    PROVE  FinderInv'
<1>1. /\ Forget(c) /\ stored' = stored /\ localTail' = localTail
      /\ clientTail' = [clientTail EXCEPT ![c] = Later(@, t)]
      /\ phase' = [phase EXCEPT ![c] = "idle"] /\ floor' = [floor EXCEPT ![c] = OLDEST]
  BY DEF Answer, serverVars
<1>2. Forward
  BY <1>1, AnswerForward, OffsetIsNat
<1>3. OthersKept(c)
  BY <1>1 DEF OthersKept, Forget, TypeOK
<1>4. phase'[c] = "idle" /\ floor'[c] = OLDEST
  BY <1>1 DEF TypeOK
<1>5. FinderOK(c)'
  BY <1>1, <1>2, <1>4, ForgottenFinder DEF FinderInv
<1> QED
  BY <1>2, <1>3, <1>5, OneFinderMoves

\* a process starts to look for the tail, above all tails reported so far
LEMMA FindTailFinder ==
    ASSUME TailInv, TypeOK', FinderInv, NEW c \in Client, FindTail(c)
    PROVE  FinderInv'
<1> USE DEF TailInv
<1>1. /\ stored' = stored /\ localTail' = localTail /\ clientTail' = clientTail
      /\ UNCHANGED <<known, knownSealed, targetTail>>
      /\ phase[c] = "idle" /\ phase' = [phase EXCEPT ![c] = "gather"]
  BY DEF FindTail, serverVars, repairVars
<1>2. PICK t \in TailOffset : IsMaximum(t, ReportedTails) /\ floor' = [floor EXCEPT ![c] = t]
  BY DEF FindTail
<1>3. Forward
  BY <1>1, ForwardKept, TailsAreNat
<1>4. OthersKept(c)
  BY <1>1, <1>2 DEF OthersKept, TypeOK
<1>5. QuorumBelow(stored, t)
  BY <1>2 DEF IsMaximum, ReportedTails, SequencerTailDurable, ClientTailsDurable
<1>6. floor'[c] = t /\ phase'[c] = "gather"
  BY <1>1, <1>2 DEF TypeOK
<1>7. \A n \in Node : known[c][n] = Unknown
  BY <1>1 DEF FinderInv, FinderOK, HearsFirst
<1>8. HearsFirst(c)' /\ TargetExists(c)' /\ TargetCurrent(c)'
  BY <1>1, <1>6 DEF FinderInv, FinderOK, HearsFirst, TargetExists, TargetCurrent, Nodes
<1>9. FloorHeld(c)'
  <2>1. CASE t = OLDEST
    BY <1>6, <2>1 DEF FloorHeld
  <2>2. ASSUME NEW Q \in WriteQuorums, \A n \in Q : t <= localTail[n] PROVE FloorHeld(c)'
    <3>1. \A n \in Q : t <= localTail'[n] /\ known'[c][n] = Unknown
      BY <1>1, <1>7, <2>2, QuorumNodes
    <3> QED
      BY <1>6, <3>1 DEF FloorHeld
  <2> QED
    BY <1>5, <2>1, <2>2, DurableIsReached
<1>10. FinderOK(c)'
  BY <1>8, <1>9 DEF FinderOK
<1> QED
  BY <1>3, <1>4, <1>10, OneFinderMoves

\* a node is heard
LEMMA GetLogletInfoFinder ==
    ASSUME TypeOK, TypeOK', FinderInv, NEW c \in Client, NEW n \in Node, GetLogletInfo(c, n)
    PROVE  FinderInv'
<1>1. /\ stored' = stored /\ localTail' = localTail /\ Exchange(c, n)
      /\ UNCHANGED <<phase, floor, targetTail>> /\ phase[c] # "idle"
  BY DEF GetLogletInfo, repairVars
<1>2. PICK v : v = Later(known[c][n], localTail[n]) /\ known' = [known EXCEPT ![c][n] = v]
  BY DEF GetLogletInfo
<1>3. knownSealed'[c] \subseteq knownSealed[c] \cup {n}
  BY DEF GetLogletInfo, TypeOK
<1>4. Forward
  BY <1>1, ExchangeForward
<1>5. OthersKept(c)
  BY <1>1, <1>2 DEF OthersKept, TypeOK, GetLogletInfo
<1>6. /\ v \in Nat /\ localTail[n] <= v /\ v # Unknown
  <2>1. known[c][n] \in Nat /\ localTail[n] \in Nat /\ localTail[n] >= 1
    BY TailsAreNat, LogletAssumption DEF TypeOK, TailOffset, OLDEST
  <2>2. v \in Nat /\ localTail[n] <= v
    BY <1>2, <2>1, LaterBounds
  <2> QED
    BY <2>1, <2>2 DEF Unknown
<1>7. known'[c][n] = v /\ \A k \in Node \ {n} : known'[c][k] = known[c][k]
  BY <1>2 DEF TypeOK
<1>8. HearsFirst(c)'
  BY <1>1, <1>3, <1>6, <1>7 DEF FinderInv, FinderOK, HearsFirst, Nodes
<1>9. TargetExists(c)' /\ TargetCurrent(c)'
  BY <1>1 DEF FinderInv, FinderOK, TargetExists, TargetCurrent
<1>10. FloorHeld(c)'
  <2>1. CASE floor[c] = OLDEST
    BY <1>1, <2>1 DEF FloorHeld
  <2>2. ASSUME NEW Q \in WriteQuorums,
               \A k \in Q : /\ floor[c] <= localTail[k]
                            /\ known[c][k] # Unknown => floor[c] <= known[c][k]
        PROVE  FloorHeld(c)'
    <3>1. n \in Q => floor[c] <= v
      <4> SUFFICES ASSUME n \in Q PROVE floor[c] <= v
        OBVIOUS
      <4>1. floor[c] <= localTail[n]
        BY <2>2
      <4> QED
        BY <1>6, <4>1, TailsAreNat
    <3>2. \A k \in Q : /\ floor'[c] <= localTail'[k]
                       /\ known'[c][k] # Unknown => floor'[c] <= known'[c][k]
      BY <1>1, <1>7, <2>2, <3>1, QuorumNodes
    <3> QED
      BY <3>2 DEF FloorHeld
  <2> QED
    BY <2>1, <2>2 DEF FinderInv, FinderOK, FloorHeld
<1>11. FinderOK(c)'
  BY <1>8, <1>9, <1>10 DEF FinderOK
<1> QED
  BY <1>4, <1>5, <1>11, OneFinderMoves

\* a call that waits for the highest local tail of the nodes that it heard
LEMMA WaitForTailFinder ==
    ASSUME TypeOK, TypeOK', FinderInv, NEW c \in Client, WaitForTail(c)
    PROVE  FinderInv'
<1>1. /\ stored' = stored /\ localTail' = localTail /\ clientTail' = clientTail
      /\ UNCHANGED <<known, knownSealed, floor>>
      /\ phase' = [phase EXCEPT ![c] = "wait"] /\ IsFMajority(Nodes(c))
  BY DEF WaitForTail, serverVars, NoneSealed
<1>2. PICK t \in TailOffset : /\ IsMaxLocalTail(c, t, Nodes(c))
                              /\ targetTail' = [targetTail EXCEPT ![c] = t]
  BY DEF WaitForTail
<1>3. Forward
  BY <1>1, ForwardKept, TailsAreNat
<1>4. OthersKept(c)
  BY <1>1, <1>2 DEF OthersKept, TypeOK
<1>5. floor[c] <= t
  BY <1>1, <1>2, FMajorityCurrent DEF FinderInv
<1>6. targetTail'[c] = t /\ phase'[c] = "wait"
  BY <1>1, <1>2 DEF TypeOK
<1>7. FinderOK(c)'
  BY <1>1, <1>5, <1>6
     DEF FinderInv, FinderOK, HearsFirst, TargetExists, TargetCurrent, FloorHeld, Nodes
<1> QED
  BY <1>3, <1>4, <1>7, OneFinderMoves

\* the target of a repair is the local tail of a node that was heard: it holds
\* every record below, or a write quorum does, and no write quorum is empty
LEMMA StartRepairFinder ==
    ASSUME TailInv, TypeOK', FinderInv, NEW c \in Client, StartRepair(c)
    PROVE  FinderInv'
<1> USE DEF TailInv
<1>1. /\ stored' = stored /\ localTail' = localTail /\ clientTail' = clientTail /\ floor' = floor
      /\ known' = [known EXCEPT ![c] = [n \in Node |-> Unknown]]
      /\ knownSealed' = [knownSealed EXCEPT ![c] = {}]
      /\ phase' = [phase EXCEPT ![c] = "repair"] /\ IsFMajority(knownSealed[c])
  BY DEF StartRepair, serverVars, SealedFMajority
<1>2. PICK t \in TailOffset : /\ IsMaxLocalTail(c, t, knownSealed[c])
                              /\ targetTail' = [targetTail EXCEPT ![c] = t]
  BY DEF StartRepair
<1>3. Forward
  BY <1>1, ForwardKept, TailsAreNat
<1>4. OthersKept(c)
  BY <1>1, <1>2 DEF OthersKept, TypeOK
<1>5. floor[c] <= t
  BY <1>1, <1>2, FMajorityCurrent DEF FinderInv, FinderOK, HearsFirst
<1>6. ASSUME NEW o \in Offset, o < t PROVE \E n \in Node : o \in stored[n]
  <2>1. PICK n \in Node : known[c][n] = t
    BY <1>2 DEF IsMaxLocalTail, IsMaximum, TypeOK
  <2>2. o \in stored[n] \/ Durable(stored, o)
    BY <1>6, <2>1 DEF FindersHold, HeldBelow
  <2>3. \A Q \in WriteQuorums : Q # {}
    BY <1>1, QuorumAssumption DEF IsFMajority
  <2> QED
    BY <2>2, <2>3 DEF Durable, IsWriteQuorum
<1>7. /\ targetTail'[c] = t /\ phase'[c] = "repair" /\ knownSealed'[c] = {}
      /\ \A n \in Node : known'[c][n] = Unknown
  BY <1>1, <1>2 DEF TypeOK
<1>8. HearsFirst(c)' /\ TargetExists(c)' /\ TargetCurrent(c)'
  BY <1>1, <1>5, <1>6, <1>7 DEF HearsFirst, TargetExists, TargetCurrent
<1>9. FloorHeld(c)'
  BY <1>1, <1>7, QuorumNodes DEF FinderInv, FinderOK, FloorHeld
<1>10. FinderOK(c)'
  BY <1>8, <1>9 DEF FinderOK
<1> QED
  BY <1>3, <1>4, <1>10, OneFinderMoves

LEMMA NodeGotSealedFinder ==
    ASSUME TypeOK, TypeOK', FinderInv, NEW c \in Client, NodeGotSealed(c)
    PROVE  FinderInv'
<1>1. /\ stored' = stored /\ localTail' = localTail /\ clientTail' = clientTail
      /\ UNCHANGED <<known, knownSealed, floor>>
      /\ phase' = [phase EXCEPT ![c] = "gather"]
      /\ targetTail' = [targetTail EXCEPT ![c] = OLDEST]
  BY DEF NodeGotSealed, serverVars
<1>2. Forward
  BY <1>1, ForwardKept, TailsAreNat
<1>3. OthersKept(c)
  BY <1>1 DEF OthersKept, TypeOK
<1>4. phase'[c] = "gather"
  BY <1>1 DEF TypeOK
<1>5. FinderOK(c)'
  BY <1>1, <1>4 DEF FinderInv, FinderOK, HearsFirst, TargetExists, TargetCurrent, FloorHeld, Nodes
<1> QED
  BY <1>2, <1>3, <1>5, OneFinderMoves

\* the find-tail procedure starts over, seals nodes or gives up
LEMMA StartOverFinder ==
    ASSUME TypeOK, TypeOK', FinderInv, NEW c \in Client,
           RestartFindTail(c) \/ AssistSeal(c) \/ FindTailFails(c)
    PROVE  FinderInv'
<1>1. /\ stored' = stored /\ localTail' = localTail /\ clientTail' = clientTail /\ Forget(c)
      /\ \E p \in {"idle", "gather", "sealing"} : phase' = [phase EXCEPT ![c] = p]
      /\ floor' \in {floor, [floor EXCEPT ![c] = OLDEST]}
  BY DEF RestartFindTail, AssistSeal, FindTailFails, serverVars
<1>2. Forward
  BY <1>1, ForwardKept, TailsAreNat
<1>3. OthersKept(c)
  BY <1>1 DEF OthersKept, Forget, TypeOK
<1>4. phase'[c] \in {"idle", "gather", "sealing"} /\ floor'[c] \in {floor[c], OLDEST}
  BY <1>1 DEF TypeOK
<1>5. FinderOK(c)'
  BY <1>1, <1>2, <1>4, ForgottenFinder DEF FinderInv
<1> QED
  BY <1>2, <1>3, <1>5, OneFinderMoves

\* a step that changes nothing but tails and records
LEMMA NoFinderMoves ==
    ASSUME TypeOK, TypeOK', Forward, FinderInv,
           UNCHANGED <<known, knownSealed, phase, floor, targetTail>>
    PROVE  FinderInv'
  BY FinderKept DEF FinderInv

LEMMA ClientFinder ==
    ASSUME TailInv, TypeOK', FinderInv, NEW c \in Client, ClientNext(c)
    PROVE  FinderInv'
<1> USE DEF TailInv
<1>1. CASE AskSequencer(c)
  BY <1>1, AnswerFinder DEF AskSequencer, TypeOK
<1>2. CASE FoundSealed(c)
  BY <1>2, AnswerFinder DEF FoundSealed
<1>3. CASE FoundOpen(c)
  BY <1>3, AnswerFinder DEF FoundOpen, TypeOK
<1>4. CASE RepairCompleted(c)
  BY <1>4, AnswerFinder DEF RepairCompleted, TypeOK
<1>5. CASE Appended(c)
  <2>1. /\ stored' = stored /\ localTail' = localTail
        /\ UNCHANGED <<known, knownSealed, phase, floor, targetTail>>
        /\ clientTail' = [clientTail EXCEPT ![c] = Later(@, seqTail)]
    BY <1>5 DEF Appended, serverVars, repairVars
  <2>2. Forward
    BY <2>1, AnswerForward, TailsAreNat
  <2> QED
    BY <2>1, <2>2, NoFinderMoves
<1>6. CASE RecordRepaired(c)
  <2>1. /\ stored' = stored /\ localTail' = localTail /\ clientTail' = clientTail
        /\ UNCHANGED <<known, knownSealed, phase, floor, targetTail>>
    BY <1>6 DEF RecordRepaired, serverVars, clientVars
  <2> QED
    BY <2>1, ForwardKept, TailsAreNat, NoFinderMoves
<1>7. ASSUME NEW n \in Node, Read(c, n) \/ SealNode(c, n) \/ GetDigest(c, n) PROVE FinderInv'
  <2>1. /\ stored' = stored /\ localTail' = localTail /\ Exchange(c, n)
        /\ UNCHANGED <<known, knownSealed, phase, floor, targetTail>>
    BY <1>7 DEF Read, SealNode, GetDigest, repairVars
  <2> QED
    BY <2>1, ExchangeForward, NoFinderMoves
<1>8. ASSUME NEW n \in Node, SendRepairStore(c, n) PROVE FinderInv'
  <2>1. /\ stored' = stored /\ localTail' = localTail /\ clientTail' = clientTail
        /\ UNCHANGED <<known, knownSealed, phase, floor, targetTail>>
    BY <1>8 DEF SendRepairStore, serverVars, clientVars, repairVars
  <2> QED
    BY <2>1, ForwardKept, TailsAreNat, NoFinderMoves
<1> QED
  BY <1>1, <1>2, <1>3, <1>4, <1>5, <1>6, <1>7, <1>8, FindTailFinder, GetLogletInfoFinder,
     WaitForTailFinder, NodeGotSealedFinder, StartRepairFinder, StartOverFinder DEF ClientNext

LEMMA InitFinderInv == Init => FinderInv
<1> SUFFICES ASSUME Init, NEW c \in Client PROVE FinderOK(c)
  BY DEF FinderInv
<1> QED
  BY DEF Init, FinderOK, HearsFirst, TargetExists, FloorHeld, TargetCurrent

LEMMA FinderInvariant == Spec => []FinderInv
<1>1. FinderInv /\ TailInv /\ TypeOK' /\ [Next]_vars => FinderInv'
  <2> SUFFICES ASSUME FinderInv, TailInv, TypeOK', [Next]_vars PROVE FinderInv'
    OBVIOUS
  <2> USE DEF TailInv
  <2>1. CASE SequencerNext
    BY <2>1, SequencerForward, NoFinderMoves DEF clientVars
  <2>2. CASE ServerNext
    BY <2>2, ServerForward, NoFinderMoves DEF clientVars
  <2>3. ASSUME NEW c \in Client, ClientNext(c) PROVE FinderInv'
    BY <2>3, ClientFinder
  <2>4. CASE UNCHANGED vars
    <3>1. /\ stored' = stored /\ localTail' = localTail /\ clientTail' = clientTail
          /\ UNCHANGED <<known, knownSealed, phase, floor, targetTail>>
      BY <2>4 DEF vars, serverVars, clientVars, repairVars
    <3> QED
      BY <3>1, ForwardKept, TailsAreNat, NoFinderMoves
  <2> QED
    BY <2>1, <2>2, <2>3, <2>4 DEF Next
<1> QED
  BY InitFinderInv, TypeCorrect, TailInvInvariant, <1>1, PTL DEF Spec

(* RepairsAlwaysFindRecords: a tail repair never looks for a record that no *)
(* node has: the local tail of a sealed node, which RepairTail takes for    *)
(* its target, has no holes but those that a write quorum fills, also when  *)
(* log servers forget their known global tail.                              *)
THEOREM RepairsAlwaysFindRecords == Spec => []RepairFindsRecords
<1>1. FinderInv => RepairFindsRecords
  BY DEF FinderInv, FinderOK, TargetExists, RepairFindsRecords
<1> QED
  BY FinderInvariant, <1>1, PTL

LEMMA AnswerIsCurrent ==
    ASSUME TypeOK, NEW c \in Client, NEW t \in TailOffset, NEW u \in TailOffset, NEW b \in BOOLEAN,
           Answer(c, u, b), floor[c] <= t, u = t \/ (u = clientTail[c] /\ t <= u)
    PROVE  clientTail'[c] >= floor[c]
<1>1. clientTail'[c] = Later(clientTail[c], u)
  BY DEF Answer, TypeOK
<1>2. u \in Nat /\ t \in Nat /\ floor[c] \in Nat /\ clientTail[c] \in Nat
  BY TailsAreNat, OffsetIsNat
<1>3. u <= Later(clientTail[c], u) /\ Later(clientTail[c], u) \in Nat
  BY <1>2, LaterBounds
<1> QED
  BY <1>1, <1>2, <1>3

LEMMA CurrentAnswer ==
    ASSUME TypeOK, FinderInv, NEW c \in Client,
           FoundSealed(c) \/ FoundOpen(c) \/ RepairCompleted(c)
    PROVE  clientTail'[c] >= floor[c]
<1>1. CASE FoundSealed(c)
  <2>1. PICK t \in TailOffset : IsMaxLocalTail(c, t, knownSealed[c]) /\ Answer(c, t, TRUE)
    BY <1>1 DEF FoundSealed
  <2>2. floor[c] <= t
    BY <1>1, <2>1, FMajorityCurrent
       DEF FoundSealed, SealedFMajority, FinderInv, FinderOK, HearsFirst
  <2> QED
    BY AnswerIsCurrent, <2>1, <2>2
<1>2. CASE FoundOpen(c)
  <2>1. PICK t \in TailOffset :
           /\ IF phase[c] = "wait" THEN t = targetTail[c] ELSE IsMaxLocalTail(c, t, Nodes(c))
           /\ \/ IsWriteQuorum(Reached(c, t)) /\ Answer(c, t, FALSE)
              \/ clientTail[c] >= t /\ Answer(c, clientTail[c], FALSE)
    BY <1>2 DEF FoundOpen
  <2>2. floor[c] <= t
    <3>1. CASE phase[c] = "wait"
      BY <2>1, <3>1 DEF FinderInv, FinderOK, TargetCurrent
    <3>2. CASE phase[c] # "wait"
      BY <1>2, <2>1, <3>2, FMajorityCurrent DEF FoundOpen, NoneSealed, FinderInv
    <3> QED
      BY <3>1, <3>2
  <2>3. clientTail[c] \in TailOffset /\ (clientTail[c] >= t => t <= clientTail[c])
    BY TailsAreNat, OffsetIsNat DEF TypeOK
  <2> QED
    BY AnswerIsCurrent, <2>1, <2>2, <2>3
<1>3. CASE RepairCompleted(c)
  <2>1. floor[c] <= targetTail[c] /\ targetTail[c] \in TailOffset /\ Answer(c, targetTail[c], TRUE)
    BY <1>3 DEF RepairCompleted, FinderInv, FinderOK, TargetCurrent, TypeOK
  <2> QED
    BY AnswerIsCurrent, <2>1
<1> QED
  BY <1>1, <1>2, <1>3

(* DirectAnswersAreCurrent: what find_tail returns from the answers of the  *)
(* log servers is at least every tail that the sequencer or any remote      *)
(* loglet would have reported when the call began, with or without a seal,  *)
(* a wait or a repair in between, and whatever log servers forget.          *)
THEOREM DirectAnswersAreCurrent == Spec => DirectAnswerIsCurrent
<1> DEFINE Current(c) ==
      FoundSealed(c) \/ FoundOpen(c) \/ RepairCompleted(c) => clientTail'[c] >= floor[c]
<1>1. TypeOK /\ FinderInv /\ [Next]_vars => [\A c \in Client : Current(c)]_vars
  BY CurrentAnswer
<1> QED
  BY FinderInvariant, TypeCorrect, <1>1, PTL DEF Spec, DirectAnswerIsCurrent

-----------------------------------------------------------------------------
(***************************************************************************)
(* A sealed tail covers every append that is or will be acknowledged       *)
(* (SealedTailCoversAcks), as long as no log server forgets its known      *)
(* global tail: for every node set and every two families of quorums that  *)
(* intersect.                                                              *)
(***************************************************************************)
-----------------------------------------------------------------------------
(* The inductive invariant.  First, what an appender keeps: it has store   *)
(* tasks, answers and replies only between its start and its end, and an   *)
(* append that is done is below the sequencer's known global tail.         *)

AppenderOK(o) ==
    /\ o >= nextOffset => appender[o] = "none"
    /\ \A n \in Node : /\ task[o][n] # "none" => appender[o] = "wave"
                       /\ attr[o][n] # "none" => appender[o] \in {"ready", "wave"}
    /\ \A r \in replies : r.offset = o => appender[o] \in {"ready", "wave"}
    /\ appender[o] = "done" => o < seqTail

AppenderInv == \A o \in Offset : AppenderOK(o)

\* node n has promised the appender of o that the record is or will be durable
Promised(o, n) ==
    \/ attr[o][n] = "committed"
    \/ \E r \in replies : r.offset = o /\ r.node = n /\ r.status = "Ok"

\* whoever asks node n hears of a tail above o, and whoever took n for sealed has
Seen(o, n) ==
    /\ o < Later(localTail[n], serverTail[n])
    /\ \A c \in Client : n \in knownSealed[c] => o < Later(clientTail[c], known[c][n])

PromisesSeen == \A o \in Offset, n \in Node : Promised(o, n) => Seen(o, n)

AcksSeen ==
    \A o \in Offset : appender[o] = "done" => \E Q \in WriteQuorums : \A n \in Q : Seen(o, n)

\* t is above all acknowledged appends, and some f-majority, which is sealed,
\* has promised nothing from there on
Covers(t) ==
    /\ \A o \in Offset : appender[o] = "done" => o < t
    /\ \E F \in FMajorities : \A n \in F :
          sealed[n] /\ \A o \in Offset : Promised(o, n) => o < t

SealsKnown == \A c \in Client : \A n \in knownSealed[c] : sealed[n]

DrainSealed == sealPhase # "open" => IsFMajority({n \in Node : sealed[n]})

ReportsCover == \A t \in sealedTails : Covers(t)

RepairsCover ==
    \A c \in Client : phase[c] = "repair" => Covers(Later(clientTail[c], targetTail[c]))

SequencerReports == sealPhase = "sealed" => seqTail \in sealedTails

SealInv ==
    /\ AppenderInv
    /\ SealsKnown /\ DrainSealed
    /\ PromisesSeen /\ AcksSeen
    /\ ReportsCover /\ RepairsCover /\ SequencerReports

-----------------------------------------------------------------------------
(* What every step respects.  Seals stay, a sealed node promises nothing   *)
(* new, a new promise is seen, an append is acknowledged on the promises   *)
(* of a write quorum, and nothing that was seen is unseen.                 *)

SealsStay == \A n \in Node : sealed[n] => sealed'[n]

PromisesJustified ==
    \A o \in Offset, n \in Node :
        Promised(o, n)' => Promised(o, n) \/ (~sealed[n] /\ Seen(o, n)')

AcksJustified ==
    \A o \in Offset : appender'[o] = "done" =>
        appender[o] = "done" \/ \E Q \in WriteQuorums : \A n \in Q : Promised(o, n)

SeenStays == \A o \in Offset, n \in Node : Seen(o, n) => Seen(o, n)'

Respectful == SealsStay /\ PromisesJustified /\ AcksJustified /\ SeenStays

\* a cover that all promises are below: it remains one
LEMMA CoverStays ==
    ASSUME Respectful, NEW t \in Nat, NEW u \in Nat, t <= u, Covers(t)
    PROVE  Covers(u)'
<1>0. \A o \in Offset : o < t => o < u
  BY OffsetIsNat
<1>1. PICK F \in FMajorities : \A n \in F : sealed[n] /\ \A o \in Offset : Promised(o, n) => o < t
  BY DEF Covers
<1>2. F \subseteq Node
  BY QuorumNodes
<1>3. ASSUME NEW o \in Offset, appender'[o] = "done" PROVE o < t
  <2>1. CASE appender[o] = "done"
    BY <2>1 DEF Covers
  <2>2. ASSUME NEW Q \in WriteQuorums, \A n \in Q : Promised(o, n) PROVE o < t
    <3>1. PICK n \in Q : n \in F
      BY QuorumAssumption
    <3> QED
      BY <1>1, <2>2, <3>1
  <2> QED
    BY <1>3, <2>1, <2>2 DEF Respectful, AcksJustified
<1>4. ASSUME NEW n \in F PROVE sealed'[n] /\ \A o \in Offset : Promised(o, n)' => o < t
  BY <1>1, <1>2 DEF Respectful, SealsStay, PromisesJustified
<1> QED
  BY <1>0, <1>3, <1>4 DEF Covers

LEMMA PromisesStaySeen ==
    ASSUME Respectful, PromisesSeen, AcksSeen
    PROVE  PromisesSeen' /\ AcksSeen'
<1>1. PromisesSeen'
  BY DEF Respectful, PromisesJustified, SeenStays, PromisesSeen
<1>2. ASSUME NEW o \in Offset, appender'[o] = "done"
      PROVE  \E Q \in WriteQuorums : \A n \in Q : Seen(o, n)'
  <2>1. PICK Q \in WriteQuorums : \A n \in Q : Seen(o, n)
    BY <1>2, QuorumNodes DEF Respectful, AcksJustified, PromisesSeen, AcksSeen
  <2> QED
    BY <2>1, QuorumNodes DEF Respectful, SeenStays
<1> QED
  BY <1>1, <1>2 DEF AcksSeen

\* the highest local tail of a sealed f-majority covers, together with what the
\* finder knew: a write quorum that acknowledged an append meets the f-majority
LEMMA FMajorityCovers ==
    ASSUME TypeOK, SealInv, NEW c \in Client, NEW t \in TailOffset,
           IsFMajority(knownSealed[c]), IsMaxLocalTail(c, t, knownSealed[c])
    PROVE  Covers(Later(clientTail[c], t))
<1>1. PICK F \in FMajorities : F \subseteq knownSealed[c]
  BY DEF IsFMajority
<1>2. ASSUME NEW n \in F, NEW o \in Offset, Seen(o, n) PROVE o < Later(clientTail[c], t)
  <2>1. n \in Node /\ o < Later(clientTail[c], known[c][n]) /\ known[c][n] <= t
    BY <1>1, <1>2, QuorumNodes DEF Seen, IsMaxLocalTail, IsMaximum
  <2>2. o \in Nat /\ clientTail[c] \in Nat /\ known[c][n] \in Nat /\ t \in Nat
    BY <2>1, TailsAreNat, OffsetIsNat
  <2>3. o < clientTail[c] \/ o < known[c][n]
    BY <2>1, <2>2, LaterBounds
  <2>4. o < clientTail[c] \/ o < t
    BY <2>1, <2>2, <2>3
  <2> QED
    BY <2>2, <2>4, LaterBounds
<1>3. ASSUME NEW o \in Offset, appender[o] = "done" PROVE o < Later(clientTail[c], t)
  <2>1. PICK Q \in WriteQuorums : \A n \in Q : Seen(o, n)
    BY <1>3 DEF SealInv, AcksSeen
  <2>2. PICK n \in Q : n \in F
    BY QuorumAssumption
  <2> QED
    BY <1>2, <2>1, <2>2
<1>4. ASSUME NEW n \in F
      PROVE  sealed[n] /\ \A o \in Offset : Promised(o, n) => o < Later(clientTail[c], t)
  BY <1>1, <1>2, QuorumNodes DEF SealInv, SealsKnown, PromisesSeen
<1> QED
  BY <1>3, <1>4 DEF Covers

-----------------------------------------------------------------------------
(* Steps that leave most of it alone *)

TailsForward == \A n \in Node : serverTail[n] <= serverTail'[n]

\* a finder learns of a seal together with the tails of the node
KnownForward ==
    \A c \in Client, n \in Node : n \in knownSealed'[c] =>
        \/ n \in knownSealed[c] /\ known[c][n] <= known'[c][n]
        \/ localTail[n] <= known'[c][n] /\ serverTail[n] <= clientTail'[c]

LEMMA NextTailsAreNat ==
    ASSUME TypeOK'
    PROVE  /\ seqTail' \in Nat
           /\ \A n \in Node : localTail'[n] \in Nat /\ serverTail'[n] \in Nat
           /\ \A c \in Client : /\ clientTail'[c] \in Nat /\ targetTail'[c] \in Nat
                                /\ \A n \in Node : known'[c][n] \in Nat
<1>1. /\ seqTail' \in TailOffset
      /\ \A n \in Node : localTail'[n] \in TailOffset /\ serverTail'[n] \in TailOffset
      /\ \A c \in Client : /\ clientTail'[c] \in TailOffset /\ targetTail'[c] \in TailOffset
                           /\ \A n \in Node : known'[c][n] \in TailOffset \cup {0}
  BY DEF TypeOK, Unknown
<1> QED
  BY <1>1, OffsetIsNat

LEMMA LaterForward ==
    ASSUME NEW a \in Nat, NEW b \in Nat, NEW x \in Nat, NEW y \in Nat, NEW o \in Nat,
           a <= x, b <= y, o < Later(a, b)
    PROVE  o < Later(x, y)
  BY DEF Later

LEMMA SeenForward ==
    ASSUME TypeOK, TypeOK', Forward, TailsForward, KnownForward
    PROVE  SeenStays
<1> SUFFICES ASSUME NEW o \in Offset, NEW n \in Node, Seen(o, n) PROVE Seen(o, n)'
  BY DEF SeenStays
<1>1. /\ o \in Nat /\ localTail[n] \in Nat /\ serverTail[n] \in Nat
      /\ localTail'[n] \in Nat /\ serverTail'[n] \in Nat
  BY OffsetIsNat, TailsAreNat, NextTailsAreNat
<1>2. localTail[n] <= localTail'[n] /\ serverTail[n] <= serverTail'[n]
  BY DEF Forward, TailsForward
<1>3. o < Later(localTail[n], serverTail[n])
  BY DEF Seen
<1>4. o < Later(localTail'[n], serverTail'[n])
  BY <1>1, <1>2, <1>3, LaterForward
<1>5. ASSUME NEW c \in Client, n \in knownSealed'[c] PROVE o < Later(clientTail'[c], known'[c][n])
  <2>1. /\ clientTail[c] \in Nat /\ known[c][n] \in Nat /\ clientTail'[c] \in Nat /\ known'[c][n] \in Nat
        /\ clientTail[c] <= clientTail'[c]
    BY TailsAreNat, NextTailsAreNat DEF Forward
  <2>2. CASE n \in knownSealed[c] /\ known[c][n] <= known'[c][n]
    <3>1. o < Later(clientTail[c], known[c][n])
      BY <2>2 DEF Seen
    <3> QED
      BY <1>1, <2>1, <2>2, <3>1, LaterForward
  <2>3. CASE localTail[n] <= known'[c][n] /\ serverTail[n] <= clientTail'[c]
    BY <1>1, <1>3, <2>1, <2>3 DEF Later
  <2> QED
    BY <1>5, <2>2, <2>3 DEF KnownForward
<1> QED
  BY <1>4, <1>5 DEF Seen

LEMMA QuietPromises ==
    ASSUME \A o \in Offset, n \in Node : attr'[o][n] = "committed" => attr[o][n] = "committed",
           replies' \subseteq replies,
           \A o \in Offset : appender'[o] = "done" => appender[o] = "done"
    PROVE  PromisesJustified /\ AcksJustified
  BY DEF PromisesJustified, Promised, AcksJustified

LEMMA ReportsStay ==
    ASSUME TypeOK, Respectful, ReportsCover, UNCHANGED sealedTails
    PROVE  ReportsCover'
<1>1. ASSUME NEW t \in sealedTails PROVE Covers(t)'
  <2>1. t \in Nat /\ t <= t
    BY OffsetIsNat DEF TypeOK
  <2> QED
    BY <2>1, CoverStays DEF ReportsCover
<1> QED
  BY <1>1 DEF ReportsCover

\* a repair keeps its target while the finder's known global tail moves on
LEMMA RepairStays ==
    ASSUME TypeOK, TypeOK', Respectful, Forward, NEW c \in Client, phase[c] = "repair",
           RepairsCover, targetTail'[c] = targetTail[c]
    PROVE  Covers(Later(clientTail[c], targetTail[c]))'
<1>1. /\ clientTail[c] \in Nat /\ clientTail'[c] \in Nat /\ targetTail[c] \in Nat
      /\ clientTail[c] <= clientTail'[c]
  BY TailsAreNat, NextTailsAreNat DEF Forward
<1>2. PICK t \in Nat : t = Later(clientTail[c], targetTail[c])
  BY <1>1, LaterBounds
<1>3. PICK u \in Nat : u = Later(clientTail'[c], targetTail'[c])
  BY <1>1, LaterBounds
<1>4. t <= u
  BY <1>1, <1>2, <1>3 DEF Later
<1>5. Covers(u)'
  BY <1>2, <1>4, CoverStays DEF RepairsCover
<1> QED
  BY <1>3, <1>5 DEF Covers

LEMMA RepairsStay ==
    ASSUME TypeOK, TypeOK', Respectful, Forward, RepairsCover, UNCHANGED <<phase, targetTail>>
    PROVE  RepairsCover'
  BY RepairStays DEF RepairsCover

-----------------------------------------------------------------------------
(* The steps of the sequencer's process *)

LEMMA AppenderKept ==
    ASSUME TypeOK, TypeOK', NEW o \in Offset, AppenderOK(o),
           appender'[o] = appender[o], task'[o] = task[o], attr'[o] = attr[o],
           \A r \in replies' : r.offset = o => r \in replies,
           nextOffset <= nextOffset', seqTail <= seqTail'
    PROVE  AppenderOK(o)'
<1>1. o \in Nat /\ nextOffset \in TailOffset /\ nextOffset' \in TailOffset
      /\ seqTail \in TailOffset /\ seqTail' \in TailOffset
  BY OffsetIsNat DEF TypeOK
<1>2. (o >= nextOffset' => o >= nextOffset) /\ (o < seqTail => o < seqTail')
  BY <1>1, OffsetIsNat
<1> QED
  BY <1>2 DEF AppenderOK

\* an appender that ends leaves nothing behind
LEMMA EndAppenderInv ==
    ASSUME TypeOK, TypeOK', AppenderInv, NEW o \in Offset, NEW state \in Ended, EndAppender(o, state),
           appender[o] # "none", nextOffset' = nextOffset, seqTail <= seqTail',
           state = "done" => o < seqTail'
    PROVE  AppenderInv'
<1>1. /\ appender'[o] = state /\ ~(o >= nextOffset') /\ \A r \in replies' : r.offset # o
      /\ \A n \in Node : task'[o][n] = "none" /\ attr'[o][n] = "none"
  BY DEF EndAppender, TypeOK, AppenderInv, AppenderOK
<1>2. AppenderOK(o)'
  BY <1>1 DEF AppenderOK
<1>3. ASSUME NEW p \in Offset \ {o} PROVE AppenderOK(p)'
  <2>1. /\ appender'[p] = appender[p] /\ task'[p] = task[p] /\ attr'[p] = attr[p]
        /\ replies' \subseteq replies
    BY DEF EndAppender, TypeOK
  <2>2. nextOffset <= nextOffset'
    BY OffsetIsNat DEF TypeOK
  <2> QED
    BY <2>1, <2>2, AppenderKept DEF AppenderInv
<1> QED
  BY <1>2, <1>3 DEF AppenderInv

LEMMA EndAppenderQuiet ==
    ASSUME TypeOK, NEW o \in Offset, NEW state \in Ended \ {"done"}, EndAppender(o, state)
    PROVE  PromisesJustified /\ AcksJustified
<1>1. /\ \A p \in Offset, n \in Node : attr'[p][n] = "committed" => attr[p][n] = "committed"
      /\ replies' \subseteq replies
      /\ \A p \in Offset : appender'[p] = "done" => appender[p] = "done"
  BY DEF EndAppender, TypeOK
<1> QED
  BY <1>1, QuietPromises

\* what is left to show of a step that no remote loglet takes
LEMMA SequencerStep ==
    ASSUME TypeOK, TypeOK', SealInv, AppenderInv', PromisesJustified, AcksJustified,
           Forward, TailsForward, SealsStay, UNCHANGED clientVars, UNCHANGED <<targetTail, sealedTails>>,
           DrainSealed', SequencerReports'
    PROVE  SealInv'
<1>1. KnownForward
  BY TailsAreNat DEF KnownForward, clientVars
<1>2. Respectful
  BY <1>1, SeenForward DEF Respectful
<1>3. SealsKnown'
  BY DEF SealInv, SealsKnown, SealsStay, clientVars, TypeOK
<1>4. ReportsCover'
  BY <1>2, ReportsStay DEF SealInv
<1>5. RepairsCover'
  BY <1>2, RepairsStay DEF SealInv, clientVars
<1> QED
  BY <1>2, <1>3, <1>4, <1>5, PromisesStaySeen DEF SealInv

\* ... if it changes neither seals nor tails
LEMMA SequencerKeeps ==
    ASSUME TypeOK, TypeOK', SealInv, AppenderInv', PromisesJustified, AcksJustified,
           UNCHANGED serverVars, UNCHANGED clientVars, UNCHANGED <<targetTail, sealedTails, sealPhase>>,
           UNCHANGED seqTail \/ sealPhase # "sealed"
    PROVE  SealInv'
<1>1. Forward /\ TailsForward /\ SealsStay
  BY ForwardKept, TailsAreNat DEF serverVars, clientVars, TailsForward, SealsStay
<1>2. DrainSealed' /\ SequencerReports'
  BY DEF SealInv, DrainSealed, SequencerReports, serverVars
<1> QED
  BY <1>1, <1>2, SequencerStep

LEMMA EnqueueBatchSeal ==
    ASSUME TypeOK, TypeOK', SealInv, EnqueueBatch
    PROVE  SealInv'
<1> USE DEF serverVars, netVars, seqVars, appVars, clientVars, repairVars
<1>1. nextOffset \in Offset /\ nextOffset' = nextOffset + 1 /\ nextOffset \in Nat
  BY LogletAssumption DEF EnqueueBatch, TypeOK, TailOffset, Offset, OLDEST
<1>2. PICK state \in {"ready", "cancelled"} : appender' = [appender EXCEPT ![nextOffset] = state]
  BY DEF EnqueueBatch
<1>3. UNCHANGED <<replies, seqTail, task, attr>>
  BY DEF EnqueueBatch
<1>4. PromisesJustified /\ AcksJustified
  BY <1>2, <1>3, QuietPromises DEF TypeOK
<1>5. ASSUME NEW o \in Offset PROVE AppenderOK(o)'
  <2>1. CASE o = nextOffset
    <3>1. AppenderOK(o) /\ appender[o] = "none" /\ appender'[o] = state /\ ~(o >= nextOffset')
      BY <1>1, <1>2, <2>1 DEF SealInv, AppenderInv, AppenderOK, TypeOK
    <3> QED
      BY <1>2, <1>3, <3>1 DEF AppenderOK
  <2>2. CASE o # nextOffset
    <3>1. appender'[o] = appender[o] /\ nextOffset <= nextOffset' /\ seqTail <= seqTail'
      BY <1>1, <1>2, <1>3, <2>2, TailsAreNat DEF TypeOK
    <3> QED
      BY <1>3, <3>1, AppenderKept DEF SealInv, AppenderInv
  <2> QED
    BY <2>1, <2>2
<1>6. AppenderInv'
  BY <1>5 DEF AppenderInv
<1> QED
  BY <1>4, <1>6, SequencerKeeps DEF EnqueueBatch

\* steps of the process that no appender takes
LEMMA AppendersKept ==
    ASSUME TypeOK, TypeOK', AppenderInv, UNCHANGED appVars, UNCHANGED nextOffset, replies' \subseteq replies,
           seqTail <= seqTail'
    PROVE  AppenderInv' /\ PromisesJustified /\ AcksJustified
<1> USE DEF appVars
<1>1. nextOffset <= nextOffset'
  BY OffsetIsNat DEF TypeOK
<1>2. AppenderInv'
  BY <1>1, AppenderKept DEF AppenderInv
<1>3. PromisesJustified /\ AcksJustified
  BY QuietPromises
<1> QED
  BY <1>2, <1>3

LEMMA DrainSeal ==
    ASSUME TypeOK, TypeOK', SealInv, OffsetsExhausted \/ Drain
    PROVE  SealInv'
<1> USE DEF serverVars, netVars, seqVars, clientVars, repairVars
<1>1. /\ UNCHANGED serverVars /\ UNCHANGED clientVars /\ UNCHANGED <<targetTail, sealedTails, seqTail>>
      /\ UNCHANGED appVars /\ UNCHANGED <<nextOffset, replies>>
  BY DEF OffsetsExhausted, Drain
<1>2. seqTail <= seqTail'
  BY <1>1, TailsAreNat
<1>3. AppenderInv' /\ PromisesJustified /\ AcksJustified
  BY <1>1, <1>2, AppendersKept DEF SealInv
<1>4. Forward /\ TailsForward /\ SealsStay
  BY <1>1, ForwardKept, TailsAreNat DEF TailsForward, SealsStay
<1>5. DrainSealed' /\ SequencerReports'
  BY <1>1 DEF OffsetsExhausted, Drain, SealInv, DrainSealed, SequencerReports
<1> QED
  BY <1>1, <1>3, <1>4, <1>5, SequencerStep

\* the drain ends: no appender is left that anyone could have promised anything
LEMMA DrainedSeal ==
    ASSUME TypeOK, TypeOK', SealInv, Drained
    PROVE  SealInv'
<1> USE DEF serverVars, netVars, seqVars, clientVars, repairVars
<1>1. /\ UNCHANGED serverVars /\ UNCHANGED clientVars /\ UNCHANGED <<targetTail, seqTail>>
      /\ UNCHANGED appVars /\ UNCHANGED <<nextOffset, replies>>
      /\ sealPhase = "draining" /\ sealPhase' = "sealed" /\ sealedTails' = sealedTails \cup {seqTail}
      /\ \A o \in Offset : appender[o] \in Ended \cup {"none"}
  BY DEF Drained
<1>2. seqTail \in Nat /\ seqTail <= seqTail'
  BY <1>1, TailsAreNat
<1>3. AppenderInv' /\ PromisesJustified /\ AcksJustified
  BY <1>1, <1>2, AppendersKept DEF SealInv
<1>4. Forward /\ TailsForward /\ SealsStay
  BY <1>1, ForwardKept, TailsAreNat DEF TailsForward, SealsStay
<1>5. KnownForward
  BY <1>1, TailsAreNat DEF KnownForward
<1>6. Respectful
  BY <1>3, <1>4, <1>5, SeenForward DEF Respectful
<1>7. ASSUME NEW o \in Offset, NEW n \in Node PROVE ~Promised(o, n)
  <2>1. appender[o] \notin {"ready", "wave"}
    BY <1>1 DEF Ended
  <2> QED
    BY <2>1 DEF SealInv, AppenderInv, AppenderOK, Promised
<1>8. Covers(seqTail)
  <2>1. PICK F \in FMajorities : F \subseteq {n \in Node : sealed[n]}
    BY <1>1 DEF SealInv, DrainSealed, IsFMajority
  <2>2. \A n \in F : sealed[n] /\ \A o \in Offset : Promised(o, n) => o < seqTail
    BY <1>7, <2>1
  <2>3. \A o \in Offset : appender[o] = "done" => o < seqTail
    BY DEF SealInv, AppenderInv, AppenderOK
  <2> QED
    BY <2>2, <2>3 DEF Covers
<1>9. ASSUME NEW t \in sealedTails' PROVE Covers(t)'
  <2>1. t \in Nat /\ t <= t /\ Covers(t)
    BY <1>1, <1>2, <1>8, OffsetIsNat DEF SealInv, ReportsCover, TypeOK
  <2> QED
    BY <1>6, <2>1, CoverStays
<1>10. ReportsCover' /\ RepairsCover'
  BY <1>1, <1>4, <1>6, <1>9, RepairsStay DEF ReportsCover, SealInv
<1>11. SealsKnown' /\ DrainSealed' /\ SequencerReports'
  BY <1>1 DEF SealInv, SealsKnown, DrainSealed, SequencerReports
<1> QED
  BY <1>3, <1>6, <1>10, <1>11, PromisesStaySeen DEF SealInv

\* SealTask and CheckSealTask of the sequencer's process
LEMMA SequencerSealsSeal ==
    ASSUME TypeOK, TypeOK', SealInv, NEW n \in Node, SequencerSealsNode(n) \/ CheckSeal(n)
    PROVE  SealInv'
<1> USE DEF serverVars, netVars, seqVars, watchVars, clientVars, repairVars
<1>1. /\ UNCHANGED <<stored, localTail>> /\ UNCHANGED clientVars
      /\ UNCHANGED <<targetTail, sealedTails, sealPhase, nextOffset, replies>>
      /\ UNCHANGED appVars /\ sealPhase # "sealed"
      /\ sealed' \in {sealed, [sealed EXCEPT ![n] = TRUE]}
  BY DEF SequencerSealsNode, CheckSeal
<1>2. PICK g : /\ g = Later(serverTail[n], seqTail) /\ seqTail' = g
               /\ serverTail' = [serverTail EXCEPT ![n] = g]
  BY DEF SequencerSealsNode, CheckSeal
<1>3. g \in Nat /\ seqTail <= g /\ serverTail[n] <= g
  BY <1>2, TailsAreNat, LaterBounds
<1>4. AppenderInv' /\ PromisesJustified /\ AcksJustified
  BY <1>1, <1>2, <1>3, AppendersKept DEF SealInv
<1>5. Forward
  BY <1>1, ForwardKept, TailsAreNat
<1>6. TailsForward
  BY <1>2, <1>3, TailsAreNat DEF TailsForward, TypeOK
<1>7. SealsStay
  BY <1>1 DEF SealsStay, TypeOK
<1>8. DrainSealed'
  <2>1. {k \in Node : sealed[k]} \subseteq {k \in Node : sealed'[k]}
    BY <1>7 DEF SealsStay
  <2> QED
    BY <1>1, <2>1 DEF SealInv, DrainSealed, IsFMajority
<1>9. SequencerReports'
  BY <1>1 DEF SequencerReports
<1> QED
  BY <1>1, <1>4, <1>5, <1>6, <1>7, <1>8, <1>9, SequencerStep

\* a step of one appender that goes on
LEMMA OneAppenderMoves ==
    ASSUME TypeOK, TypeOK', AppenderInv, NEW o \in Offset, AppenderOK(o)',
           \A p \in Offset \ {o} :
               appender'[p] = appender[p] /\ task'[p] = task[p] /\ attr'[p] = attr[p],
           UNCHANGED <<nextOffset, seqTail>>, replies' \subseteq replies
    PROVE  AppenderInv'
<1>1. nextOffset <= nextOffset' /\ seqTail <= seqTail'
  BY OffsetIsNat, TailsAreNat DEF TypeOK
<1>2. ASSUME NEW p \in Offset \ {o} PROVE AppenderOK(p)'
  BY <1>1, AppenderKept DEF AppenderInv
<1> QED
  BY <1>2 DEF AppenderInv

\* an appender ends without an acknowledgement
LEMMA EndAppenderSeal ==
    ASSUME TypeOK, TypeOK', SealInv, NEW o \in Offset, NEW state \in Ended \ {"done"},
           EndAppender(o, state), appender[o] # "none", UNCHANGED serverVars, UNCHANGED seqVars,
           UNCHANGED clientVars, UNCHANGED <<targetTail, sealedTails>>
    PROVE  SealInv'
<1>1. UNCHANGED <<nextOffset, seqTail, sealPhase>>
  BY DEF seqVars
<1>2. seqTail <= seqTail'
  BY <1>1, TailsAreNat
<1>3. AppenderInv'
  BY <1>1, <1>2, EndAppenderInv DEF SealInv
<1> QED
  BY <1>1, <1>3, EndAppenderQuiet, SequencerKeeps

LEMMA SendWaveSeal ==
    ASSUME TypeOK, TypeOK', SealInv, NEW o \in Offset, SendWave(o)
    PROVE  SealInv'
<1> USE DEF netVars, seqVars, clientVars, repairVars
<1>1. /\ appender[o] = "ready" /\ appender' = [appender EXCEPT ![o] = "wave"]
      /\ \E w : task' = [task EXCEPT ![o] = w]
      /\ UNCHANGED <<attr, replies, nextOffset, seqTail, sealPhase, targetTail, sealedTails>>
      /\ UNCHANGED serverVars /\ UNCHANGED clientVars
  BY DEF SendWave
<1>2. appender'[o] = "wave" /\ attr'[o] = attr[o]
  BY <1>1 DEF TypeOK
<1>3. AppenderOK(o)'
  BY <1>1, <1>2 DEF SealInv, AppenderInv, AppenderOK
<1>4. AppenderInv'
  BY <1>1, <1>3, OneAppenderMoves DEF SealInv, TypeOK
<1>5. PromisesJustified /\ AcksJustified
  BY <1>1, QuietPromises DEF TypeOK
<1> QED
  BY <1>1, <1>4, <1>5, SequencerKeeps

LEMMA EndWaveSeal ==
    ASSUME TypeOK, TypeOK', SealInv, NEW o \in Offset, EndWave(o)
    PROVE  SealInv'
<1> USE DEF seqVars, clientVars, repairVars
<1>1. /\ appender[o] = "wave" /\ \A n \in Node : task[o][n] = "none"
      /\ UNCHANGED serverVars /\ UNCHANGED seqVars /\ UNCHANGED clientVars
      /\ UNCHANGED <<targetTail, sealedTails>>
  BY DEF EndWave
<1>2. CASE EndAppender(o, "sealed")
  BY <1>1, <1>2, EndAppenderSeal DEF Ended
<1>3. CASE appender' = [appender EXCEPT ![o] = "ready"] /\ UNCHANGED <<wave, task, attr, replies>>
  <2>1. appender'[o] = "ready"
    BY <1>3 DEF TypeOK
  <2>2. AppenderOK(o)'
    BY <1>1, <1>3, <2>1 DEF SealInv, AppenderInv, AppenderOK
  <2>3. AppenderInv'
    BY <1>1, <1>3, <2>2, OneAppenderMoves DEF SealInv, TypeOK
  <2>4. PromisesJustified /\ AcksJustified
    BY <1>3, QuietPromises DEF TypeOK
  <2> QED
    BY <1>1, <1>3, <2>3, <2>4, SequencerKeeps
<1> QED
  BY <1>2, <1>3 DEF EndWave

LEMMA SendStoreSeal ==
    ASSUME TypeOK, TypeOK', SealInv, NEW o \in Offset, NEW n \in Node,
           SendStore(o, n) \/ StoreTimeout(o, n)
    PROVE  SealInv'
<1> USE DEF seqVars, clientVars, repairVars
<1>1. /\ task[o][n] # "none" /\ \E v : task' = [task EXCEPT ![o][n] = v]
      /\ UNCHANGED <<appender, attr, nextOffset, seqTail, sealPhase, targetTail, sealedTails>>
      /\ UNCHANGED serverVars /\ UNCHANGED clientVars /\ replies' \subseteq replies
  BY DEF SendStore, StoreTimeout
<1>2. \A k \in Node : task'[o][k] # "none" => task[o][k] # "none"
  BY <1>1 DEF TypeOK
<1>3. AppenderOK(o)'
  BY <1>1, <1>2 DEF SealInv, AppenderInv, AppenderOK
<1>4. AppenderInv'
  BY <1>1, <1>3, OneAppenderMoves DEF SealInv, TypeOK
<1>5. PromisesJustified /\ AcksJustified
  BY <1>1, QuietPromises
<1> QED
  BY <1>1, <1>4, <1>5, SequencerKeeps

LEMMA SkipSealedNodeSeal ==
    ASSUME TypeOK, TypeOK', SealInv, NEW o \in Offset, NEW n \in Node, SkipSealedNode(o, n)
    PROVE  SealInv'
<1> USE DEF seqVars, clientVars, repairVars
<1>1. /\ task[o][n] # "none" /\ appender[o] = "wave"
      /\ UNCHANGED serverVars /\ UNCHANGED seqVars /\ UNCHANGED clientVars
      /\ UNCHANGED <<targetTail, sealedTails>>
  BY DEF SkipSealedNode, SealInv, AppenderInv, AppenderOK
<1>2. CASE EndAppender(o, "sealed")
  BY <1>1, <1>2, EndAppenderSeal DEF Ended
<1>3. CASE /\ task' = [task EXCEPT ![o][n] = "none"] /\ attr' = [attr EXCEPT ![o][n] = "sealed"]
           /\ UNCHANGED <<appender, wave, replies>>
  <2>1. \A k \in Node : task'[o][k] # "none" => task[o][k] # "none"
    BY <1>3 DEF TypeOK
  <2>2. AppenderOK(o)'
    BY <1>1, <1>3, <2>1 DEF SealInv, AppenderInv, AppenderOK
  <2>3. AppenderInv'
    BY <1>1, <1>3, <2>2, OneAppenderMoves DEF SealInv, TypeOK
  <2>4. PromisesJustified /\ AcksJustified
    BY <1>3, QuietPromises DEF TypeOK
  <2> QED
    BY <1>1, <1>3, <2>3, <2>4, SequencerKeeps
<1> QED
  BY <1>2, <1>3 DEF SkipSealedNode

\* a reply arrives: it becomes an answer in the checker, or the last promise
\* that the write quorum of the append was missing
LEMMA StoredSeal ==
    ASSUME TypeOK, TypeOK', SealInv, NEW r \in replies, Stored(r)
    PROVE  SealInv'
<1> USE DEF seqVars, clientVars, repairVars
<1> DEFINE o == r.offset
           n == r.node
<1>1. /\ o \in Offset /\ n \in Node /\ o \in Nat
  BY OffsetIsNat DEF TypeOK, StoreReply
<1>2. /\ appender[o] \in {"ready", "wave"}
      /\ UNCHANGED serverVars /\ UNCHANGED clientVars
      /\ UNCHANGED <<nextOffset, sealPhase, closed, targetTail, sealedTails>>
  BY <1>1 DEF Stored, SealInv, AppenderInv, AppenderOK
<1>3. CASE EndAppender(o, "sealed") /\ UNCHANGED seqTail
  BY <1>1, <1>2, <1>3, EndAppenderSeal DEF Ended
<1>4. CASE /\ sealPhase # "sealed" /\ WriteQuorumReached(r) /\ seqTail' = Later(seqTail, o + 1)
           /\ EndAppender(o, "done")
  <2>1. seqTail \in Nat /\ o + 1 \in Nat
    BY <1>1, TailsAreNat
  <2>2. seqTail <= seqTail' /\ o < seqTail'
    BY <1>1, <1>4, <2>1 DEF Later
  <2>3. AppenderInv'
    BY <1>1, <1>2, <1>4, <2>2, EndAppenderInv DEF SealInv, Ended
  <2>4. /\ \A p \in Offset, k \in Node : attr'[p][k] = "committed" => attr[p][k] = "committed"
        /\ replies' \subseteq replies
        /\ \A p \in Offset : appender'[p] = "done" => appender[p] = "done" \/ p = o
    BY <1>1, <1>4 DEF EndAppender, TypeOK
  <2>5. PromisesJustified
    BY <2>4 DEF PromisesJustified, Promised
  <2>6. PICK Q \in WriteQuorums : Q \subseteq WithAttr(o, "committed") \cup {n}
    BY <1>4 DEF WriteQuorumReached, IsWriteQuorum
  <2>7. \A k \in Q : Promised(o, k)
    BY <1>4, <2>6 DEF WithAttr, Promised, WriteQuorumReached
  <2>8. AcksJustified
    BY <2>4, <2>7 DEF AcksJustified
  <2> QED
    BY <1>2, <1>4, <2>3, <2>5, <2>8, SequencerKeeps
<1>5. CASE /\ attr' = [attr EXCEPT ![o][n] = IF r.status = "Ok" THEN "committed"
                                               ELSE IF r.status = "Sealed" THEN "sealed" ELSE @]
           /\ task' = [task EXCEPT ![o][n] = "none"]
           /\ replies' = {s \in replies : ~(s.offset = o /\ s.node = n)}
           /\ UNCHANGED <<seqTail, appender, wave>>
  <2>1. \A k \in Node : task'[o][k] # "none" => task[o][k] # "none"
    BY <1>1, <1>5 DEF TypeOK
  <2>2. AppenderOK(o)'
    BY <1>1, <1>2, <1>5, <2>1 DEF SealInv, AppenderInv, AppenderOK
  <2>3. \A p \in Offset \ {o} : task'[p] = task[p] /\ attr'[p] = attr[p]
    BY <1>1, <1>5 DEF TypeOK
  <2>4. AppenderInv'
    BY <1>1, <1>2, <1>5, <2>2, <2>3, OneAppenderMoves DEF SealInv
  <2>5. ASSUME NEW p \in Offset, NEW k \in Node, attr'[p][k] = "committed" PROVE Promised(p, k)
    <3>1. attr[p][k] = "committed" \/ (p = o /\ k = n /\ r.status = "Ok")
      BY <1>1, <1>5, <2>5 DEF TypeOK
    <3> QED
      BY <3>1 DEF Promised
  <2>6. PromisesJustified /\ AcksJustified
    BY <1>5, <2>5 DEF PromisesJustified, Promised, AcksJustified
  <2> QED
    BY <1>2, <1>5, <2>4, <2>6, SequencerKeeps
<1> QED
  BY <1>3, <1>4, <1>5 DEF Stored

LEMMA SequencerSeal ==
    ASSUME TypeOK, TypeOK', SealInv, SequencerNext
    PROVE  SealInv'
<1>1. ASSUME NEW o \in Offset, WriteUnavailable(o) PROVE SealInv'
  <2>1. appender[o] # "none" /\ EndAppender(o, "unavailable") /\ UNCHANGED serverVars
        /\ UNCHANGED seqVars /\ UNCHANGED clientVars /\ UNCHANGED <<targetTail, sealedTails>>
    BY <1>1 DEF WriteUnavailable, repairVars
  <2> QED
    BY <2>1, EndAppenderSeal DEF Ended
<1>2. ASSUME NEW o \in Offset, Cancel(o) PROVE SealInv'
  <2>1. appender[o] # "none" /\ EndAppender(o, "cancelled") /\ UNCHANGED serverVars
        /\ UNCHANGED seqVars /\ UNCHANGED clientVars /\ UNCHANGED <<targetTail, sealedTails>>
    BY <1>2 DEF Cancel, repairVars
  <2> QED
    BY <2>1, EndAppenderSeal DEF Ended
<1> QED
  BY <1>1, <1>2, EnqueueBatchSeal, DrainSeal, DrainedSeal, SequencerSealsSeal, SendWaveSeal, EndWaveSeal,
     SendStoreSeal, SkipSealedNodeSeal, StoredSeal DEF SequencerNext

-----------------------------------------------------------------------------
(* The steps of the log servers *)

\* an unsealed node promises a record that its own tail, or the known global
\* tail, has passed by then; a sealed node promises nothing to the sequencer
LEMMA ProcessStoreSeal ==
    ASSUME TypeOK, TypeOK', SealInv, NEW m \in stores, ProcessStore(m)
    PROVE  SealInv'
<1> USE DEF seqVars, watchVars, appVars, clientVars, repairVars
<1>1. PICK n \in Node, o \in Offset, g \in Nat :
         /\ n = m.node /\ o = m.offset /\ g = Later(serverTail[n], m.tail)
         /\ serverTail' = [serverTail EXCEPT ![n] = g] /\ serverTail[n] <= g
  <2>1. m.node \in Node /\ m.offset \in Offset /\ m.tail \in Nat
    BY OffsetIsNat DEF TypeOK, StoreRequest
  <2>2. /\ Later(serverTail[m.node], m.tail) \in Nat
        /\ serverTail[m.node] <= Later(serverTail[m.node], m.tail)
    BY <2>1, TailsAreNat, LaterBounds
  <2> QED
    BY <2>1, <2>2 DEF ProcessStore
<1>2. /\ UNCHANGED sealed /\ UNCHANGED seqVars /\ UNCHANGED appVars /\ UNCHANGED clientVars
      /\ UNCHANGED <<targetTail, sealedTails>>
  BY DEF ProcessStore
<1>3. Forward
  BY ServersForward
<1>4. TailsForward
  BY <1>1, TailsAreNat DEF TailsForward, TypeOK
<1>5. localTail'[n] \in Nat /\ serverTail'[n] = g /\ o \in Nat /\ localTail[n] \in Nat
  BY <1>1, TailsAreNat, NextTailsAreNat, OffsetIsNat DEF TypeOK
\* the reply, if there is one
<1>6. \/ replies' \subseteq replies
      \/ \E status, t : /\ replies' = replies \cup {[offset |-> o, node |-> n, status |-> status, tail |-> t]}
                        /\ task[o][n] = "sent"
                        /\ status = "Ok" => ~sealed[n] /\ (o < localTail'[n] \/ o < g)
  <2>1. ASSUME NEW status, NEW t, Reply(m, status, t),
               status = "Ok" /\ m.from = Sequencer => ~sealed[n] /\ (o < localTail'[n] \/ o < g)
        PROVE  \/ replies' \subseteq replies
               \/ /\ replies' = replies \cup {[offset |-> o, node |-> n, status |-> status, tail |-> t]}
                  /\ task[o][n] = "sent"
                  /\ status = "Ok" => ~sealed[n] /\ (o < localTail'[n] \/ o < g)
    BY <1>1, <2>1 DEF Reply
  <2>2. CASE Reply(m, "Sealed", localTail[n])
    BY <2>1, <2>2
  <2>3. CASE Reply(m, "OutOfBounds", localTail[n])
    BY <2>1, <2>3
  <2>4. CASE /\ m.from = Sequencer /\ ~sealed[n] /\ (localTail[n] > o \/ g > o)
             /\ Reply(m, "Ok", localTail[n]) /\ UNCHANGED localTail
    <3>1. o < localTail'[n] \/ o < g
      BY <1>1, <1>5, <2>4
    <3> QED
      BY <2>1, <2>4, <3>1
  <2>5. CASE /\ m.from # Sequencer \/ ~sealed[n]
             /\ localTail' = [localTail EXCEPT ![n] = Later(@, o + 1)]
             /\ Reply(m, "Ok", Later(localTail[n], o + 1))
    <3>1. localTail'[n] = Later(localTail[n], o + 1)
      BY <2>5 DEF TypeOK
    <3>2. o < localTail'[n]
      BY <1>5, <3>1 DEF Later
    <3> QED
      BY <2>1, <2>5, <3>2
  <2> QED
    BY <1>1, <2>2, <2>3, <2>4, <2>5 DEF ProcessStore
<1>7. AppenderInv'
  <2>1. ASSUME NEW p \in Offset, AppenderOK(p) PROVE AppenderOK(p)'
    <3>1. \A r \in replies' : r.offset = p => r \in replies \/ (p = o /\ task[o][n] = "sent")
      BY <1>6
    <3>2. \A r \in replies' : r.offset = p => appender[p] \in {"ready", "wave"}
      BY <2>1, <3>1 DEF AppenderOK
    <3> QED
      BY <1>2, <2>1, <3>2 DEF AppenderOK
  <2> QED
    BY <2>1 DEF SealInv, AppenderInv
<1>8. KnownForward
  BY <1>2, TailsAreNat DEF KnownForward
<1>9. SeenStays
  BY <1>3, <1>4, <1>8, SeenForward
<1>10. PromisesJustified
  <2> SUFFICES ASSUME NEW p \in Offset, NEW k \in Node, Promised(p, k)', ~Promised(p, k)
               PROVE  ~sealed[k] /\ Seen(p, k)'
    BY DEF PromisesJustified
  <2>1. p = o /\ k = n /\ ~sealed[n] /\ (o < localTail'[n] \/ o < g)
    BY <1>2, <1>6 DEF Promised
  <2>2. o < Later(localTail'[n], serverTail'[n])
    BY <1>5, <2>1 DEF Later
  <2>3. \A c \in Client : n \notin knownSealed'[c]
    BY <1>2, <2>1 DEF SealInv, SealsKnown
  <2> QED
    BY <2>1, <2>2, <2>3 DEF Seen
<1>11. AcksJustified /\ SealsStay
  BY <1>2 DEF AcksJustified, SealsStay
<1>12. DrainSealed' /\ SequencerReports'
  BY <1>2 DEF SealInv, DrainSealed, SequencerReports
<1> QED
  BY <1>2, <1>3, <1>4, <1>7, <1>10, <1>11, <1>12, SequencerStep

LEMMA ServerSeal ==
    ASSUME ~TailLostOnRestart, TypeOK, TypeOK', SealInv, ServerNext
    PROVE  SealInv'
<1> USE DEF seqVars, netVars, clientVars, repairVars
<1>1. ASSUME NEW n \in Node, ProcessSeal(n) PROVE SealInv'
  <2>1. /\ UNCHANGED <<stored, localTail, serverTail>> /\ UNCHANGED clientVars
        /\ UNCHANGED <<targetTail, sealedTails, sealPhase, nextOffset, replies, seqTail>>
        /\ UNCHANGED appVars /\ sealed' = [sealed EXCEPT ![n] = TRUE]
    BY <1>1 DEF ProcessSeal
  <2>2. Forward /\ TailsForward /\ seqTail <= seqTail'
    BY <2>1, ForwardKept, TailsAreNat DEF TailsForward
  <2>3. SealsStay
    BY <2>1 DEF SealsStay, TypeOK
  <2>4. {k \in Node : sealed[k]} \subseteq {k \in Node : sealed'[k]}
    BY <2>3 DEF SealsStay
  <2>5. DrainSealed' /\ SequencerReports'
    BY <2>1, <2>4 DEF SealInv, DrainSealed, IsFMajority, SequencerReports
  <2>6. AppenderInv' /\ PromisesJustified /\ AcksJustified
    BY <2>1, <2>2, AppendersKept DEF SealInv
  <2> QED
    BY <2>1, <2>2, <2>3, <2>5, <2>6, SequencerStep
<1> QED
  BY <1>1, ProcessStoreSeal DEF ServerNext, Restart

-----------------------------------------------------------------------------
(* The steps of the remote loglets *)

\* remote loglets touch neither the sequencer nor its appenders
Remote == UNCHANGED replies /\ UNCHANGED seqVars /\ UNCHANGED appVars /\ UNCHANGED <<stored, localTail>>

LEMMA RemoteStep ==
    ASSUME TypeOK, TypeOK', SealInv, Remote, Forward, TailsForward, KnownForward, SealsStay,
           SealsKnown', sealedTails \subseteq sealedTails'
    PROVE  /\ Respectful
           /\ ReportsCover' /\ RepairsCover' => SealInv'
<1> USE DEF Remote, seqVars
<1>1. seqTail <= seqTail'
  BY TailsAreNat
<1>2. AppenderInv' /\ PromisesJustified /\ AcksJustified
  BY <1>1, AppendersKept DEF SealInv
<1>3. Respectful
  BY <1>2, SeenForward DEF Respectful
<1>4. {k \in Node : sealed[k]} \subseteq {k \in Node : sealed'[k]}
  BY DEF SealsStay
<1>5. DrainSealed' /\ SequencerReports'
  BY <1>4 DEF SealInv, DrainSealed, IsFMajority, SequencerReports
<1> QED
  BY <1>2, <1>3, <1>5, PromisesStaySeen DEF SealInv

\* a finder that exchanges tails with a node
LEMMA ExchangeSeal ==
    ASSUME TypeOK, TypeOK', SealInv, NEW c \in Client, NEW n \in Node, Exchange(c, n), Remote,
           KnownForward, SealsStay, SealsKnown', UNCHANGED <<phase, targetTail, sealedTails>>
    PROVE  SealInv'
<1>1. Forward
  BY ExchangeForward DEF Remote
<1>2. TailsForward
  <2>1. /\ Later(serverTail[n], clientTail[c]) \in Nat
        /\ serverTail[n] <= Later(serverTail[n], clientTail[c])
    BY TailsAreNat, LaterBounds
  <2> QED
    BY <2>1, TailsAreNat DEF Exchange, TailsForward, TypeOK
<1>3. Respectful /\ (ReportsCover' /\ RepairsCover' => SealInv')
  BY <1>1, <1>2, RemoteStep
<1> QED
  BY <1>1, <1>3, ReportsStay, RepairsStay DEF SealInv

\* a finder that neither knows nor repairs more than before
LEMMA FinderStep ==
    ASSUME TypeOK, TypeOK', SealInv, NEW c \in Client, Remote, Forward, UNCHANGED <<serverTail, sealed>>,
           \A d \in Client : knownSealed'[d] \subseteq knownSealed[d],
           \A d \in Client, n \in Node : n \in knownSealed'[d] => known'[d][n] = known[d][n],
           \A d \in Client : phase'[d] = "repair" =>
               phase[d] = "repair" /\ targetTail'[d] = targetTail[d],
           sealedTails \subseteq sealedTails'
    PROVE  Respectful /\ RepairsCover' /\ (ReportsCover' => SealInv')
<1>1. KnownForward
  BY TailsAreNat DEF KnownForward
<1>2. SealsStay /\ SealsKnown' /\ TailsForward
  BY TailsAreNat DEF SealsStay, SealsKnown, SealInv, TailsForward
<1>3. Respectful /\ (ReportsCover' /\ RepairsCover' => SealInv')
  BY <1>1, <1>2, RemoteStep
<1>4. RepairsCover'
  BY <1>3, RepairStays DEF RepairsCover, SealInv
<1> QED
  BY <1>3, <1>4

LEMMA ForgetsSeals ==
    ASSUME TypeOK, NEW c \in Client, Forget(c)
    PROVE  /\ \A d \in Client : knownSealed'[d] \subseteq knownSealed[d]
           /\ \A d \in Client, n \in Node : n \in knownSealed'[d] => known'[d][n] = known[d][n]
           /\ \A d \in Client \ {c} : targetTail'[d] = targetTail[d]
  BY DEF Forget, TypeOK

\* find_tail returns: a sealed tail has to be a cover
LEMMA AnswerSeal ==
    ASSUME TypeOK, TypeOK', SealInv, NEW c \in Client, NEW t \in TailOffset, NEW b \in BOOLEAN,
           Answer(c, t, b), b => Covers(Later(clientTail[c], t))
    PROVE  SealInv'
<1> USE DEF serverVars, netVars
<1>1. /\ Remote /\ UNCHANGED <<serverTail, sealed>> /\ Forget(c)
      /\ clientTail' = [clientTail EXCEPT ![c] = Later(@, t)]
      /\ phase' = [phase EXCEPT ![c] = "idle"]
      /\ sealedTails' = IF b THEN sealedTails \cup {Later(clientTail[c], t)} ELSE sealedTails
  BY DEF Answer, Remote
<1>2. Forward
  BY <1>1, AnswerForward, OffsetIsNat DEF Remote
<1>3. \A d \in Client : phase'[d] = "repair" => phase[d] = "repair" /\ d # c
  BY <1>1 DEF TypeOK
<1>4. Respectful /\ (ReportsCover' => SealInv')
  BY <1>1, <1>2, <1>3, ForgetsSeals, FinderStep
<1>5. ASSUME NEW u \in sealedTails' PROVE Covers(u)'
  <2>1. Later(clientTail[c], t) \in Nat /\ Later(clientTail[c], t) \in TailOffset
    BY LaterIsTail, OffsetIsNat DEF TypeOK
  <2>2. u \in Nat /\ u <= u /\ Covers(u)
    BY <1>1, <2>1, OffsetIsNat DEF SealInv, ReportsCover, TypeOK
  <2> QED
    BY <1>4, <2>2, CoverStays
<1> QED
  BY <1>4, <1>5 DEF ReportsCover

\* a repair starts from the tails of a sealed f-majority
LEMMA StartRepairSeal ==
    ASSUME TypeOK, TypeOK', SealInv, NEW c \in Client, StartRepair(c)
    PROVE  SealInv'
<1> USE DEF serverVars, netVars
<1>1. /\ Remote /\ UNCHANGED <<serverTail, sealed, clientTail, sealedTails>>
      /\ known' = [known EXCEPT ![c] = [n \in Node |-> Unknown]]
      /\ knownSealed' = [knownSealed EXCEPT ![c] = {}]
      /\ phase' = [phase EXCEPT ![c] = "repair"] /\ IsFMajority(knownSealed[c])
  BY DEF StartRepair, SealedFMajority, Remote
<1>2. PICK t \in TailOffset : /\ IsMaxLocalTail(c, t, knownSealed[c])
                              /\ targetTail' = [targetTail EXCEPT ![c] = t]
  BY DEF StartRepair
<1>3. Forward
  BY <1>1, ForwardKept, TailsAreNat DEF Remote
<1>4. KnownForward
  <2>1. \A d \in Client, n \in Node : n \in knownSealed'[d] => n \in knownSealed[d] /\ known'[d] = known[d]
    BY <1>1 DEF TypeOK
  <2> QED
    BY <2>1, TailsAreNat DEF KnownForward
<1>5. SealsStay /\ SealsKnown' /\ TailsForward
  BY <1>1, TailsAreNat DEF SealsStay, SealsKnown, SealInv, TailsForward, TypeOK
<1>6. Respectful /\ (ReportsCover' /\ RepairsCover' => SealInv')
  BY <1>1, <1>3, <1>4, <1>5, RemoteStep
<1>7. PICK u \in Nat : u = Later(clientTail[c], t)
  BY TailsAreNat, OffsetIsNat, LaterBounds
<1>8. Covers(u)'
  <2>1. Covers(u)
    BY <1>1, <1>2, <1>7, FMajorityCovers
  <2> QED
    BY <1>6, <2>1, CoverStays
<1>9. u = Later(clientTail'[c], targetTail'[c])
  BY <1>1, <1>2, <1>7 DEF TypeOK
<1>10. ASSUME NEW d \in Client, phase'[d] = "repair"
       PROVE  Covers(Later(clientTail[d], targetTail[d]))'
  <2>1. CASE d = c
    BY <1>8, <1>9, <2>1 DEF Covers
  <2>2. CASE d # c
    <3>1. phase[d] = "repair" /\ targetTail'[d] = targetTail[d]
      BY <1>1, <1>2, <1>10, <2>2 DEF TypeOK
    <3> QED
      BY <1>3, <1>6, <3>1, RepairStays DEF SealInv
  <2> QED
    BY <2>1, <2>2
<1>11. RepairsCover'
  BY <1>10 DEF RepairsCover
<1> QED
  BY <1>1, <1>6, <1>11, ReportsStay DEF SealInv

LEMMA GetLogletInfoSeal ==
    ASSUME TypeOK, TypeOK', SealInv, NEW c \in Client, NEW n \in Node, GetLogletInfo(c, n)
    PROVE  SealInv'
<1> USE DEF netVars, repairVars
<1>1. /\ Remote /\ Exchange(c, n) /\ UNCHANGED <<sealed, phase, targetTail, sealedTails>>
      /\ knownSealed' = [knownSealed EXCEPT ![c] = IF sealed[n] THEN @ \cup {n} ELSE @]
  BY DEF GetLogletInfo, Remote
<1>2. PICK v : v = Later(known[c][n], localTail[n]) /\ known' = [known EXCEPT ![c][n] = v]
  BY DEF GetLogletInfo
<1>3. v \in Nat /\ localTail[n] <= v /\ known[c][n] <= v
  BY <1>2, TailsAreNat, LaterBounds
<1>4. PICK g \in Nat : /\ g = Later(serverTail[n], clientTail[c]) /\ serverTail[n] <= g
                       /\ clientTail' = [clientTail EXCEPT ![c] = g]
  BY <1>1, TailsAreNat, LaterBounds DEF Exchange
<1>5. KnownForward
  <2> SUFFICES ASSUME NEW d \in Client, NEW k \in Node, k \in knownSealed'[d]
               PROVE  \/ k \in knownSealed[d] /\ known[d][k] <= known'[d][k]
                      \/ localTail[k] <= known'[d][k] /\ serverTail[k] <= clientTail'[d]
    BY DEF KnownForward
  <2>1. CASE d = c /\ k = n
    <3>1. known'[d][k] = v /\ clientTail'[d] = g
      BY <1>2, <1>4, <2>1 DEF TypeOK
    <3> QED
      BY <1>3, <1>4, <2>1, <3>1
  <2>2. CASE ~(d = c /\ k = n)
    <3>1. known'[d][k] = known[d][k] /\ k \in knownSealed[d]
      BY <1>1, <1>2, <2>2 DEF TypeOK
    <3> QED
      BY <3>1, TailsAreNat
  <2> QED
    BY <2>1, <2>2
<1>6. SealsStay /\ SealsKnown'
  BY <1>1 DEF SealsStay, SealsKnown, SealInv, TypeOK
<1> QED
  BY <1>1, <1>5, <1>6, ExchangeSeal

LEMMA ClientSeal ==
    ASSUME TypeOK, TypeOK', SealInv, NEW c \in Client, ClientNext(c)
    PROVE  SealInv'
<1> USE DEF serverVars, netVars, repairVars
<1>1. CASE AskSequencer(c)
  <2>1. /\ seqTail \in TailOffset /\ (sealPhase = "sealed") \in BOOLEAN
        /\ Answer(c, seqTail, sealPhase = "sealed")
    BY <1>1 DEF AskSequencer, TypeOK
  <2>2. ASSUME sealPhase = "sealed" PROVE Covers(Later(clientTail[c], seqTail))
    <3>1. PICK t \in Nat : t = seqTail /\ Covers(t)
      BY <2>2, TailsAreNat DEF SealInv, SequencerReports, ReportsCover
    <3>2. PICK u \in Nat : u = Later(clientTail[c], seqTail) /\ t <= u
      <4>1. seqTail \in Nat /\ clientTail[c] \in Nat
        BY TailsAreNat
      <4>2. Later(clientTail[c], seqTail) \in Nat /\ seqTail <= Later(clientTail[c], seqTail)
        BY <4>1, LaterBounds
      <4> QED
        BY <3>1, <4>2
    <3>3. \A o \in Offset : o < t => o < u
      BY <3>2, OffsetIsNat
    <3> QED
      BY <3>1, <3>2, <3>3 DEF Covers
  <2> QED
    BY <2>1, <2>2, AnswerSeal
<1>2. CASE FoundSealed(c)
  <2>1. PICK t \in TailOffset : IsMaxLocalTail(c, t, knownSealed[c]) /\ Answer(c, t, TRUE)
    BY <1>2 DEF FoundSealed
  <2>2. Covers(Later(clientTail[c], t))
    BY <1>2, <2>1, FMajorityCovers DEF FoundSealed, SealedFMajority
  <2> QED
    BY <2>1, <2>2, AnswerSeal
<1>3. CASE FoundOpen(c)
  <2>1. PICK t \in TailOffset : Answer(c, t, FALSE)
    BY <1>3 DEF FoundOpen, TypeOK
  <2> QED
    BY <2>1, AnswerSeal
<1>4. CASE RepairCompleted(c)
  <2>1. targetTail[c] \in TailOffset /\ Answer(c, targetTail[c], TRUE)
        /\ Covers(Later(clientTail[c], targetTail[c]))
    BY <1>4 DEF RepairCompleted, SealInv, RepairsCover, TypeOK
  <2> QED
    BY <2>1, AnswerSeal
<1>5. CASE RestartFindTail(c) \/ AssistSeal(c) \/ FindTailFails(c)
  <2>1. /\ Remote /\ UNCHANGED <<serverTail, sealed, clientTail, sealedTails>> /\ Forget(c)
        /\ \E p \in {"idle", "gather", "sealing"} : phase' = [phase EXCEPT ![c] = p]
    BY <1>5 DEF RestartFindTail, AssistSeal, FindTailFails, Remote
  <2>2. Forward
    BY <2>1, ForwardKept, TailsAreNat DEF Remote
  <2>3. \A d \in Client : phase'[d] = "repair" => phase[d] = "repair" /\ d # c
    BY <2>1 DEF TypeOK
  <2>4. Respectful /\ (ReportsCover' => SealInv')
    BY <2>1, <2>2, <2>3, ForgetsSeals, FinderStep
  <2> QED
    BY <2>1, <2>4, ReportsStay DEF SealInv
<1>6. CASE FindTail(c) \/ WaitForTail(c) \/ NodeGotSealed(c)
  <2>1. /\ Remote /\ UNCHANGED <<serverTail, sealed, clientTail, sealedTails, known, knownSealed>>
        /\ \E p \in {"gather", "wait"} : phase' = [phase EXCEPT ![c] = p]
        /\ targetTail' = targetTail \/ \E t : targetTail' = [targetTail EXCEPT ![c] = t]
    BY <1>6 DEF FindTail, WaitForTail, NodeGotSealed, Remote
  <2>2. Forward
    BY <2>1, ForwardKept, TailsAreNat DEF Remote
  <2>3. \A d \in Client : phase'[d] = "repair" => phase[d] = "repair" /\ targetTail'[d] = targetTail[d]
    BY <2>1 DEF TypeOK
  <2>4. Respectful /\ (ReportsCover' => SealInv')
    BY <2>1, <2>2, <2>3, FinderStep
  <2> QED
    BY <2>1, <2>4, ReportsStay DEF SealInv
<1>7. CASE Appended(c)
  <2>1. /\ Remote /\ UNCHANGED <<serverTail, sealed, sealedTails, known, knownSealed, phase, targetTail>>
        /\ clientTail' = [clientTail EXCEPT ![c] = Later(@, seqTail)]
    BY <1>7 DEF Appended, Remote
  <2>2. Forward
    BY <2>1, AnswerForward, TailsAreNat DEF Remote
  <2>3. Respectful /\ (ReportsCover' => SealInv')
    BY <2>1, <2>2, FinderStep
  <2> QED
    BY <2>1, <2>3, ReportsStay DEF SealInv
<1>8. CASE RecordRepaired(c) \/ \E n \in Node : SendRepairStore(c, n)
  <2>1. Remote /\ UNCHANGED <<serverTail, sealed, sealedTails, clientTail, known, knownSealed, phase, targetTail>>
    BY <1>8 DEF RecordRepaired, SendRepairStore, Remote, clientVars
  <2>2. Forward
    BY <2>1, ForwardKept, TailsAreNat DEF Remote
  <2>3. Respectful /\ (ReportsCover' => SealInv')
    BY <2>1, <2>2, FinderStep
  <2> QED
    BY <2>1, <2>3, ReportsStay DEF SealInv
<1>9. ASSUME NEW n \in Node, Read(c, n) \/ SealNode(c, n) \/ GetDigest(c, n) PROVE SealInv'
  <2>1. /\ Remote /\ Exchange(c, n) /\ UNCHANGED <<known, knownSealed, phase, targetTail, sealedTails>>
        /\ sealed' \in {sealed, [sealed EXCEPT ![n] = TRUE]}
    BY <1>9 DEF Read, SealNode, GetDigest, Remote
  <2>2. KnownForward /\ SealsStay
    BY <2>1, TailsAreNat DEF KnownForward, SealsStay, TypeOK
  <2>3. SealsKnown'
    BY <2>1, <2>2 DEF SealsStay, SealsKnown, SealInv, TypeOK
  <2> QED
    BY <2>1, <2>2, <2>3, ExchangeSeal
<1> QED
  BY <1>1, <1>2, <1>3, <1>4, <1>5, <1>6, <1>7, <1>8, <1>9, StartRepairSeal, GetLogletInfoSeal DEF ClientNext

-----------------------------------------------------------------------------

LEMMA InitSealInv == Init => SealInv
<1> SUFFICES ASSUME Init PROVE SealInv
  OBVIOUS
<1>1. AppenderInv
  BY DEF Init, AppenderInv, AppenderOK
<1>2. PromisesSeen /\ AcksSeen
  BY DEF Init, PromisesSeen, Promised, AcksSeen
<1>3. SealsKnown /\ DrainSealed /\ ReportsCover /\ RepairsCover /\ SequencerReports
  BY DEF Init, SealsKnown, DrainSealed, ReportsCover, RepairsCover, SequencerReports
<1> QED
  BY <1>1, <1>2, <1>3 DEF SealInv

LEMMA StutterSeal ==
    ASSUME TypeOK, TypeOK', SealInv, UNCHANGED vars
    PROVE  SealInv'
<1> USE DEF vars, serverVars, netVars, seqVars, clientVars, repairVars
<1>1. seqTail <= seqTail'
  BY TailsAreNat
<1>2. AppenderInv' /\ PromisesJustified /\ AcksJustified
  BY <1>1, AppendersKept DEF SealInv
<1> QED
  BY <1>2, SequencerKeeps

(* SealedTailsCoverAcks: once the sequencer after its drain, or a finder    *)
(* from an f-majority of sealed nodes, with or without a repair, has        *)
(* reported "sealed at N", no append at or above N is or will be            *)
(* acknowledged, for every number of processes that seal, find the tail and *)
(* repair at once, unless a log server forgets a known global tail on the   *)
(* strength of which it has answered a store (see the run loglet_restart).  *)
THEOREM SealedTailsCoverAcks == ~TailLostOnRestart => (Spec => []SealedTailCoversAcks)
<1> SUFFICES ASSUME ~TailLostOnRestart PROVE Spec => []SealedTailCoversAcks
  OBVIOUS
<1>1. SealInv /\ TypeOK /\ TypeOK' /\ [Next]_vars => SealInv'
  <2> SUFFICES ASSUME SealInv, TypeOK, TypeOK', [Next]_vars PROVE SealInv'
    OBVIOUS
  <2> QED
    BY SequencerSeal, ServerSeal, ClientSeal, StutterSeal DEF Next
<1>2. SealInv => SealedTailCoversAcks
  BY DEF SealInv, ReportsCover, Covers, SealedTailCoversAcks, Acked
<1> QED
  BY InitSealInv, TypeCorrect, <1>1, <1>2, PTL DEF Spec
=============================================================================
