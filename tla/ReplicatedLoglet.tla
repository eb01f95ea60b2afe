-------------------------- MODULE ReplicatedLoglet --------------------------
(***************************************************************************)
(* One replicated loglet of bifrost: its log servers, its sequencer and    *)
(* the remote processes that find its tail, seal it and repair it          *)
(* (crates/bifrost/src/providers/replicated_loglet and the request         *)
(* handlers of crates/log-server/src/loglet_worker.rs).                    *)
(*                                                                         *)
(* The sequencer assigns offsets; one appender per batch stores the batch  *)
(* on a write quorum in waves and then moves the known global tail.  A     *)
(* loglet is sealed by sealing an f-majority of its log servers, which     *)
(* races with appends in flight.  Any other process may look for the tail  *)
(* without the sequencer: it asks the log servers, seals them if the tail  *)
(* is not stable, and re-replicates the records of an unstable tail.       *)
(*                                                                         *)
(* Abstracted:                                                             *)
(*   - a batch is one record; records have no contents, only offsets;      *)
(*   - the write of a log server is one step (LogletWorker opens it up);   *)
(*   - an RPC of a remote process to a log server is one step, except      *)
(*     stores, which stay in flight as long as they like; a lost request   *)
(*     or reply is a step that is not taken.  Stores of the sequencer have *)
(*     separate request and reply messages;                                *)
(*   - gray lists and cluster liveness only restrict the spread, which is  *)
(*     therefore any write quorum;                                         *)
(*   - trimming and reading of records.                                    *)
(***************************************************************************)
EXTENDS Naturals, FiniteSets

CONSTANTS
    Node,               \* log servers of the node set
    Client,             \* processes that have a remote (non-sequencer) loglet
    WriteQuorums,       \* sets of nodes that check_write_quorum accepts
    FMajorities,        \* sets of nodes that check_fmajority accepts
    WriteableNodes,     \* nodes whose storage state allows new records
    Spreads,            \* spreads that the spread selector may pick for a wave
    OffsetSoftLimit,    \* MAX_OFFSET_SOFT
    MaxWaves,           \* bound on the waves of an appender (the code retries forever)
    SequencerMaySeal,   \* whether the sequencer's process seals or checks for a seal at all
    TailLostOnRestart   \* whether a log server may restart before it persisted its known global tail

Sequencer == "sequencer"

ASSUME LogletAssumption ==
    /\ IsFiniteSet(Node)
    /\ Sequencer \notin Client
    /\ WriteQuorums \subseteq SUBSET Node
    /\ FMajorities \subseteq SUBSET Node
    /\ WriteableNodes \subseteq Node
    /\ \A S \in Spreads : S \subseteq WriteableNodes /\ \E Q \in WriteQuorums : Q \subseteq S
    /\ MaxWaves \in Nat
    /\ OffsetSoftLimit \in Nat /\ OffsetSoftLimit > 2
    /\ SequencerMaySeal \in BOOLEAN
    /\ TailLostOnRestart \in BOOLEAN

(* What FMajorityIntersects of NodeSetChecker says of the two checks. *)
ASSUME QuorumAssumption ==
    \A Q \in WriteQuorums, F \in FMajorities : Q \cap F # {}

OLDEST == 1

Offset == OLDEST .. OffsetSoftLimit - 2

TailOffset == OLDEST .. OffsetSoftLimit - 1

VARIABLES
    \* log servers: the records they hold and LogletState
    stored, localTail, sealed, serverTail,
    \* network: stores on their way to a server, replies on their way to an appender
    stores, replies,
    \* sequencer and its known_global_tail (seqTail, and sealPhase = "sealed" for its seal)
    nextOffset, seqTail, sealPhase, closed,
    \* RemoteLogServerManager: the sequencer's view of the servers' local tails
    watchTail, watchSealed,
    \* SequencerAppender of every offset: state, store tasks of the wave, node attributes
    appender, wave, task, attr,
    \* remote loglets: their known_global_tail and the find-tail procedure
    clientTail, clientSealed, phase, known, knownSealed, floor,
    \* RepairTail / Digests of a remote loglet
    startOffset, targetTail, digests, copies,
    \* history: the tails that were reported together with "sealed"
    sealedTails

serverVars == <<stored, localTail, sealed, serverTail>>
netVars    == <<stores, replies>>
seqVars    == <<nextOffset, seqTail, sealPhase, closed>>
watchVars  == <<watchTail, watchSealed>>
appVars    == <<appender, wave, task, attr>>
clientVars == <<clientTail, clientSealed, phase, known, knownSealed, floor>>
repairVars == <<startOffset, targetTail, digests, copies>>

vars == <<serverVars, netVars, seqVars, watchVars, appVars, clientVars, repairVars, sealedTails>>

-----------------------------------------------------------------------------

IsWriteQuorum(S) == \E Q \in WriteQuorums : Q \subseteq S

IsFMajority(S) == \E F \in FMajorities : F \subseteq S

\* the larger of two offsets: TailOffsetWatch::notify_offset_update and update_global_tail
Later(a, b) == IF a >= b THEN a ELSE b

IsMaximum(t, S) == t \in S /\ \A u \in S : u <= t

Unknown == 0

Nodes(c) == {n \in Node : known[c][n] # Unknown}

\* the nodes whose local tail, as far as the client knows, has reached t
Reached(c, t) == {n \in Nodes(c) : known[c][n] >= t}

Ended == {"done", "sealed", "cancelled", "unavailable"}

Acked == {o \in Offset : appender[o] = "done"}

Init ==
    /\ stored = [n \in Node |-> {}]
    /\ localTail = [n \in Node |-> OLDEST]
    /\ sealed = [n \in Node |-> FALSE]
    /\ serverTail = [n \in Node |-> OLDEST]
    /\ stores = {} /\ replies = {}
    /\ nextOffset = OLDEST /\ seqTail = OLDEST
    /\ sealPhase = "open" /\ closed = FALSE
    /\ watchTail = [n \in Node |-> OLDEST]
    /\ watchSealed = [n \in Node |-> FALSE]
    /\ appender = [o \in Offset |-> "none"]
    /\ wave = [o \in Offset |-> 0]
    /\ task = [o \in Offset |-> [n \in Node |-> "none"]]
    /\ attr = [o \in Offset |-> [n \in Node |-> "none"]]
    /\ clientTail = [c \in Client |-> OLDEST]
    /\ clientSealed = [c \in Client |-> FALSE]
    /\ phase = [c \in Client |-> "idle"]
    /\ known = [c \in Client |-> [n \in Node |-> Unknown]]
    /\ knownSealed = [c \in Client |-> {}]
    /\ floor = [c \in Client |-> OLDEST]
    /\ startOffset = [c \in Client |-> OLDEST]
    /\ targetTail = [c \in Client |-> OLDEST]
    /\ digests = [c \in Client |-> {}]
    /\ copies = [c \in Client |-> [o \in Offset |-> {}]]
    /\ sealedTails = {}

-----------------------------------------------------------------------------
(* Sequencer and appenders *)

\* mutant: no headroom below the soft limit
EnqueueBatch_past_limit ==
    /\ sealPhase # "sealed"
    /\ nextOffset < OffsetSoftLimit
    /\ nextOffset' = nextOffset + 1
    /\ UNCHANGED <<serverVars, netVars, seqTail, sealPhase, closed, watchVars, appVars, clientVars,
                   repairVars, sealedTails>>

\* enqueue_batch.  Closing the permits does not stop a caller that already
\* holds one; its appender starts with a cancelled token.
EnqueueBatch ==
    /\ sealPhase # "sealed"
    /\ nextOffset + 1 < OffsetSoftLimit
    /\ nextOffset' = nextOffset + 1
    /\ appender' = [appender EXCEPT ![nextOffset] = IF closed THEN "cancelled" ELSE "ready"]
    /\ UNCHANGED <<serverVars, netVars, seqTail, sealPhase, closed, watchVars, wave, task, attr,
                   clientVars, repairVars, sealedTails>>

\* enqueue_batch at the soft limit: the sequencer is drained but not sealed
OffsetsExhausted ==
    /\ sealPhase # "sealed" /\ ~closed
    /\ nextOffset + 1 >= OffsetSoftLimit
    /\ closed' = TRUE
    /\ UNCHANGED <<serverVars, netVars, nextOffset, seqTail, sealPhase, watchVars, appVars,
                   clientVars, repairVars, sealedTails>>

\* the appender ends: its store tasks are aborted and its checker is dropped
EndAppender(o, state) ==
    /\ appender' = [appender EXCEPT ![o] = state]
    /\ task' = [task EXCEPT ![o] = [n \in Node |-> "none"]]
    /\ attr' = [attr EXCEPT ![o] = [n \in Node |-> "none"]]
    /\ wave' = [wave EXCEPT ![o] = 0]
    /\ replies' = {r \in replies : r.offset # o}

WithAttr(o, a) == {n \in Node : attr[o][n] = a}

\* the beginning of send_wave: pick a spread and start its store tasks
SendWave(o) ==
    /\ appender[o] = "ready" /\ ~closed /\ wave[o] < MaxWaves
    /\ wave' = [wave EXCEPT ![o] = @ + 1]
    /\ \E S \in Spreads : task' = [task EXCEPT ![o] =
           [n \in Node |-> IF n \in S /\ attr[o][n] = "none" THEN "waiting" ELSE "none"]]
    /\ appender' = [appender EXCEPT ![o] = "wave"]
    /\ UNCHANGED <<serverVars, netVars, seqVars, watchVars, attr, clientVars, repairVars, sealedTails>>

\* generate_spread fails even after the gray list was reset to the sealed nodes
WriteUnavailable(o) ==
    /\ appender[o] = "ready" /\ ~closed
    /\ ~IsWriteQuorum(WriteableNodes \ WithAttr(o, "sealed"))
    /\ EndAppender(o, "unavailable")
    /\ UNCHANGED <<serverVars, stores, seqVars, watchVars, clientVars, repairVars, sealedTails>>

\* mutant: the store task does not wait
GateOpen_at_once(o, n) == ~watchSealed[n] /\ sealPhase # "sealed"

\* LogServerStoreTask waits for the server's local tail or the known global tail
GateOpen(o, n) ==
    \/ watchTail[n] >= o /\ ~watchSealed[n]
    \/ seqTail >= o /\ sealPhase # "sealed"

SendStore(o, n) ==
    /\ task[o][n] = "waiting" /\ GateOpen(o, n)
    /\ task' = [task EXCEPT ![o][n] = "sent"]
    /\ stores' = stores \cup {[offset |-> o, node |-> n, tail |-> seqTail, from |-> Sequencer,
                               wave |-> wave[o]]}
    /\ UNCHANGED <<serverVars, replies, seqVars, watchVars, appender, wave, attr, clientVars,
                   repairVars, sealedTails>>

\* ... and ends early if either is sealed
SkipSealedNode(o, n) ==
    /\ task[o][n] = "waiting"
    /\ \/ /\ sealPhase = "sealed"
          /\ EndAppender(o, "sealed")
       \/ /\ sealPhase # "sealed" /\ watchSealed[n]
          /\ task' = [task EXCEPT ![o][n] = "none"]
          /\ attr' = [attr EXCEPT ![o][n] = "sealed"]
          /\ UNCHANGED <<appender, wave, replies>>
    /\ UNCHANGED <<serverVars, stores, seqVars, watchVars, clientVars, repairVars, sealedTails>>

\* the store RPC times out or fails; the request may still reach the server
StoreTimeout(o, n) ==
    /\ task[o][n] = "sent" /\ sealPhase # "sealed"
    /\ task' = [task EXCEPT ![o][n] = "none"]
    /\ replies' = {r \in replies : ~(r.offset = o /\ r.node = n)}
    /\ UNCHANGED <<serverVars, stores, seqVars, watchVars, appender, wave, attr, clientVars,
                   repairVars, sealedTails>>

\* mutant: a node that refused the store counts as a copy
WriteQuorumReached_any_status(r) == IsWriteQuorum(WithAttr(r.offset, "committed") \cup {r.node})

\* check_write_quorum in the join loop of send_wave, after the reply was recorded
WriteQuorumReached(r) ==
    r.status = "Ok" /\ IsWriteQuorum(WithAttr(r.offset, "committed") \cup {r.node})

\* a Stored reply: the store task updates its view of the server, then the
\* join loop of send_wave evaluates the result
Stored(r) ==
    LET o == r.offset
        n == r.node
    IN  /\ r \in replies
        /\ watchTail' = [watchTail EXCEPT ![n] = Later(@, r.tail)]
        /\ watchSealed' = [watchSealed EXCEPT ![n] = @ \/ r.status = "Sealed"]
        /\ \/ /\ sealPhase = "sealed"
              /\ EndAppender(o, "sealed")
              /\ UNCHANGED seqTail
           \/ /\ sealPhase # "sealed" /\ WriteQuorumReached(r)
              /\ seqTail' = Later(seqTail, o + 1)
              /\ EndAppender(o, "done")
           \/ /\ sealPhase # "sealed" /\ ~WriteQuorumReached(r)
              /\ attr' = [attr EXCEPT ![o][n] = IF r.status = "Ok" THEN "committed"
                                                ELSE IF r.status = "Sealed" THEN "sealed" ELSE @]
              /\ task' = [task EXCEPT ![o][n] = "none"]
              /\ replies' = {s \in replies : ~(s.offset = o /\ s.node = n)}
              /\ UNCHANGED <<seqTail, appender, wave>>
        /\ UNCHANGED <<serverVars, stores, nextOffset, sealPhase, closed, clientVars,
                       repairVars, sealedTails>>

\* the end of send_wave: all of its store tasks have ended
EndWave(o) ==
    /\ appender[o] = "wave"
    /\ \A n \in Node : task[o][n] = "none"
    /\ IF IsFMajority(WithAttr(o, "sealed"))
       THEN EndAppender(o, "sealed")
       ELSE /\ appender' = [appender EXCEPT ![o] = "ready"]
            /\ UNCHANGED <<wave, task, attr, replies>>
    /\ UNCHANGED <<serverVars, stores, seqVars, watchVars, clientVars, repairVars, sealedTails>>

\* mutant: the token is only looked at between waves
Cancel_between_waves(o) ==
    /\ closed /\ appender[o] = "ready"
    /\ EndAppender(o, "cancelled")
    /\ UNCHANGED <<serverVars, stores, seqVars, watchVars, clientVars, repairVars, sealedTails>>

\* the appender observes the cancellation token, between waves or within one
Cancel(o) ==
    /\ closed /\ appender[o] \in {"ready", "wave"}
    /\ EndAppender(o, "cancelled")
    /\ UNCHANGED <<serverVars, stores, seqVars, watchVars, clientVars, repairVars, sealedTails>>

\* SealTask run by the sequencer's loglet, on one node
SequencerSealsNode(n) ==
    LET g == Later(serverTail[n], seqTail)
    IN  /\ SequencerMaySeal /\ sealPhase # "sealed"
        /\ sealed' = [sealed EXCEPT ![n] = TRUE]
        /\ serverTail' = [serverTail EXCEPT ![n] = g]
        /\ seqTail' = g
        /\ UNCHANGED <<stored, localTail, netVars, nextOffset, sealPhase, closed, watchVars,
                       appVars, clientVars, repairVars, sealedTails>>

\* CheckSealTask, on one node
CheckSeal(n) ==
    LET g == Later(serverTail[n], seqTail)
    IN  /\ SequencerMaySeal /\ sealPhase # "sealed" /\ ~watchSealed[n]
        /\ serverTail' = [serverTail EXCEPT ![n] = g]
        /\ seqTail' = g
        /\ watchTail' = [watchTail EXCEPT ![n] = Later(@, localTail[n])]
        /\ watchSealed' = [watchSealed EXCEPT ![n] = sealed[n]]
        /\ UNCHANGED <<stored, localTail, sealed, netVars, nextOffset, sealPhase, closed,
                       appVars, clientVars, repairVars, sealedTails>>

\* seal() and find_tail_inner(): once an f-majority is sealed, drain ...
Drain ==
    /\ SequencerMaySeal /\ sealPhase = "open"
    /\ IsFMajority({n \in Node : sealed[n]})
    /\ sealPhase' = "draining" /\ closed' = TRUE
    /\ UNCHANGED <<serverVars, netVars, nextOffset, seqTail, watchVars, appVars, clientVars,
                   repairVars, sealedTails>>

\* ... until no append is in flight, and then set the seal on the known global tail
Drained ==
    /\ sealPhase = "draining"
    /\ \A o \in Offset : appender[o] \in Ended \cup {"none"}
    /\ sealPhase' = "sealed"
    /\ sealedTails' = sealedTails \cup {seqTail}
    /\ UNCHANGED <<serverVars, netVars, nextOffset, seqTail, closed, watchVars, appVars,
                   clientVars, repairVars>>

-----------------------------------------------------------------------------
(* Log servers *)

\* the reply of a store: to the appender if the store task of that wave still
\* waits for it, or to the repair that sent it
Reply(m, status, tail) ==
    IF m.from = Sequencer
    THEN /\ replies' = IF task[m.offset][m.node] = "sent" /\ m.wave = wave[m.offset]
                       THEN replies \cup {[offset |-> m.offset, node |-> m.node,
                                           status |-> status, tail |-> tail]}
                       ELSE replies
         /\ UNCHANGED copies
    ELSE /\ copies' = IF /\ status = "Ok" /\ phase[m.from] = "repair"
                         /\ startOffset[m.from] = m.offset
                      THEN [copies EXCEPT ![m.from][m.offset] = @ \cup {m.node}]
                      ELSE copies
         /\ UNCHANGED replies

\* process_store, up to the durable write and the reply.  A store of a record
\* below the known global tail may be answered without a write: it was latched
\* on to an earlier write or to a seal when the global tail passed it.
ProcessStore(m) ==
    LET n == m.node
        o == m.offset
        g == Later(serverTail[n], m.tail)
        isRepair == m.from # Sequencer
    IN  /\ m \in stores
        /\ stores' = stores \ {m}
        /\ serverTail' = [serverTail EXCEPT ![n] = g]
        /\ \/ /\ ~isRepair /\ sealed[n]
              /\ Reply(m, "Sealed", localTail[n])
              /\ UNCHANGED <<stored, localTail>>
           \/ /\ isRepair \/ ~sealed[n]
              /\ o > Later(localTail[n], g)
              /\ Reply(m, "OutOfBounds", localTail[n])
              /\ UNCHANGED <<stored, localTail>>
           \/ /\ ~isRepair /\ ~sealed[n]
              /\ localTail[n] > o \/ g > o
              /\ Reply(m, "Ok", localTail[n])
              /\ UNCHANGED <<stored, localTail>>
           \/ /\ isRepair \/ (~sealed[n] /\ localTail[n] <= o)
              /\ o <= Later(localTail[n], g)
              /\ stored' = [stored EXCEPT ![n] = @ \cup {o}]
              /\ localTail' = [localTail EXCEPT ![n] = Later(@, o + 1)]
              /\ Reply(m, "Ok", Later(localTail[n], o + 1))
        /\ UNCHANGED <<sealed, seqVars, watchVars, appVars, clientVars, startOffset,
                       targetTail, digests, sealedTails>>

\* a Seal request of which nobody hears the reply: of a seal() call of a remote
\* loglet, or of a SealTask that returned because it had its f-majority
ProcessSeal(n) ==
    /\ ~sealed[n]
    /\ sealed' = [sealed EXCEPT ![n] = TRUE]
    /\ UNCHANGED <<stored, localTail, serverTail, netVars, seqVars, watchVars, appVars, clientVars,
                   repairVars, sealedTails>>

\* mutant: a write that was acknowledged is lost in the crash
Restart_loses_record(n) ==
    /\ TailLostOnRestart
    /\ \E o \in stored[n] : stored' = [stored EXCEPT ![n] = @ \ {o}]
    /\ UNCHANGED <<localTail, sealed, serverTail, netVars, seqVars, watchVars, appVars, clientVars,
                   repairVars, sealedTails>>

\* crash and restart: records and seal are durable, the known global tail is
\* only persisted from time to time
Restart(n) ==
    /\ TailLostOnRestart
    /\ \E t \in OLDEST .. serverTail[n] : serverTail' = [serverTail EXCEPT ![n] = t]
    /\ UNCHANGED <<stored, localTail, sealed, netVars, seqVars, watchVars, appVars, clientVars,
                   repairVars, sealedTails>>

-----------------------------------------------------------------------------
(* Remote loglets *)

\* every request carries the sender's known global tail, every reply the server's
Exchange(c, n) ==
    LET g == Later(serverTail[n], clientTail[c])
    IN  /\ serverTail' = [serverTail EXCEPT ![n] = g]
        /\ clientTail' = [clientTail EXCEPT ![c] = g]

\* GetRecords and the other requests that only exchange tails
Read(c, n) ==
    /\ Exchange(c, n)
    /\ UNCHANGED <<stored, localTail, sealed, netVars, seqVars, watchVars, appVars, clientSealed,
                   phase, known, knownSealed, floor, repairVars, sealedTails>>

\* an Appended response of the sequencer carries its known global tail
Appended(c) ==
    /\ clientTail' = [clientTail EXCEPT ![c] = Later(@, seqTail)]
    /\ UNCHANGED <<serverVars, netVars, seqVars, watchVars, appVars, clientSealed, phase, known,
                   knownSealed, floor, repairVars, sealedTails>>

\* the tails that some process would report if asked
ReportedTails == {clientTail[c] : c \in Client} \cup {seqTail}

\* a find-tail call begins that does not reach the sequencer
FindTail(c) ==
    /\ phase[c] = "idle" /\ ~clientSealed[c]
    /\ phase' = [phase EXCEPT ![c] = "gather"]
    /\ \E t \in TailOffset : IsMaximum(t, ReportedTails) /\ floor' = [floor EXCEPT ![c] = t]
    /\ UNCHANGED <<serverVars, netVars, seqVars, watchVars, appVars, clientTail, clientSealed,
                   known, knownSealed, repairVars, sealedTails>>

\* the client forgets what it collected in a find-tail procedure
Forget(c) ==
    /\ known' = [known EXCEPT ![c] = [n \in Node |-> Unknown]]
    /\ knownSealed' = [knownSealed EXCEPT ![c] = {}]
    /\ startOffset' = [startOffset EXCEPT ![c] = OLDEST]
    /\ targetTail' = [targetTail EXCEPT ![c] = OLDEST]
    /\ digests' = [digests EXCEPT ![c] = {}]
    /\ copies' = [copies EXCEPT ![c] = [o \in Offset |-> {}]]

\* find_tail_inner returns: the result is merged into known_global_tail
Answer(c, tail, isSealed) ==
    /\ clientTail' = [clientTail EXCEPT ![c] = Later(@, tail)]
    /\ clientSealed' = [clientSealed EXCEPT ![c] = @ \/ isSealed]
    /\ phase' = [phase EXCEPT ![c] = "idle"]
    /\ floor' = [floor EXCEPT ![c] = OLDEST]
    /\ Forget(c)
    /\ sealedTails' = IF isSealed THEN sealedTails \cup {Later(clientTail[c], tail)} ELSE sealedTails
    /\ UNCHANGED <<serverVars, netVars, seqVars, watchVars, appVars>>

\* GetSequencerState: the sequencer answers with its known global tail
AskSequencer(c) ==
    /\ phase[c] = "idle" /\ ~clientSealed[c]
    /\ Answer(c, seqTail, sealPhase = "sealed")

\* GetLogletInfo or WaitForTail, on one node
GetLogletInfo(c, n) ==
    /\ phase[c] \in {"gather", "wait"}
    /\ Exchange(c, n)
    /\ known' = [known EXCEPT ![c][n] = Later(@, localTail[n])]
    /\ knownSealed' = [knownSealed EXCEPT ![c] = IF sealed[n] THEN @ \cup {n} ELSE @]
    /\ UNCHANGED <<stored, localTail, sealed, netVars, seqVars, watchVars, appVars, clientSealed,
                   phase, floor, repairVars, sealedTails>>

IsMaxLocalTail(c, t, S) == IsMaximum(t, {known[c][n] : n \in S})

\* mutant: one sealed node is enough
SealedFMajority_one_node(c) == phase[c] = "gather" /\ knownSealed[c] # {}

SealedFMajority(c) == phase[c] = "gather" /\ IsFMajority(knownSealed[c])

\* mutant: any node's word is enough
NoneSealed_one_node(c) ==
    phase[c] \in {"gather", "wait"} /\ Nodes(c) # {} /\ knownSealed[c] = {}

NoneSealed(c) ==
    phase[c] \in {"gather", "wait"} /\ IsFMajority(Nodes(c)) /\ knownSealed[c] = {}

\* continue 'find_tail
RestartFindTail(c) ==
    /\ \/ SealedFMajority(c) /\ \A n \in knownSealed[c] : known[c][n] < clientTail[c]
       \/ phase[c] = "repair"
       \/ phase[c] = "sealing" /\ IsFMajority({n \in Node : sealed[n]})
    /\ phase' = [phase EXCEPT ![c] = "gather"]
    /\ Forget(c)
    /\ UNCHANGED <<serverVars, netVars, seqVars, watchVars, appVars, clientTail, clientSealed,
                   floor, sealedTails>>

\* mutant: the known global tail is reported, whatever the sealed nodes hold above it
FoundSealed_at_known_tail(c) == SealedFMajority(c) /\ Answer(c, clientTail[c], TRUE)

FoundSealed(c) ==
    /\ SealedFMajority(c)
    /\ \E t \in TailOffset :
         /\ IsMaxLocalTail(c, t, knownSealed[c])
         /\ t = clientTail[c] \/ (t > clientTail[c] /\ IsWriteQuorum(Reached(c, t)))
         /\ Answer(c, t, TRUE)

\* no node is known to be sealed: is the tail that was determined first stable?
IsStable(c, t) == IsWriteQuorum(Reached(c, t)) \/ clientTail[c] >= t

\* mutant: the known global tail is reported, whatever the nodes hold above it
FoundOpen_at_known_tail(c) == NoneSealed(c) /\ Answer(c, clientTail[c], FALSE)

FoundOpen(c) ==
    /\ NoneSealed(c)
    /\ \E t \in TailOffset :
         /\ IF phase[c] = "wait" THEN t = targetTail[c] ELSE IsMaxLocalTail(c, t, Nodes(c))
         /\ \/ IsWriteQuorum(Reached(c, t)) /\ Answer(c, t, FALSE)
            \/ clientTail[c] >= t /\ Answer(c, clientTail[c], FALSE)

\* not yet: watch the nodes until the tail becomes stable or a node is sealed
WaitForTail(c) ==
    /\ phase[c] = "gather" /\ NoneSealed(c)
    /\ \E t \in TailOffset :
         /\ IsMaxLocalTail(c, t, Nodes(c)) /\ ~IsStable(c, t)
         /\ targetTail' = [targetTail EXCEPT ![c] = t]
    /\ phase' = [phase EXCEPT ![c] = "wait"]
    /\ UNCHANGED <<serverVars, netVars, seqVars, watchVars, appVars, clientTail, clientSealed,
                   known, knownSealed, floor, startOffset, digests, copies, sealedTails>>

\* continue 'check_nodeset
NodeGotSealed(c) ==
    /\ phase[c] = "wait" /\ knownSealed[c] # {}
    /\ phase' = [phase EXCEPT ![c] = "gather"]
    /\ targetTail' = [targetTail EXCEPT ![c] = OLDEST]
    /\ UNCHANGED <<serverVars, netVars, seqVars, watchVars, appVars, clientTail, clientSealed,
                   known, knownSealed, floor, startOffset, digests, copies, sealedTails>>

\* SealTask: some nodes are sealed, or the tail is not stable and the sequencer is gone
AssistSeal(c) ==
    /\ \/ /\ phase[c] = "gather" /\ IsFMajority(Nodes(c))
          /\ knownSealed[c] # {} /\ ~IsFMajority(knownSealed[c])
       \/ /\ phase[c] = "wait" /\ knownSealed[c] = {}
          /\ ~IsStable(c, targetTail[c]) /\ IsWriteQuorum(Nodes(c))
    /\ phase' = [phase EXCEPT ![c] = "sealing"]
    /\ Forget(c)
    /\ UNCHANGED <<serverVars, netVars, seqVars, watchVars, appVars, clientTail, clientSealed,
                   floor, sealedTails>>

\* SealTask on one node
SealNode(c, n) ==
    /\ phase[c] = "sealing"
    /\ sealed' = [sealed EXCEPT ![n] = TRUE]
    /\ Exchange(c, n)
    /\ UNCHANGED <<stored, localTail, netVars, seqVars, watchVars, appVars, clientSealed, phase,
                   known, knownSealed, floor, repairVars, sealedTails>>

\* not enough nodes answer: the call returns an error
FindTailFails(c) ==
    /\ phase[c] \in {"gather", "wait", "sealing"}
    /\ phase' = [phase EXCEPT ![c] = "idle"]
    /\ floor' = [floor EXCEPT ![c] = OLDEST]
    /\ Forget(c)
    /\ UNCHANGED <<serverVars, netVars, seqVars, watchVars, appVars, clientTail, clientSealed,
                   sealedTails>>

-----------------------------------------------------------------------------
(* RepairTail *)

StartRepair(c) ==
    /\ SealedFMajority(c) /\ IsWriteQuorum(Nodes(c))
    /\ \E t \in TailOffset :
         /\ IsMaxLocalTail(c, t, knownSealed[c])
         /\ t > clientTail[c] /\ ~IsWriteQuorum(Reached(c, t))
         /\ targetTail' = [targetTail EXCEPT ![c] = t]
    /\ phase' = [phase EXCEPT ![c] = "repair"]
    /\ startOffset' = [startOffset EXCEPT ![c] = clientTail[c]]
    /\ known' = [known EXCEPT ![c] = [n \in Node |-> Unknown]]
    /\ knownSealed' = [knownSealed EXCEPT ![c] = {}]
    /\ UNCHANGED <<serverVars, netVars, seqVars, watchVars, appVars, clientTail, clientSealed,
                   floor, digests, copies, sealedTails>>

\* on_digest_message and advance: the range shrinks to above the known global
\* tail, and to above the last offset that already has a write quorum of copies
GetDigest(c, n) ==
    LET g == Later(startOffset[c], Later(serverTail[n], clientTail[c]))
        heard == digests[c] \cup {n}
        found == [o \in Offset |-> IF o \in stored[n] /\ o >= g /\ o < targetTail[c]
                                   THEN copies[c][o] \cup {n} ELSE copies[c][o]]
        durable == {o \in Offset : o >= g /\ o < targetTail[c] /\ IsWriteQuorum(found[o])}
    IN  /\ phase[c] = "repair" /\ n \notin digests[c]
        /\ Exchange(c, n)
        /\ digests' = [digests EXCEPT ![c] = heard]
        /\ copies' = [copies EXCEPT ![c] = found]
        /\ IF IsWriteQuorum(heard) /\ durable # {}
           THEN \E o \in Offset : /\ IsMaximum(o, durable)
                                 /\ startOffset' = [startOffset EXCEPT ![c] = o + 1]
           ELSE startOffset' = [startOffset EXCEPT ![c] = g]
        /\ UNCHANGED <<stored, localTail, sealed, netVars, seqVars, watchVars, appVars,
                       clientSealed, phase, known, knownSealed, floor, targetTail, sealedTails>>

\* replicate_record_and_advance: the record was read, send it to a node without a copy
SendRepairStore(c, n) ==
    LET o == startOffset[c]
    IN  /\ phase[c] = "repair" /\ o < targetTail[c]
        /\ IsWriteQuorum(digests[c])
        /\ \E m \in Node : o \in stored[m]
        /\ n \notin copies[c][o]
        /\ stores' = stores \cup {[offset |-> o, node |-> n, tail |-> o, from |-> c, wave |-> 0]}
        /\ UNCHANGED <<serverVars, replies, seqVars, watchVars, appVars, clientVars, repairVars,
                       sealedTails>>

RecordRepaired(c) ==
    LET o == startOffset[c]
    IN  /\ phase[c] = "repair" /\ o < targetTail[c]
        /\ IsWriteQuorum(digests[c]) /\ IsWriteQuorum(copies[c][o])
        /\ startOffset' = [startOffset EXCEPT ![c] = o + 1]
        /\ UNCHANGED <<serverVars, netVars, seqVars, watchVars, appVars, clientVars, targetTail,
                       digests, copies, sealedTails>>

RepairCompleted(c) ==
    /\ phase[c] = "repair" /\ startOffset[c] >= targetTail[c]
    /\ Answer(c, targetTail[c], TRUE)

-----------------------------------------------------------------------------

SequencerNext ==
    \/ EnqueueBatch \/ OffsetsExhausted \/ Drain \/ Drained
    \/ \E n \in Node : SequencerSealsNode(n) \/ CheckSeal(n)
    \/ \E o \in Offset : SendWave(o) \/ WriteUnavailable(o) \/ EndWave(o) \/ Cancel(o)
    \/ \E o \in Offset, n \in Node : SendStore(o, n) \/ SkipSealedNode(o, n) \/ StoreTimeout(o, n)
    \/ \E r \in replies : Stored(r)

ServerNext ==
    \/ \E m \in stores : ProcessStore(m)
    \/ \E n \in Node : ProcessSeal(n) \/ Restart(n)

ClientNext(c) ==
    \/ FindTail(c) \/ AskSequencer(c) \/ Appended(c) \/ RestartFindTail(c)
    \/ FoundSealed(c) \/ FoundOpen(c) \/ WaitForTail(c) \/ NodeGotSealed(c)
    \/ AssistSeal(c) \/ FindTailFails(c)
    \/ StartRepair(c) \/ RecordRepaired(c) \/ RepairCompleted(c)
    \/ \E n \in Node : \/ Read(c, n) \/ GetLogletInfo(c, n) \/ SealNode(c, n)
                       \/ GetDigest(c, n) \/ SendRepairStore(c, n)

Next == SequencerNext \/ ServerNext \/ \E c \in Client : ClientNext(c)

Spec == Init /\ [][Next]_vars

\* Every appender is polled when its token is cancelled, the drain is polled
\* when the last appender ends, and the periodic tail checker of the sequencer's
\* loglet runs find_tail with ForceSealCheck until it sees the seal.
FairSpec ==
    /\ Spec
    /\ WF_vars(Drain) /\ WF_vars(Drained)
    /\ \A o \in Offset : WF_vars(Cancel(o))

-----------------------------------------------------------------------------

StoreRequest == [offset : Offset, node : Node, tail : TailOffset, from : Client \cup {Sequencer},
                 wave : 0 .. MaxWaves]

StoreReply == [offset : Offset, node : Node, status : {"Ok", "Sealed", "OutOfBounds"}, tail : TailOffset]

(* TypeOK: the shape of the state. *)
TypeOK ==
    /\ stored \in [Node -> SUBSET Offset]
    /\ localTail \in [Node -> TailOffset] /\ serverTail \in [Node -> TailOffset]
    /\ sealed \in [Node -> BOOLEAN]
    /\ stores \subseteq StoreRequest /\ replies \subseteq StoreReply
    /\ nextOffset \in TailOffset /\ seqTail \in TailOffset
    /\ sealPhase \in {"open", "draining", "sealed"} /\ closed \in BOOLEAN
    /\ watchTail \in [Node -> TailOffset] /\ watchSealed \in [Node -> BOOLEAN]
    /\ appender \in [Offset -> {"none", "ready", "wave"} \cup Ended]
    /\ wave \in [Offset -> 0 .. MaxWaves]
    /\ task \in [Offset -> [Node -> {"none", "waiting", "sent"}]]
    /\ attr \in [Offset -> [Node -> {"none", "committed", "sealed"}]]
    /\ clientTail \in [Client -> TailOffset] /\ clientSealed \in [Client -> BOOLEAN]
    /\ phase \in [Client -> {"idle", "gather", "wait", "sealing", "repair"}]
    /\ known \in [Client -> [Node -> TailOffset \cup {Unknown}]]
    /\ knownSealed \in [Client -> SUBSET Node]
    /\ floor \in [Client -> TailOffset]
    /\ startOffset \in [Client -> TailOffset] /\ targetTail \in [Client -> TailOffset]
    /\ digests \in [Client -> SUBSET Node]
    /\ copies \in [Client -> [Offset -> SUBSET Node]]
    /\ sealedTails \subseteq TailOffset

Committed(o) == IsWriteQuorum({n \in Node : o \in stored[n]})

CommittedUpTo(t) == \A o \in Offset : o < t => Committed(o)

(* KnownTailsCommitted: whatever anyone believes about the tail, every      *)
(* record below it is stored on a write quorum: below the known global tail *)
(* of the sequencer, of every log server and of every remote loglet, below  *)
(* the offset of every acknowledged append, below the tails that travel in  *)
(* stores.  Tails spread from process to process in the headers of all      *)
(* requests, are moved by appenders that complete out of order and by       *)
(* finders that only heard a part of the nodes, and a server accepts a      *)
(* record above a hole if the known global tail covers the hole.            *)
KnownTailsCommitted ==
    /\ CommittedUpTo(seqTail)
    /\ \A n \in Node : CommittedUpTo(serverTail[n])
    /\ \A c \in Client : CommittedUpTo(clientTail[c])
    /\ \A o \in Acked : CommittedUpTo(o + 1)
    /\ \A m \in stores : CommittedUpTo(m.tail)

(* SealedTailCoversAcks: invariant (d) of find_tail.rs.  Once a process has *)
(* reported "sealed at N" (the sequencer after its drain, or a finder from  *)
(* an f-majority of sealed nodes, with or without a repair), no append at   *)
(* or above N is or will be acknowledged, although the sequencer knows      *)
(* nothing of the seal and stores are still in flight.                      *)
SealedTailCoversAcks == \A t \in sealedTails, o \in Acked : o < t

(* RepairFindsRecords: a tail repair never looks for a record that no node  *)
(* ever stored: the local tail of a sealed node, which becomes the target   *)
(* of the repair, has no holes but those some write quorum fills.           *)
RepairFindsRecords ==
    \A c \in Client : phase[c] = "repair" =>
        \A o \in Offset : startOffset[c] <= o /\ o < targetTail[c] => \E n \in Node : o \in stored[n]

(* StoresInBounds: the gate of LogServerStoreTask makes OutOfBounds an      *)
(* answer that a log server never gives (the appender logs it as            *)
(* unexpected): when a store is sent, and whenever it arrives later, the    *)
(* records before it are on that server or below the tail it carries.       *)
StoresInBounds ==
    \A m \in stores : m.offset <= Later(localTail[m.node], Later(serverTail[m.node], m.tail))

(* DirectAnswerIsCurrent: invariant (a) of find_tail.rs, for the answers    *)
(* that come from the log servers: a find-tail call returns at least every  *)
(* tail that any process would have reported when the call began.           *)
DirectAnswerIsCurrent ==
    [][\A c \in Client :
         FoundSealed(c) \/ FoundOpen(c) \/ RepairCompleted(c) => clientTail'[c] >= floor[c]]_vars

(* SealIsObserved: once an f-majority of the log servers is sealed, by      *)
(* whomever, every append ends and the sequencer reports the loglet sealed, *)
(* although store tasks may be waiting for tails that will never come.      *)
SealIsObserved ==
    IsFMajority({n \in Node : sealed[n]}) ~>
        /\ sealPhase = "sealed"
        /\ \A o \in Offset : appender[o] \in Ended \cup {"none"}
=============================================================================
