-------------------------- MODULE ReadStreamProofs --------------------------
(***************************************************************************)
(* The reader of a log for all numbers of segments and records and all     *)
(* trim points: the type invariant, and that it reads the log.             *)
(***************************************************************************)
EXTENDS ReadStream, ChainProofs, TLAPS

-----------------------------------------------------------------------------
(* The inductive invariant.  As in LogChainProofs there is a timeline B:   *)
(* B[i] is where segment i starts and B[i + 1] where it ends.  A segment   *)
(* of the chain starts where its loglet says it does, and ends not before  *)
(* the lowest and not after the highest tail that was reported.            *)

Points == 0 .. MaxIndex + 1

LastIndex == TailIndex(Chain)

LastPos == End(Chain)

LogShape ==
    /\ versions \in Seq(ChainSet) /\ Latest >= 1 /\ view \in 1 .. Latest
    /\ base \in [Index -> Lsn \cup {INVALID}] /\ tail \in [Index -> Lsn] /\ top \in [Index -> Lsn]
    /\ sealed \in [Index -> BOOLEAN] /\ bound \in [Index -> OLDEST .. MaxLsn + 1]
    /\ trimPoint \in [Index -> Lsn \cup {INVALID}]
    /\ known \in [Index -> Lsn] /\ knownSealed \in [Index -> BOOLEAN]

Wrapper == [base : Nat, index : Index \cup {-1}, marker : BOOLEAN, end : Nat]

ReaderShape ==
    /\ state \in States /\ readPointer \in Lsn /\ substream \in Wrapper
    /\ safeKnownTail \in Nat /\ tailChanged \in BOOLEAN
    /\ wakers \subseteq {"tail", "metadata", "substream", "timeout"}
    /\ delivered \subseteq [lsn : Lsn, index : Index]

\* every version is a stretch of the timeline, a later one reaches as far or further
VersionsFit(B) ==
    /\ B \in [Points -> Lsn] /\ Rising(B, LastPos)
    /\ LastIndex <= MaxIndex
    /\ \A v \in 1 .. Latest :
          /\ End(versions[v]) \in Nat /\ Fits(versions[v], B, End(versions[v]))
          /\ TailIndex(versions[v]) <= LastIndex
          /\ \A w \in v .. Latest : End(versions[v]) <= End(versions[w])

\* only what is at or below a trim point is missing from a chain
ChainTrimmed(chain, B) ==
    \/ OLDEST \in DOMAIN chain
    \/ \E i \in 0 .. LastIndex, c \in DOMAIN chain :
          trimPoint[i] # INVALID /\ c <= OffsetBy(B[i], trimPoint[i]) + 1

TrimsFit(B) == \A v \in 1 .. Latest : ChainTrimmed(versions[v], B)

LogletFits(i, B) ==
    /\ tail[i] <= top[i] /\ tail[i] <= bound[i] /\ trimPoint[i] < top[i]
    /\ known[i] <= top[i]
    /\ OpenTailsBounded /\ ~knownSealed[i] => known[i] <= bound[i]
    /\ IF i <= LastIndex THEN base[i] = B[i] /\ OffsetBy(B[i], top[i]) <= MaxLsn
       ELSE base[i] = INVALID /\ top[i] = OLDEST /\ ~sealed[i]

LogletsFit(B) == \A i \in Index : LogletFits(i, B)

EndsFit(B) ==
    \A i \in 0 .. LastPos - 1 :
        OffsetBy(B[i], bound[i]) <= B[i + 1] /\ B[i + 1] <= OffsetBy(B[i], top[i])

\* the record is in its segment, and will be wherever that ends
RecordFits(d, B) ==
    /\ d.index <= LastIndex /\ B[d.index] <= d.lsn /\ d.lsn < OffsetBy(B[d.index], top[d.index])
    /\ OpenTailsBounded /\ d.index < LastPos => d.lsn < B[d.index + 1]

DeliveredFit(B) == \A d \in delivered : RecordFits(d, B)

\* the substream x is of a segment that the chain has or had, with its end if it is known
SubstreamFits(x, B) ==
    /\ x.index \in 0 .. LastIndex /\ Pos(x) <= LastPos
    /\ x.base = B[Pos(x)] /\ x.base <= readPointer
    /\ x.end # INVALID => ~x.marker /\ x.index < LastPos /\ x.end = B[x.index + 1]

\* the tail that it may read to in a segment without an end
SafeTailFits(x, safe) ==
    x.end = INVALID /\ ~x.marker =>
        /\ safe <= OffsetBy(x.base, top[x.index])
        /\ OpenTailsBounded => safe <= OffsetBy(x.base, bound[x.index])

ReaderFits(B) ==
    IF state = "FindingLoglet" THEN substream = NoSubstream
    ELSE SubstreamFits(substream, B) /\ (state = "Reading" => SafeTailFits(substream, safeKnownTail))

OneTimeline(B) ==
    /\ VersionsFit(B) /\ TrimsFit(B) /\ LogletsFit(B) /\ EndsFit(B)
    /\ DeliveredFit(B) /\ ReaderFits(B)

ReadInv ==
    /\ LogShape /\ ReaderShape /\ NothingSkipped
    /\ \E B \in [Points -> Lsn] : OneTimeline(B)

-----------------------------------------------------------------------------
(* Facts about one state *)

LEMMA Numbers ==
    /\ MaxLsn \in Nat \ {0} /\ MaxIndex \in Nat
    /\ Index = 0 .. MaxIndex /\ Lsn = 1 .. MaxLsn /\ Points = 0 .. MaxIndex + 1
    /\ OLDEST = 1 /\ INVALID = 0
  BY ReadStreamAssumption DEF Index, Lsn, Points, OLDEST, INVALID

\* the versions of a state, with the indexes and positions of their tails
LEMMA VersionFacts ==
    ASSUME LogShape, NEW B, VersionsFit(B), NEW v \in 1 .. Latest
    PROVE  LET chain == versions[v]  K == End(chain)  I == TailIndex(chain) IN
           /\ Fits(chain, B, K) /\ Rising(B, K) /\ K \in Nat /\ I \in Nat
           /\ I <= LastIndex /\ K <= LastPos
           /\ IsSealed(chain) => K = I + 1
           /\ ~IsSealed(chain) => K = I
           /\ IsSealed(chain) \in BOOLEAN
           /\ TailBase(chain) = B[K] /\ B[K] \in DOMAIN chain
           /\ \A b \in DOMAIN chain : b <= B[K]
           /\ chain \in ChainSet
  <1> DEFINE chain == versions[v]
             K == End(chain)
  <1>1. Latest \in Nat /\ v \in Nat /\ v <= Latest /\ Latest \in v .. Latest /\ Latest \in 1 .. Latest
    BY DEF LogShape, Latest
  <1>2. /\ Fits(chain, B, K) /\ K \in Nat /\ TailIndex(chain) <= LastIndex
        /\ K <= End(versions[Latest]) /\ End(versions[Latest]) \in Nat
    BY <1>1 DEF VersionsFit
  <1>3. K <= LastPos /\ LastPos \in Nat /\ Rising(B, LastPos)
    BY <1>2 DEF LastPos, Chain, VersionsFit
  <1>4. Rising(B, K)
    <2>1. \A k \in 0 .. K : k \in 0 .. LastPos
      BY <1>2, <1>3
    <2> QED
      BY <1>3, <2>1 DEF Rising
  <1> HIDE DEF K
  <1>5. /\ TailBase(chain) = B[K] /\ B[K] \in DOMAIN chain
        /\ \A b \in DOMAIN chain : b <= B[K]
        /\ IsSealed(chain) = chain[B[K]].marker
        /\ TailIndex(chain) \in Nat
        /\ IsSealed(chain) => K = TailIndex(chain) + 1
        /\ ~IsSealed(chain) => K = TailIndex(chain)
    BY <1>2, <1>4, FitsTail
  <1>6. chain \in ChainSet
    BY <1>2 DEF Fits
  <1>7. IsSealed(chain) \in BOOLEAN
    BY <1>5, <1>6, ChainFields
  <1> QED
    BY <1>2, <1>3, <1>4, <1>5, <1>6, <1>7 DEF K

LEMMA LastFacts ==
    ASSUME LogShape, NEW B, VersionsFit(B)
    PROVE  /\ LastIndex \in Nat /\ LastIndex \in Index /\ LastIndex <= MaxIndex
           /\ LastPos \in Nat /\ LastPos \in {LastIndex, LastIndex + 1} /\ LastPos <= MaxIndex + 1
           /\ IsSealed(Chain) => LastPos = LastIndex + 1
           /\ ~IsSealed(Chain) => LastPos = LastIndex
           /\ IsSealed(Chain) \in BOOLEAN
           /\ Fits(Chain, B, LastPos) /\ Rising(B, LastPos) /\ Chain \in ChainSet
           /\ TailBase(Chain) = B[LastPos] /\ B[LastPos] \in DOMAIN Chain
           /\ Latest \in Nat /\ Latest \in 1 .. Latest
  <1>1. Latest \in 1 .. Latest /\ Latest \in Nat /\ LastIndex <= MaxIndex
    BY DEF LogShape, Latest, VersionsFit
  <1>2. /\ Fits(Chain, B, LastPos) /\ Rising(B, LastPos) /\ LastPos \in Nat /\ LastIndex \in Nat
        /\ IsSealed(Chain) => LastPos = LastIndex + 1
        /\ ~IsSealed(Chain) => LastPos = LastIndex
        /\ TailBase(Chain) = B[LastPos] /\ B[LastPos] \in DOMAIN Chain
        /\ Chain \in ChainSet /\ IsSealed(Chain) \in BOOLEAN
    BY <1>1, VersionFacts DEF Chain, LastPos, LastIndex
  <1>3. LastPos \in {LastIndex, LastIndex + 1} /\ LastPos <= MaxIndex + 1 /\ LastIndex \in Index
    BY <1>1, <1>2, Numbers
  <1> QED
    BY <1>1, <1>2, <1>3

LEMMA BasesAre ==
    ASSUME NEW B, VersionsFit(B)
    PROVE  /\ \A k \in Points : B[k] \in Lsn /\ B[k] \in Nat /\ B[k] >= 1 /\ B[k] <= MaxLsn
           /\ \A i \in Index : i \in Nat /\ i \in Points /\ i + 1 \in Points
  <1>1. B \in [Points -> Lsn]
    BY DEF VersionsFit
  <1>2. \A k \in Points : B[k] \in Lsn
    BY <1>1
  <1>3. \A x \in Lsn : x \in Nat /\ x >= 1 /\ x <= MaxLsn
    BY Numbers
  <1> QED
    BY <1>2, <1>3, Numbers

\* the numbers of a loglet
LEMMA LogletFacts ==
    ASSUME LogShape, NEW i \in Index
    PROVE  /\ tail[i] \in Nat /\ top[i] \in Nat /\ bound[i] \in Nat /\ trimPoint[i] \in Nat
           /\ known[i] \in Nat /\ tail[i] >= 1 /\ top[i] >= 1 /\ bound[i] >= 1 /\ known[i] >= 1
           /\ top[i] <= MaxLsn /\ bound[i] <= MaxLsn + 1 /\ i \in Nat
           /\ sealed[i] \in BOOLEAN /\ knownSealed[i] \in BOOLEAN
  <1>1. /\ tail[i] \in Lsn /\ top[i] \in Lsn /\ known[i] \in Lsn
        /\ bound[i] \in OLDEST .. MaxLsn + 1 /\ trimPoint[i] \in Lsn \cup {INVALID}
        /\ sealed[i] \in BOOLEAN /\ knownSealed[i] \in BOOLEAN
    BY DEF LogShape
  <1> QED
    BY <1>1, Numbers

\* the base and the highest tail of a segment that the chain has or had
LEMMA SegmentFacts ==
    ASSUME LogShape, NEW B, OneTimeline(B), NEW i \in 0 .. LastIndex
    PROVE  /\ i \in Index /\ base[i] = B[i] /\ B[i] \in Nat /\ B[i] >= 1
           /\ OffsetBy(B[i], top[i]) <= MaxLsn
  <1>1. VersionsFit(B)
    BY DEF OneTimeline
  <1>2. i \in Index
    BY <1>1, LastFacts, Numbers
  <1>3. i <= LastIndex
    BY <1>1, LastFacts
  <1> QED
    BY <1>1, <1>2, <1>3, BasesAre DEF OneTimeline, LogletsFit, LogletFits

LEMMA MinTwo ==
    ASSUME NEW a \in Int, NEW b \in Int
    PROVE  /\ Min({a, b}) \in {a, b} /\ Min({a, b}) \in Int
           /\ Min({a, b}) <= a /\ Min({a, b}) <= b
  <1>1. \E x \in {a, b} : \A y \in {a, b} : x <= y
    <2>1. CASE a <= b
      BY <2>1
    <2>2. CASE b <= a
      BY <2>2
    <2> QED
      BY <2>1, <2>2
  <1>2. Min({a, b}) \in {a, b} /\ \A y \in {a, b} : Min({a, b}) <= y
    BY <1>1 DEF Min
  <1> QED
    BY <1>2

LEMMA MaxTwo ==
    ASSUME NEW a \in Int, NEW b \in Int
    PROVE  /\ Max({a, b}) \in {a, b} /\ Max({a, b}) \in Int
           /\ a <= Max({a, b}) /\ b <= Max({a, b})
  <1>1. \E x \in {a, b} : \A y \in {a, b} : x >= y
    <2>1. CASE a <= b
      BY <2>1
    <2>2. CASE b <= a
      BY <2>2
    <2> QED
      BY <2>1, <2>2
  <1>2. Max({a, b}) \in {a, b} /\ \A y \in {a, b} : Max({a, b}) >= y
    BY <1>1 DEF Max
  <1> QED
    BY <1>2

-----------------------------------------------------------------------------
(* Steps that leave the versions alone *)

\* the reader stays in its state, or goes on to wait for the chain
StateKept ==
    \/ state' = state
    \/ state # "FindingLoglet" /\ state' \in {"AwaitingOrSealChain", "SealingChain"}

\* the tails of the loglets grow, the lowest sealed tails go down, but not below the highest
\* tail of that time
LogletsGrow ==
    \A i \in Index : /\ top[i] <= top'[i] /\ bound'[i] <= bound[i] /\ trimPoint[i] <= trimPoint'[i]
                     /\ bound'[i] = bound[i] \/ top[i] <= bound'[i]

LEMMA SameLast ==
    ASSUME versions' = versions
    PROVE  LastIndex' = LastIndex /\ LastPos' = LastPos /\ Latest' = Latest
  BY DEF LastIndex, LastPos, Latest, Chain

LEMMA SameVersions ==
    ASSUME versions' = versions, NEW B
    PROVE  VersionsFit(B) => VersionsFit(B)'
  <1>1. LastIndex' = LastIndex /\ LastPos' = LastPos /\ Latest' = Latest
    BY SameLast
  <1> QED
    BY <1>1 DEF VersionsFit

\* OffsetBy grows with both of its arguments
LEMMA OffsetGrows ==
    ASSUME NEW b \in Nat, NEW c \in Nat, NEW o \in Nat, NEW p \in Nat, b <= c, o <= p
    PROVE  OffsetBy(b, o) <= OffsetBy(c, p)
  BY DEF OffsetBy, OLDEST

LEMMA TrimsGrow ==
    ASSUME LogShape, LogShape', NEW B, VersionsFit(B), TrimsFit(B), versions' = versions,
           \A i \in Index : trimPoint[i] <= trimPoint'[i]
    PROVE  TrimsFit(B)'
  <1>1. LastIndex' = LastIndex /\ Latest' = Latest
    BY SameLast
  <1>2. SUFFICES ASSUME NEW v \in 1 .. Latest PROVE ChainTrimmed(versions[v], B)'
    BY <1>1 DEF TrimsFit
  <1>3. ChainTrimmed(versions[v], B)
    BY DEF TrimsFit
  <1>4. CASE OLDEST \in DOMAIN versions[v]
    BY <1>4 DEF ChainTrimmed
  <1>5. CASE OLDEST \notin DOMAIN versions[v]
    <2>1. PICK i \in 0 .. LastIndex, c \in DOMAIN versions[v] :
            trimPoint[i] # INVALID /\ c <= OffsetBy(B[i], trimPoint[i]) + 1
      BY <1>3, <1>5 DEF ChainTrimmed
    <2>2. i \in Index /\ i \in Points /\ B[i] \in Nat
      BY LastFacts, BasesAre, Numbers
    <2>3. trimPoint[i] \in Nat /\ trimPoint'[i] \in Nat /\ trimPoint[i] <= trimPoint'[i]
      <3>1. trimPoint[i] \in Lsn \cup {INVALID} /\ trimPoint'[i] \in Lsn \cup {INVALID}
        BY <2>2 DEF LogShape
      <3> QED
        BY <2>2, <3>1, Numbers
    <2>4. trimPoint'[i] # INVALID
      BY <2>1, <2>3, Numbers
    <2>5. c \in Nat
      BY VersionFacts, ChainFields
    <2>6. c <= OffsetBy(B[i], trimPoint'[i]) + 1
      <3>1. /\ OffsetBy(B[i], trimPoint[i]) <= OffsetBy(B[i], trimPoint'[i])
            /\ OffsetBy(B[i], trimPoint[i]) \in Int /\ OffsetBy(B[i], trimPoint'[i]) \in Int
        BY <2>2, <2>3 DEF OffsetBy, OLDEST
      <3> QED
        BY <2>1, <2>5, <3>1
    <2>7. \E j \in 0 .. LastIndex, e \in DOMAIN versions[v] :
            trimPoint'[j] # INVALID /\ e <= OffsetBy(B[j], trimPoint'[j]) + 1
      BY <2>4, <2>6
    <2> QED
      BY <1>1, <2>7 DEF ChainTrimmed
  <1> QED
    BY <1>4, <1>5

LEMMA EndsStay ==
    ASSUME LogShape, LogShape', NEW B, VersionsFit(B), EndsFit(B), versions' = versions, LogletsGrow
    PROVE  EndsFit(B)'
  <1>1. LastPos' = LastPos
    BY SameLast
  <1>2. SUFFICES ASSUME NEW i \in 0 .. LastPos - 1
                 PROVE  /\ OffsetBy(B[i], bound'[i]) <= B[i + 1]
                        /\ B[i + 1] <= OffsetBy(B[i], top'[i])
    BY <1>1 DEF EndsFit
  <1>3. i \in Index /\ i \in Points /\ i + 1 \in Points
    BY LastFacts, Numbers
  <1>4. B[i] \in Nat /\ B[i + 1] \in Nat
    BY <1>3, BasesAre
  <1>5. top[i] \in Nat /\ bound[i] \in Nat /\ top'[i] \in Nat /\ bound'[i] \in Nat
    <2>1. top[i] \in Lsn /\ top'[i] \in Lsn /\ bound[i] \in OLDEST .. MaxLsn + 1
          /\ bound'[i] \in OLDEST .. MaxLsn + 1
      BY <1>3 DEF LogShape
    <2> QED
      BY <2>1, Numbers
  <1>6. top[i] <= top'[i] /\ bound'[i] <= bound[i]
    BY <1>3 DEF LogletsGrow
  <1>7. OffsetBy(B[i], bound[i]) <= B[i + 1] /\ B[i + 1] <= OffsetBy(B[i], top[i])
    BY DEF EndsFit
  <1> QED
    BY <1>4, <1>5, <1>6, <1>7 DEF OffsetBy, OLDEST

LEMMA RecordsStay ==
    ASSUME LogShape, LogShape', ReaderShape, NEW B, VersionsFit(B), DeliveredFit(B), versions' = versions,
           LogletsGrow, delivered' = delivered
    PROVE  DeliveredFit(B)'
  <1>1. LastIndex' = LastIndex /\ LastPos' = LastPos
    BY SameLast
  <1>2. SUFFICES ASSUME NEW d \in delivered PROVE RecordFits(d, B)'
    BY DEF DeliveredFit
  <1>3. RecordFits(d, B)
    BY DEF DeliveredFit
  <1>4. d \in [lsn : Lsn, index : Index]
    BY DEF ReaderShape
  <1>5. PICK lsn \in Lsn, i \in Index : lsn = d.lsn /\ i = d.index
    BY <1>4
  <1>6. B[i] \in Nat /\ lsn \in Nat
    BY BasesAre, Numbers
  <1>7. top[i] \in Nat /\ top'[i] \in Nat /\ top[i] <= top'[i]
    <2>1. top[i] \in Lsn /\ top'[i] \in Lsn
      BY DEF LogShape
    <2> QED
      BY <2>1, Numbers DEF LogletsGrow
  <1>8. lsn < OffsetBy(B[i], top[i])
    BY <1>3, <1>5 DEF RecordFits
  <1>9. lsn < OffsetBy(B[i], top'[i])
    BY <1>6, <1>7, <1>8 DEF OffsetBy, OLDEST
  <1> QED
    BY <1>1, <1>3, <1>5, <1>9 DEF RecordFits

\* only a loglet that was created can be trimmed
LEMMA TrimmedHasBase ==
    ASSUME LogShape, NEW B, VersionsFit(B), LogletsFit(B), NEW i \in Index, trimPoint[i] # INVALID
    PROVE  base[i] # INVALID /\ i <= LastIndex /\ base[i] = B[i]
  <1>1. LogletFits(i, B)
    BY DEF LogletsFit
  <1>2. trimPoint[i] \in Nat /\ trimPoint[i] >= 1 /\ top[i] \in Nat /\ trimPoint[i] < top[i]
    <2>1. trimPoint[i] \in Lsn \cup {INVALID} /\ top[i] \in Lsn
      BY DEF LogShape
    <2> QED
      BY <1>1, <2>1, Numbers DEF LogletFits
  <1>3. i <= LastIndex
    BY <1>1, <1>2, Numbers DEF LogletFits
  <1>4. base[i] = B[i] /\ B[i] >= 1 /\ B[i] \in Nat
    BY <1>1, <1>3, BasesAre DEF LogletFits
  <1> QED
    BY <1>3, <1>4, Numbers

\* the substream as a record of constants
LEMMA SubstreamIs ==
    ASSUME ReaderShape
    PROVE  \E x \in Wrapper : x = substream
  BY DEF ReaderShape

LEMMA WrapperFields ==
    ASSUME NEW x \in Wrapper
    PROVE  /\ x.base \in Nat /\ x.index \in Index \cup {-1} /\ x.index \in Int
           /\ x.marker \in BOOLEAN /\ x.end \in Nat /\ Pos(x) \in Int
           /\ x.marker => Pos(x) = x.index + 1
           /\ ~x.marker => Pos(x) = x.index
  <1>1. x.base \in Nat /\ x.index \in Index \cup {-1} /\ x.marker \in BOOLEAN /\ x.end \in Nat
    BY DEF Wrapper
  <1> QED
    BY <1>1, Numbers DEF Pos

\* the tail that the reader may read to stays safe
LEMMA SafeTailStays ==
    ASSUME LogShape, LogShape', LogletsGrow, NEW x \in Wrapper, x.index \in Index,
           NEW safe \in Nat, SafeTailFits(x, safe)
    PROVE  SafeTailFits(x, safe)'
  <1> SUFFICES ASSUME x.end = INVALID, ~x.marker
               PROVE  /\ safe <= OffsetBy(x.base, top'[x.index])
                      /\ OpenTailsBounded => safe <= OffsetBy(x.base, bound'[x.index])
    BY DEF SafeTailFits
  <1>1. PICK b \in Nat, i \in Index : b = x.base /\ i = x.index
    BY WrapperFields
  <1>2. top[i] \in Nat /\ bound[i] \in Nat /\ top'[i] \in Nat /\ bound'[i] \in Nat
    <2>1. top[i] \in Lsn /\ top'[i] \in Lsn /\ bound[i] \in OLDEST .. MaxLsn + 1
          /\ bound'[i] \in OLDEST .. MaxLsn + 1
      BY DEF LogShape
    <2> QED
      BY <2>1, Numbers
  <1>3. top[i] <= top'[i] /\ (bound'[i] = bound[i] \/ top[i] <= bound'[i])
    BY DEF LogletsGrow
  <1>4. safe <= OffsetBy(b, top[i]) /\ (OpenTailsBounded => safe <= OffsetBy(b, bound[i]))
    BY <1>1 DEF SafeTailFits
  <1>5. safe <= OffsetBy(b, top'[i])
    BY <1>2, <1>3, <1>4 DEF OffsetBy, OLDEST
  <1>6. ASSUME OpenTailsBounded PROVE safe <= OffsetBy(b, bound'[i])
    BY <1>2, <1>3, <1>4, <1>6 DEF OffsetBy, OLDEST
  <1> QED
    BY <1>1, <1>5, <1>6

LEMMA ReaderStays ==
    ASSUME LogShape, LogShape', ReaderShape, NEW B, VersionsFit(B), ReaderFits(B), versions' = versions,
           LogletsGrow, UNCHANGED <<readPointer, substream, safeKnownTail>>, StateKept
    PROVE  ReaderFits(B)'
  <1>1. LastIndex' = LastIndex /\ LastPos' = LastPos
    BY SameLast
  <1>2. CASE state = "FindingLoglet"
    BY <1>2 DEF ReaderFits, StateKept
  <1>3. CASE state # "FindingLoglet"
    <2>1. PICK x \in Wrapper : x = substream
      BY SubstreamIs
    <2>2. PICK safe \in Nat : safe = safeKnownTail
      BY DEF ReaderShape
    <2>3. SubstreamFits(x, B) /\ (state = "Reading" => SafeTailFits(x, safe))
      BY <1>3, <2>1, <2>2 DEF ReaderFits
    <2>4. SubstreamFits(x, B)'
      BY <1>1, <2>3 DEF SubstreamFits
    <2>5. x.index \in Index
      BY <2>3, LastFacts, Numbers DEF SubstreamFits
    <2>6. ASSUME state' = "Reading" PROVE SafeTailFits(x, safe)'
      BY <2>3, <2>5, <2>6, SafeTailStays DEF StateKept
    <2>7. substream' = x /\ safeKnownTail' = safe /\ state' # "FindingLoglet"
      BY <1>3, <2>1, <2>2 DEF StateKept
    <2> QED
      BY <2>4, <2>6, <2>7 DEF ReaderFits, SubstreamFits, SafeTailFits
  <1> QED
    BY <1>2, <1>3

LEMMA NothingSkippedStays ==
    ASSUME LogShape, LogShape', NothingSkipped, readPointer' = readPointer, delivered' = delivered,
           readPointer \in Lsn,
           \A i \in Index : trimPoint[i] # INVALID => base'[i] = base[i] /\ base[i] # INVALID,
           \A i \in Index : trimPoint[i] <= trimPoint'[i]
    PROVE  NothingSkipped'
  <1> SUFFICES ASSUME NEW lsn \in OLDEST .. readPointer - 1
               PROVE  \/ \E i \in Index : trimPoint'[i] # INVALID /\ lsn <= OffsetBy(base'[i], trimPoint'[i])
                      \/ \E d \in delivered : d.lsn = lsn
    BY DEF NothingSkipped
  <1>1. CASE \E d \in delivered : d.lsn = lsn
    BY <1>1
  <1>2. CASE ~\E d \in delivered : d.lsn = lsn
    <2>1. PICK i \in Index : trimPoint[i] # INVALID /\ lsn <= OffsetBy(base[i], trimPoint[i])
      BY <1>2 DEF NothingSkipped
    <2>2. trimPoint[i] \in Nat /\ trimPoint'[i] \in Nat /\ base[i] \in Nat /\ lsn \in Nat
      <3>1. /\ trimPoint[i] \in Lsn \cup {INVALID} /\ trimPoint'[i] \in Lsn \cup {INVALID}
            /\ base[i] \in Lsn \cup {INVALID}
        BY DEF LogShape
      <3> QED
        BY <3>1, Numbers
    <2>3. trimPoint[i] <= trimPoint'[i] /\ base'[i] = base[i]
      BY <2>1
    <2>4. trimPoint'[i] # INVALID /\ lsn <= OffsetBy(base'[i], trimPoint'[i])
      BY <2>1, <2>2, <2>3, Numbers DEF OffsetBy, OLDEST
    <2> QED
      BY <2>4
  <1> QED
    BY <1>1, <1>2

\* a step of the log or of the node, or one in which the reader only waits or wakes
LEMMA LogStep ==
    ASSUME LogShape, LogShape', ReaderShape, NothingSkipped, NEW B, OneTimeline(B),
           versions' = versions, base' = base, UNCHANGED streamVars, StateKept, LogletsGrow,
           \A i \in Index : LogletFits(i, B)'
    PROVE  OneTimeline(B)' /\ NothingSkipped'
  <1>1. UNCHANGED <<readPointer, substream, safeKnownTail, delivered>>
    BY DEF streamVars
  <1>2. \A i \in Index : trimPoint[i] <= trimPoint'[i]
    BY DEF LogletsGrow
  <1>3. /\ VersionsFit(B) /\ TrimsFit(B) /\ LogletsFit(B) /\ EndsFit(B)
        /\ DeliveredFit(B) /\ ReaderFits(B)
    BY DEF OneTimeline
  <1>4. VersionsFit(B)'
    BY <1>3, SameVersions
  <1>5. TrimsFit(B)'
    BY <1>2, <1>3, TrimsGrow
  <1>6. LogletsFit(B)'
    BY DEF LogletsFit
  <1>7. EndsFit(B)'
    BY <1>3, EndsStay
  <1>8. DeliveredFit(B)'
    BY <1>1, <1>3, RecordsStay
  <1>9. ReaderFits(B)'
    BY <1>1, <1>3, ReaderStays
  <1>10. ASSUME NEW i \in Index, trimPoint[i] # INVALID PROVE base'[i] = base[i] /\ base[i] # INVALID
    BY <1>3, <1>10, TrimmedHasBase
  <1>11. NothingSkipped'
    BY <1>1, <1>2, <1>10, NothingSkippedStays DEF ReaderShape
  <1> QED
    BY <1>4, <1>5, <1>6, <1>7, <1>8, <1>9, <1>11 DEF OneTimeline

LEMMA LogletStays ==
    ASSUME versions' = versions, NEW j \in Index, NEW B, LogletFits(j, B),
           /\ base'[j] = base[j] /\ tail'[j] = tail[j] /\ sealed'[j] = sealed[j]
           /\ bound'[j] = bound[j] /\ top'[j] = top[j] /\ trimPoint'[j] = trimPoint[j]
           /\ known'[j] = known[j] /\ knownSealed'[j] = knownSealed[j]
    PROVE  LogletFits(j, B)'
  <1>1. LastIndex' = LastIndex
    BY SameLast
  <1> QED
    BY <1>1 DEF LogletFits

LEMMA ReaderShapeStays ==
    ASSUME ReaderShape, UNCHANGED streamVars, state' \in States, tailChanged' \in BOOLEAN,
           wakers' \in {wakers, {}} \/ wakers' \subseteq {"tail", "metadata", "substream", "timeout"}
    PROVE  ReaderShape'
  <1>1. UNCHANGED <<readPointer, substream, safeKnownTail, delivered>>
    BY DEF streamVars
  <1> QED
    BY <1>1 DEF ReaderShape

-----------------------------------------------------------------------------
(* The steps of the log and of the node *)

LEMMA AppendRecordStep ==
    ASSUME LogShape, ReaderShape, NothingSkipped, NEW B, OneTimeline(B),
           NEW i \in Index, AppendRecord(i)
    PROVE  LogShape' /\ ReaderShape' /\ NothingSkipped' /\ OneTimeline(B)'
  <1> USE DEF AppendRecord, chainVars, watchVars
  <1>1. LogletFits(i, B) /\ VersionsFit(B) /\ LogletsFit(B)
    BY DEF OneTimeline, LogletsFit
  <1>2. /\ tail[i] \in Nat /\ tail[i] >= 1 /\ top[i] \in Nat /\ top[i] >= 1 /\ bound[i] \in Nat
        /\ top[i] <= MaxLsn /\ MaxLsn \in Nat
    BY LogletFacts, Numbers
  <1>3. i <= LastIndex /\ base[i] = B[i] /\ OffsetBy(B[i], top[i]) <= MaxLsn
    BY <1>1 DEF LogletFits
  <1>4. B[i] \in Nat /\ B[i] >= 1
    BY <1>1, BasesAre
  <1>5. PICK m : m = Max({top[i], tail[i] + 1})
    OBVIOUS
  <1>6. m \in {top[i], tail[i] + 1} /\ top[i] <= m /\ tail[i] + 1 <= m /\ m \in Int
    <2>1. PICK a \in Int, b \in Int : a = top[i] /\ b = tail[i] + 1
      BY <1>2
    <2>2. Max({a, b}) \in {a, b} /\ Max({a, b}) \in Int /\ a <= Max({a, b}) /\ b <= Max({a, b})
      BY MaxTwo
    <2> QED
      BY <1>5, <2>1, <2>2
  <1>7. OffsetBy(B[i], m) <= MaxLsn /\ tail[i] + 1 <= bound[i] /\ m <= MaxLsn
    BY <1>2, <1>3, <1>4, <1>6 DEF OffsetBy, OLDEST
  <1>8. tail' = [tail EXCEPT ![i] = tail[i] + 1] /\ top' = [top EXCEPT ![i] = m]
    BY <1>5
  <1>9. m \in Lsn /\ tail[i] + 1 \in Lsn
    BY <1>2, <1>6, <1>7, Numbers
  <1>10. LogShape'
    BY <1>8, <1>9 DEF LogShape, Latest
  <1>11. ReaderShape'
    BY ReaderShapeStays DEF ReaderShape
  <1>12. tail'[i] = tail[i] + 1 /\ top'[i] = m
    BY <1>8 DEF LogShape
  <1>13. \A j \in Index : j # i => tail'[j] = tail[j] /\ top'[j] = top[j]
    BY <1>8 DEF LogShape
  <1>14. LogletsGrow
    <2>1. \A j \in Index : top[j] \in Nat /\ bound[j] \in Nat /\ trimPoint[j] \in Nat
      BY LogletFacts
    <2>2. top[i] <= top'[i]
      BY <1>6, <1>12
    <2>3. bound' = bound /\ trimPoint' = trimPoint
      OBVIOUS
    <2> HIDE DEF AppendRecord
    <2>4. ASSUME NEW j \in Index PROVE top[j] <= top'[j]
      BY <1>13, <2>1, <2>2
    <2> QED
      BY <2>1, <2>3, <2>4 DEF LogletsGrow
  <1>15. LogletFits(i, B)'
    <2>1. LastIndex' = LastIndex
      BY SameLast
    <2>2. known[i] \in Nat /\ trimPoint[i] \in Nat
      BY LogletFacts
    <2>3. /\ tail'[i] <= top'[i] /\ tail'[i] <= bound[i] /\ trimPoint[i] < top'[i]
          /\ known[i] <= top'[i]
      BY <1>1, <1>2, <1>6, <1>7, <1>12, <2>2 DEF LogletFits
    <2> QED
      BY <1>1, <1>3, <1>7, <1>12, <2>1, <2>3 DEF LogletFits
  <1>16. ASSUME NEW j \in Index PROVE LogletFits(j, B)'
    <2>1. CASE j = i
      BY <1>15, <2>1
    <2>2. CASE j # i
      <3>1. LogletFits(j, B)
        BY <1>1 DEF LogletsFit
      <3> QED
        BY <1>13, <2>2, <3>1, LogletStays
    <2> QED
      BY <2>1, <2>2
  <1>17. StateKept
    BY DEF StateKept
  <1> QED
    BY <1>10, <1>11, <1>14, <1>16, <1>17, LogStep

LEMMA SealLogletStep ==
    ASSUME LogShape, ReaderShape, NothingSkipped, NEW B, OneTimeline(B), SealLoglet
    PROVE  LogShape' /\ ReaderShape' /\ NothingSkipped' /\ OneTimeline(B)'
  <1> USE DEF SealLoglet, chainVars, watchVars
  <1> DEFINE i == LastIndex
  <1>1. VersionsFit(B) /\ LogletsFit(B)
    BY DEF OneTimeline
  <1>2. i \in Index /\ i \in Nat
    BY <1>1, LastFacts
  <1>3. sealed' = [sealed EXCEPT ![i] = TRUE]
    BY DEF LastIndex
  <1> HIDE DEF i
  <1>4. LogShape'
    BY <1>2, <1>3 DEF LogShape, Latest
  <1>5. ReaderShape'
    BY ReaderShapeStays DEF ReaderShape
  <1>6. LogletsGrow
    <2>1. \A j \in Index : top[j] \in Nat /\ bound[j] \in Nat /\ trimPoint[j] \in Nat
      BY LogletFacts
    <2> QED
      BY <2>1 DEF LogletsGrow
  <1>7. ASSUME NEW j \in Index PROVE LogletFits(j, B)'
    <2>1. LogletFits(j, B)
      BY <1>1 DEF LogletsFit
    <2>2. CASE j = i
      <3>1. LastIndex' = LastIndex /\ j <= LastIndex
        BY <1>2, <2>2, SameLast DEF i
      <3> QED
        BY <2>1, <3>1 DEF LogletFits
    <2>3. CASE j # i
      <3>1. sealed'[j] = sealed[j]
        BY <1>2, <1>3, <2>3 DEF LogShape
      <3> QED
        BY <2>1, <3>1, LogletStays
    <2> QED
      BY <2>2, <2>3
  <1>8. StateKept
    BY DEF StateKept
  <1> QED
    BY <1>4, <1>5, <1>6, <1>7, <1>8, LogStep

LEMMA RepairTailStep ==
    ASSUME LogShape, ReaderShape, NothingSkipped, NEW B, OneTimeline(B),
           NEW i \in Index, RepairTail(i)
    PROVE  LogShape' /\ ReaderShape' /\ NothingSkipped' /\ OneTimeline(B)'
  <1> USE DEF RepairTail, chainVars, watchVars
  <1>1. LogletFits(i, B) /\ VersionsFit(B) /\ LogletsFit(B)
    BY DEF OneTimeline, LogletsFit
  <1>2. /\ tail[i] \in Nat /\ top[i] \in Nat /\ top[i] >= 1 /\ known[i] \in Nat /\ trimPoint[i] \in Nat
        /\ MaxLsn \in Nat
    BY LogletFacts, Numbers
  <1>3. i <= LastIndex /\ base[i] = B[i]
    BY <1>1 DEF LogletFits
  <1>4. B[i] \in Nat /\ B[i] >= 1
    BY <1>1, BasesAre
  <1>5. OffsetBy(B[i], top[i] + 1) <= MaxLsn /\ top[i] + 1 <= MaxLsn
    BY <1>2, <1>3, <1>4 DEF OffsetBy, OLDEST
  <1>6. top[i] + 1 \in Lsn
    BY <1>2, <1>5, Numbers
  <1>7. LogShape'
    BY <1>6 DEF LogShape, Latest
  <1>8. ReaderShape'
    BY ReaderShapeStays DEF ReaderShape
  <1>9. top'[i] = top[i] + 1 /\ \A j \in Index : j # i => top'[j] = top[j]
    BY DEF LogShape
  <1>10. LogletsGrow
    <2>1. \A j \in Index : top[j] \in Nat /\ bound[j] \in Nat /\ trimPoint[j] \in Nat
      BY LogletFacts
    <2> QED
      BY <1>9, <2>1 DEF LogletsGrow
  <1>11. LogletFits(i, B)'
    <2>1. LastIndex' = LastIndex
      BY SameLast
    <2>2. tail[i] <= top'[i] /\ trimPoint[i] < top'[i] /\ known[i] <= top'[i]
      BY <1>1, <1>2, <1>9 DEF LogletFits
    <2> QED
      BY <1>1, <1>3, <1>5, <1>9, <2>1, <2>2 DEF LogletFits
  <1>12. ASSUME NEW j \in Index PROVE LogletFits(j, B)'
    <2>1. CASE j = i
      BY <1>11, <2>1
    <2>2. CASE j # i
      <3>1. LogletFits(j, B)
        BY <1>1 DEF LogletsFit
      <3> QED
        BY <1>9, <2>2, <3>1, LogletStays
    <2> QED
      BY <2>1, <2>2
  <1>13. StateKept
    BY DEF StateKept
  <1> QED
    BY <1>7, <1>8, <1>10, <1>12, <1>13, LogStep

LEMMA TrimLogletStep ==
    ASSUME LogShape, ReaderShape, NothingSkipped, NEW B, OneTimeline(B),
           NEW i \in Index, TrimLoglet(i)
    PROVE  LogShape' /\ ReaderShape' /\ NothingSkipped' /\ OneTimeline(B)'
  <1> USE DEF TrimLoglet, chainVars, watchVars
  <1>1. LogletFits(i, B) /\ VersionsFit(B) /\ LogletsFit(B)
    BY DEF OneTimeline, LogletsFit
  <1>2. top[i] \in Nat /\ top[i] >= 1 /\ trimPoint[i] \in Nat /\ top[i] <= MaxLsn /\ MaxLsn \in Nat
    BY LogletFacts, Numbers
  <1>3. base[i] \in Nat
    <2>1. base[i] \in Lsn \cup {INVALID}
      BY DEF LogShape
    <2> QED
      BY <2>1, Numbers
  <1>4. PICK limit : limit = Min({IntoOffset(MaxTrim, base[i]), top[i] - 1})
    OBVIOUS
  <1>5. limit \in Int /\ limit <= top[i] - 1
    <2>1. IntoOffset(MaxTrim, base[i]) \in Int
      BY <1>3, ReadStreamAssumption DEF IntoOffset, OLDEST
    <2>2. PICK a \in Int, b \in Int : a = IntoOffset(MaxTrim, base[i]) /\ b = top[i] - 1
      BY <1>2, <2>1
    <2>3. Min({a, b}) \in Int /\ Min({a, b}) <= b
      BY MinTwo
    <2> QED
      BY <1>4, <2>2, <2>3
  <1>6. PICK point \in trimPoint[i] + 1 .. limit : trimPoint' = [trimPoint EXCEPT ![i] = point]
    BY <1>4
  <1>7. point \in Nat /\ point >= 1 /\ point < top[i] /\ trimPoint[i] <= point /\ point <= MaxLsn
    BY <1>2, <1>5
  <1>8. point \in Lsn
    BY <1>7, Numbers
  <1>9. LogShape'
    BY <1>6, <1>8 DEF LogShape, Latest
  <1>10. ReaderShape'
    BY ReaderShapeStays DEF ReaderShape
  <1>11. trimPoint'[i] = point /\ \A j \in Index : j # i => trimPoint'[j] = trimPoint[j]
    BY <1>6 DEF LogShape
  <1>12. LogletsGrow
    <2>1. \A j \in Index : top[j] \in Nat /\ bound[j] \in Nat /\ trimPoint[j] \in Nat
      BY LogletFacts
    <2> QED
      BY <1>7, <1>11, <2>1 DEF LogletsGrow
  <1>13. LogletFits(i, B)'
    <2>1. LastIndex' = LastIndex
      BY SameLast
    <2> QED
      BY <1>1, <1>7, <1>11, <2>1 DEF LogletFits
  <1>14. ASSUME NEW j \in Index PROVE LogletFits(j, B)'
    <2>1. CASE j = i
      BY <1>13, <2>1
    <2>2. CASE j # i
      <3>1. LogletFits(j, B)
        BY <1>1 DEF LogletsFit
      <3> QED
        BY <1>11, <2>2, <3>1, LogletStays
    <2> QED
      BY <2>1, <2>2
  <1>15. StateKept
    BY DEF StateKept
  <1> QED
    BY <1>9, <1>10, <1>12, <1>14, <1>15, LogStep

LEMMA LearnTailStep ==
    ASSUME LogShape, ReaderShape, NothingSkipped, NEW B, OneTimeline(B),
           NEW i \in Index, LearnTail(i)
    PROVE  LogShape' /\ ReaderShape' /\ NothingSkipped' /\ OneTimeline(B)'
  <1>1. LogletFits(i, B) /\ VersionsFit(B) /\ LogletsFit(B)
    BY DEF OneTimeline, LogletsFit
  <1>2. /\ UNCHANGED <<versions, view, base, tail, sealed, bound, top, trimPoint, knownSealed, state, wakers>>
        /\ UNCHANGED streamVars
    BY DEF LearnTail, chainVars, logletVars
  <1>3. /\ top[i] \in Nat /\ bound[i] \in Nat /\ known[i] \in Nat /\ top[i] <= MaxLsn /\ MaxLsn \in Nat
        /\ knownSealed[i] \in BOOLEAN
    BY LogletFacts, Numbers
  <1>4. PICK limit : limit = IF OpenTailsBounded /\ ~knownSealed[i] THEN Min({top[i], bound[i]}) ELSE top[i]
    OBVIOUS
  <1>5. /\ limit \in Int /\ limit <= top[i]
        /\ OpenTailsBounded /\ ~knownSealed[i] => limit <= bound[i]
    <2>1. PICK a \in Int, b \in Int : a = top[i] /\ b = bound[i]
      BY <1>3
    <2>2. Min({a, b}) \in Int /\ Min({a, b}) <= a /\ Min({a, b}) <= b
      BY MinTwo
    <2> QED
      BY <1>3, <1>4, <2>1, <2>2
  <1>6. PICK t \in known[i] + 1 .. limit : known' = [known EXCEPT ![i] = t]
    BY <1>4 DEF LearnTail
  <1>7. /\ t \in Nat /\ t >= 1 /\ t <= top[i] /\ t <= MaxLsn
        /\ OpenTailsBounded /\ ~knownSealed[i] => t <= bound[i]
    BY <1>3, <1>5
  <1>8. t \in Lsn
    BY <1>7, Numbers
  <1>9. LogShape'
    BY <1>2, <1>6, <1>8 DEF LogShape, Latest
  <1>10. ReaderShape'
    <2>1. tailChanged' \in BOOLEAN /\ state' \in States
      BY <1>2 DEF LearnTail, TailNotified, ReaderShape
    <2> QED
      BY <1>2, <2>1, ReaderShapeStays
  <1>11. known'[i] = t /\ \A j \in Index : j # i => known'[j] = known[j]
    BY <1>6 DEF LogShape
  <1>12. LogletsGrow
    <2>1. \A j \in Index : top[j] \in Nat /\ bound[j] \in Nat /\ trimPoint[j] \in Nat
      BY LogletFacts
    <2> QED
      BY <1>2, <2>1 DEF LogletsGrow
  <1>13. LogletFits(i, B)'
    <2>1. LastIndex' = LastIndex
      BY <1>2, SameLast
    <2> QED
      BY <1>1, <1>2, <1>7, <1>11, <2>1 DEF LogletFits
  <1>14. ASSUME NEW j \in Index PROVE LogletFits(j, B)'
    <2>1. CASE j = i
      BY <1>13, <2>1
    <2>2. CASE j # i
      <3>1. LogletFits(j, B)
        BY <1>1 DEF LogletsFit
      <3> QED
        BY <1>2, <1>11, <2>2, <3>1, LogletStays
    <2> QED
      BY <2>1, <2>2
  <1>15. StateKept
    BY <1>2 DEF StateKept
  <1> QED
    BY <1>2, <1>9, <1>10, <1>12, <1>14, <1>15, LogStep

\* what a report of the sealed tail does to the bound
LEMMA ReportSealedIs ==
    ASSUME LogShape, NEW i \in Index, ReportSealed(i)
    PROVE  /\ bound' \in [Index -> OLDEST .. MaxLsn + 1]
           /\ bound'[i] <= top[i] /\ bound'[i] <= bound[i] /\ bound'[i] \in Nat
           /\ bound'[i] = bound[i] \/ bound'[i] = top[i]
           /\ \A j \in Index : j # i => bound'[j] = bound[j]
  <1>1. top[i] \in Nat /\ bound[i] \in Nat /\ top[i] >= 1 /\ bound[i] >= 1 /\ bound[i] <= MaxLsn + 1
    BY LogletFacts
  <1>2. PICK a \in Int, b \in Int : a = bound[i] /\ b = top[i]
    BY <1>1
  <1>3. PICK m \in Int : m = Min({a, b}) /\ m \in {a, b} /\ m <= a /\ m <= b
    BY MinTwo
  <1>4. m \in OLDEST .. MaxLsn + 1 /\ m \in Nat
    BY <1>1, <1>2, <1>3, Numbers
  <1>5. bound' = [bound EXCEPT ![i] = m]
    BY <1>2, <1>3 DEF ReportSealed
  <1>6. bound \in [Index -> OLDEST .. MaxLsn + 1]
    BY DEF LogShape
  <1> QED
    BY <1>2, <1>3, <1>4, <1>5, <1>6

LEMMA LearnSealStep ==
    ASSUME LogShape, ReaderShape, NothingSkipped, NEW B, OneTimeline(B),
           NEW i \in Index, LearnSeal(i)
    PROVE  LogShape' /\ ReaderShape' /\ NothingSkipped' /\ OneTimeline(B)'
  <1>1. LogletFits(i, B) /\ VersionsFit(B) /\ LogletsFit(B)
    BY DEF OneTimeline, LogletsFit
  <1>2. /\ UNCHANGED <<versions, view, base, tail, sealed, top, trimPoint, state, wakers>>
        /\ UNCHANGED streamVars
        /\ known' = [known EXCEPT ![i] = top[i]]
        /\ knownSealed' = [knownSealed EXCEPT ![i] = TRUE]
        /\ ReportSealed(i)
    BY DEF LearnSeal, chainVars
  <1>3. /\ bound' \in [Index -> OLDEST .. MaxLsn + 1]
        /\ bound'[i] <= top[i] /\ bound'[i] <= bound[i] /\ bound'[i] \in Nat
        /\ bound'[i] = bound[i] \/ bound'[i] = top[i]
        /\ \A j \in Index : j # i => bound'[j] = bound[j]
    BY <1>2, ReportSealedIs
  <1>4. LogShape'
    <2>1. known' \in [Index -> Lsn] /\ knownSealed' \in [Index -> BOOLEAN]
      BY <1>2 DEF LogShape
    <2> QED
      BY <1>2, <1>3, <2>1 DEF LogShape, Latest
  <1>5. ReaderShape'
    <2>1. tailChanged' \in BOOLEAN /\ state' \in States
      BY <1>2 DEF LearnSeal, TailNotified, ReaderShape
    <2> QED
      BY <1>2, <2>1, ReaderShapeStays
  <1>6. /\ known'[i] = top[i] /\ knownSealed'[i]
        /\ \A j \in Index : j # i => known'[j] = known[j] /\ knownSealed'[j] = knownSealed[j]
    BY <1>2 DEF LogShape
  <1>7. LogletsGrow
    <2>1. \A j \in Index : top[j] \in Nat /\ bound[j] \in Nat /\ trimPoint[j] \in Nat
      BY LogletFacts
    <2>2. ASSUME NEW j \in Index PROVE bound'[j] <= bound[j] /\ (bound'[j] = bound[j] \/ top[j] <= bound'[j])
      BY <1>3, <2>1
    <2> QED
      BY <1>2, <2>1, <2>2 DEF LogletsGrow
  <1>8. LogletFits(i, B)'
    <2>1. LastIndex' = LastIndex
      BY <1>2, SameLast
    <2>2. tail[i] \in Nat /\ top[i] \in Nat
      BY LogletFacts
    <2>3. tail[i] <= bound'[i]
      BY <1>1, <1>3 DEF LogletFits
    <2> QED
      BY <1>1, <1>2, <1>6, <2>1, <2>2, <2>3 DEF LogletFits
  <1>9. ASSUME NEW j \in Index PROVE LogletFits(j, B)'
    <2>1. CASE j = i
      BY <1>8, <2>1
    <2>2. CASE j # i
      <3>1. LogletFits(j, B)
        BY <1>1 DEF LogletsFit
      <3> QED
        BY <1>2, <1>3, <1>6, <2>2, <3>1, LogletStays
    <2> QED
      BY <2>1, <2>2
  <1>10. StateKept
    BY <1>2 DEF StateKept
  <1> QED
    BY <1>2, <1>4, <1>5, <1>7, <1>9, <1>10, LogStep

\* a step that only changes the view, the state, tailChanged and the wakers
LEMMA QuietStep ==
    ASSUME LogShape, ReaderShape, NothingSkipped, NEW B, OneTimeline(B),
           versions' = versions, view' \in 1 .. Latest, UNCHANGED <<logletVars, watchVars, streamVars>>,
           StateKept, tailChanged' \in BOOLEAN,
           wakers' \in {wakers, {}} \/ wakers' \subseteq {"tail", "metadata", "substream", "timeout"}
    PROVE  LogShape' /\ ReaderShape' /\ NothingSkipped' /\ OneTimeline(B)'
  <1>1. /\ UNCHANGED <<base, tail, sealed, bound, top, trimPoint, known, knownSealed>>
        /\ UNCHANGED streamVars
    BY DEF logletVars, watchVars
  <1>2. LogShape'
    BY <1>1 DEF LogShape, Latest
  <1>3. ReaderShape'
    <2>1. state' \in States
      BY DEF StateKept, ReaderShape, States
    <2> QED
      BY <1>1, <2>1, ReaderShapeStays
  <1>4. LogletsGrow
    <2>1. \A j \in Index : top[j] \in Nat /\ bound[j] \in Nat /\ trimPoint[j] \in Nat
      BY LogletFacts
    <2> QED
      BY <1>1, <2>1 DEF LogletsGrow
  <1>5. ASSUME NEW j \in Index PROVE LogletFits(j, B)'
    <2>1. LogletFits(j, B)
      BY DEF OneTimeline, LogletsFit
    <2> QED
      BY <1>1, <2>1, LogletStays
  <1> QED
    BY <1>1, <1>2, <1>3, <1>4, <1>5, LogStep

LEMMA SyncMetadataStep ==
    ASSUME LogShape, ReaderShape, NothingSkipped, NEW B, OneTimeline(B), SyncMetadata
    PROVE  LogShape' /\ ReaderShape' /\ NothingSkipped' /\ OneTimeline(B)'
  <1>1. /\ versions' = versions /\ UNCHANGED <<logletVars, watchVars, streamVars, state, tailChanged>>
        /\ wakers' \in {wakers, {}}
    BY DEF SyncMetadata
  <1>2. view' \in 1 .. Latest
    <2>1. PICK v \in view + 1 .. Latest : view' = v
      BY DEF SyncMetadata
    <2> QED
      BY <2>1 DEF LogShape, Latest
  <1>3. StateKept /\ tailChanged' \in BOOLEAN
    BY <1>1 DEF StateKept, ReaderShape
  <1> QED
    BY <1>1, <1>2, <1>3, QuietStep

-----------------------------------------------------------------------------
(* Steps that add a version *)

\* the step adds N, which ends at position K of the timeline D, to the versions on the timeline B
NewVersion(N, K, B, D) ==
    /\ versions' = Append(versions, N)
    /\ Fits(N, D, K) /\ Rising(D, K) /\ K \in {LastPos, LastPos + 1}
    /\ TailIndex(N) \in LastIndex .. MaxIndex
    /\ D \in [Points -> Lsn] /\ \A k \in 0 .. LastPos : D[k] = B[k]
    /\ K # LastPos => /\ LastPos \in Index /\ D[K] = OffsetBy(B[LastPos], top[LastPos])
                      /\ bound'[LastPos] <= top[LastPos]
    /\ ChainTrimmed(N, B)
    /\ \A i \in Index : base'[i] = IF i \in LastIndex + 1 .. TailIndex(N) THEN D[i] ELSE base[i]
    /\ UNCHANGED <<tail, sealed, top, trimPoint, known, knownSealed>>

LEMMA NewLast ==
    ASSUME LogShape, NEW B, VersionsFit(B), NEW D, NEW N, NEW K, NewVersion(N, K, B, D)
    PROVE  /\ Latest' = Latest + 1 /\ Latest \in Nat /\ Latest >= 1
           /\ versions'[Latest + 1] = N /\ \A v \in 1 .. Latest : versions'[v] = versions[v]
           /\ End(N) = K /\ K \in Nat /\ LastPos <= K
           /\ LastIndex' = TailIndex(N) /\ LastPos' = K
           /\ LastIndex <= TailIndex(N) /\ TailIndex(N) \in Nat /\ TailIndex(N) <= MaxIndex
           /\ LastIndex <= LastPos
  <1>1. LastPos \in Nat /\ LastIndex \in Nat /\ MaxIndex \in Nat /\ LastIndex <= LastPos
    BY LastFacts, Numbers
  <1>2. K \in Nat /\ LastPos <= K
    BY <1>1 DEF NewVersion
  <1>3. End(N) = K
    BY <1>2, FitsTail DEF NewVersion
  <1>4. versions \in Seq(ChainSet) /\ Latest \in Nat /\ Latest >= 1 /\ N \in ChainSet
    BY DEF LogShape, Latest, NewVersion, Fits
  <1>5. /\ Len(versions') = Latest + 1 /\ versions'[Latest + 1] = N
        /\ \A v \in 1 .. Latest : versions'[v] = versions[v]
    BY <1>4 DEF NewVersion, Latest
  <1>6. Latest' = Latest + 1
    BY <1>5 DEF Latest
  <1>7. Chain' = N
    BY <1>5, <1>6 DEF Chain
  <1>8. LastIndex' = TailIndex(N) /\ LastPos' = End(N)
    BY <1>7 DEF LastIndex, LastPos
  <1>9. LastIndex <= TailIndex(N) /\ TailIndex(N) \in Nat /\ TailIndex(N) <= MaxIndex
    BY <1>1 DEF NewVersion
  <1> QED
    BY <1>1, <1>2, <1>3, <1>4, <1>5, <1>6, <1>8, <1>9

LEMMA NewVersionsFit ==
    ASSUME LogShape, NEW B, VersionsFit(B), NEW D, NEW N, NEW K, NewVersion(N, K, B, D)
    PROVE  VersionsFit(D)'
  <1>1. /\ Latest' = Latest + 1 /\ Latest \in Nat /\ Latest >= 1
        /\ versions'[Latest + 1] = N /\ \A v \in 1 .. Latest : versions'[v] = versions[v]
        /\ End(N) = K /\ K \in Nat /\ LastPos <= K
        /\ LastIndex' = TailIndex(N) /\ LastPos' = K
        /\ LastIndex <= TailIndex(N) /\ TailIndex(N) \in Nat /\ TailIndex(N) <= MaxIndex
    BY NewLast
  <1>2. /\ Fits(N, D, K) /\ Rising(D, K) /\ D \in [Points -> Lsn]
        /\ \A k \in 0 .. LastPos : D[k] = B[k]
    BY DEF NewVersion
  <1>3. ASSUME NEW v \in 1 .. Latest
        PROVE  /\ End(versions[v]) \in Nat /\ Fits(versions[v], D, End(versions[v]))
               /\ TailIndex(versions[v]) <= TailIndex(N)
               /\ End(versions[v]) <= K
               /\ \A w \in v .. Latest : End(versions[v]) <= End(versions[w])
    <2>1. /\ Fits(versions[v], B, End(versions[v])) /\ End(versions[v]) \in Nat
          /\ TailIndex(versions[v]) \in Nat /\ TailIndex(versions[v]) <= LastIndex
          /\ End(versions[v]) <= LastPos
      BY VersionFacts
    <2>2. LastPos \in Nat /\ LastIndex \in Nat
      BY LastFacts
    <2>3. \A k \in 0 .. End(versions[v]) : D[k] = B[k]
      BY <1>2, <2>1, <2>2
    <2>4. Fits(versions[v], D, End(versions[v]))
      BY <2>1, <2>3, FitsAgree
    <2>5. \A w \in v .. Latest : End(versions[v]) <= End(versions[w])
      BY DEF VersionsFit
    <2>6. TailIndex(versions[v]) <= TailIndex(N) /\ End(versions[v]) <= K
      BY <1>1, <2>1, <2>2
    <2> QED
      BY <2>1, <2>4, <2>5, <2>6
  <1>4. ASSUME NEW v \in 1 .. Latest + 1
        PROVE  /\ End(versions'[v]) \in Nat /\ Fits(versions'[v], D, End(versions'[v]))
               /\ TailIndex(versions'[v]) <= TailIndex(N)
               /\ \A w \in v .. Latest + 1 : End(versions'[v]) <= End(versions'[w])
    <2>1. CASE v = Latest + 1
      <3>1. \A w \in v .. Latest + 1 : w = Latest + 1
        BY <1>1, <2>1
      <3> QED
        BY <1>1, <1>2, <2>1, <3>1
    <2>2. CASE v # Latest + 1
      <3>1. v \in 1 .. Latest /\ versions'[v] = versions[v]
        BY <1>1, <2>2
      <3>2. ASSUME NEW w \in v .. Latest + 1 PROVE End(versions[v]) <= End(versions'[w])
        <4>1. CASE w = Latest + 1
          BY <1>1, <1>3, <3>1, <4>1
        <4>2. CASE w # Latest + 1
          <5>1. w \in v .. Latest /\ w \in 1 .. Latest
            BY <1>1, <3>1, <4>2
          <5> QED
            BY <1>1, <1>3, <3>1, <5>1
        <4> QED
          BY <4>1, <4>2
      <3> QED
        BY <1>3, <3>1, <3>2
    <2> QED
      BY <2>1, <2>2
  <1> QED
    BY <1>1, <1>2, <1>4 DEF VersionsFit

LEMMA NewTrimsFit ==
    ASSUME LogShape, NEW B, VersionsFit(B), TrimsFit(B),
           NEW D, NEW N, NEW K, NewVersion(N, K, B, D)
    PROVE  TrimsFit(D)'
  <1>1. /\ Latest' = Latest + 1 /\ Latest \in Nat /\ Latest >= 1
        /\ versions'[Latest + 1] = N /\ \A v \in 1 .. Latest : versions'[v] = versions[v]
        /\ LastIndex' = TailIndex(N) /\ LastIndex <= TailIndex(N) /\ TailIndex(N) \in Nat
        /\ LastIndex <= LastPos
    BY NewLast
  <1>2. trimPoint' = trimPoint /\ ChainTrimmed(N, B) /\ \A k \in 0 .. LastPos : D[k] = B[k]
    BY DEF NewVersion
  <1>3. LastIndex \in Nat /\ LastPos \in Nat
    BY LastFacts
  <1>4. ASSUME NEW chain, ChainTrimmed(chain, B)
        PROVE  \/ OLDEST \in DOMAIN chain
               \/ \E i \in 0 .. TailIndex(N), c \in DOMAIN chain :
                     trimPoint'[i] # INVALID /\ c <= OffsetBy(D[i], trimPoint'[i]) + 1
    <2>1. CASE OLDEST \in DOMAIN chain
      BY <2>1
    <2>2. CASE OLDEST \notin DOMAIN chain
      <3>1. PICK i \in 0 .. LastIndex, c \in DOMAIN chain :
              trimPoint[i] # INVALID /\ c <= OffsetBy(B[i], trimPoint[i]) + 1
        BY <1>4, <2>2 DEF ChainTrimmed
      <3>2. i \in 0 .. TailIndex(N) /\ D[i] = B[i]
        BY <1>1, <1>2, <1>3
      <3> QED
        BY <1>2, <3>1, <3>2
    <2> QED
      BY <2>1, <2>2
  <1>5. ASSUME NEW v \in 1 .. Latest + 1 PROVE ChainTrimmed(versions'[v], B)
    <2>1. CASE v = Latest + 1
      BY <1>1, <1>2, <2>1
    <2>2. CASE v # Latest + 1
      <3>1. v \in 1 .. Latest
        BY <1>1, <2>2
      <3> QED
        BY <1>1, <3>1 DEF TrimsFit
    <2> QED
      BY <2>1, <2>2
  <1>6. ASSUME NEW v \in 1 .. Latest + 1
        PROVE  \/ OLDEST \in DOMAIN versions'[v]
               \/ \E i \in 0 .. TailIndex(N), c \in DOMAIN versions'[v] :
                     trimPoint'[i] # INVALID /\ c <= OffsetBy(D[i], trimPoint'[i]) + 1
    BY <1>4, <1>5
  <1> QED
    BY <1>1, <1>6 DEF TrimsFit, ChainTrimmed

LEMMA NewLogletsFit ==
    ASSUME LogShape, LogShape', NEW B, VersionsFit(B), LogletsFit(B), LogletsGrow,
           NEW D, NEW N, NEW K, NewVersion(N, K, B, D)
    PROVE  LogletsFit(D)'
  <1>1. /\ LastIndex' = TailIndex(N) /\ LastIndex <= TailIndex(N) /\ TailIndex(N) \in Nat
        /\ LastIndex <= LastPos
    BY NewLast
  <1>2. LastIndex \in Nat /\ LastPos \in Nat
    BY LastFacts
  <1>3. /\ UNCHANGED <<tail, sealed, top, trimPoint, known, knownSealed>>
        /\ \A k \in 0 .. LastPos : D[k] = B[k]
        /\ \A i \in Index : base'[i] = IF i \in LastIndex + 1 .. TailIndex(N) THEN D[i] ELSE base[i]
        /\ D \in [Points -> Lsn]
    BY DEF NewVersion
  <1>4. SUFFICES ASSUME NEW i \in Index PROVE LogletFits(i, D)'
    BY DEF LogletsFit
  <1>5. LogletFits(i, B)
    BY DEF LogletsFit
  <1>6. i \in Nat /\ i \in Points /\ D[i] \in Lsn /\ D[i] \in Nat /\ D[i] <= MaxLsn
    BY <1>3, Numbers
  <1>7. /\ tail[i] \in Nat /\ known[i] \in Nat /\ bound[i] \in Nat /\ top[i] \in Nat
        /\ bound'[i] \in Nat
    <2>1. bound'[i] \in OLDEST .. MaxLsn + 1
      BY DEF LogShape
    <2> QED
      BY <2>1, LogletFacts, Numbers
  <1>8. bound'[i] = bound[i] \/ top[i] <= bound'[i]
    BY DEF LogletsGrow
  <1>9. /\ tail[i] <= bound'[i]
        /\ OpenTailsBounded /\ ~knownSealed[i] => known[i] <= bound'[i]
    BY <1>5, <1>7, <1>8 DEF LogletFits
  <1>10. IF i <= TailIndex(N) THEN base'[i] = D[i] /\ OffsetBy(D[i], top[i]) <= MaxLsn
         ELSE base'[i] = INVALID /\ top[i] = OLDEST /\ ~sealed[i]
    <2>1. CASE i <= LastIndex
      <3>1. i \in 0 .. LastPos /\ i \notin LastIndex + 1 .. TailIndex(N) /\ i <= TailIndex(N)
        BY <1>1, <1>2, <1>6, <2>1
      <3> QED
        BY <1>3, <1>5, <2>1, <3>1 DEF LogletFits
    <2>2. CASE ~(i <= LastIndex) /\ i <= TailIndex(N)
      <3>1. i \in LastIndex + 1 .. TailIndex(N)
        BY <1>1, <1>2, <1>6, <2>2
      <3>2. top[i] = OLDEST
        BY <1>5, <2>2 DEF LogletFits
      <3>3. OffsetBy(D[i], top[i]) <= MaxLsn
        BY <1>6, <3>2 DEF OffsetBy, OLDEST
      <3> QED
        BY <1>3, <2>2, <3>1, <3>3
    <2>3. CASE ~(i <= TailIndex(N))
      <3>1. i \notin LastIndex + 1 .. TailIndex(N) /\ ~(i <= LastIndex)
        BY <1>1, <1>2, <1>6, <2>3
      <3> QED
        BY <1>3, <1>5, <2>3, <3>1 DEF LogletFits
    <2> QED
      BY <2>1, <2>2, <2>3
  <1> QED
    BY <1>1, <1>3, <1>5, <1>9, <1>10 DEF LogletFits

LEMMA NewEndsFit ==
    ASSUME LogShape, LogShape', NEW B, VersionsFit(B), EndsFit(B), LogletsGrow,
           NEW D, NEW N, NEW K, NewVersion(N, K, B, D)
    PROVE  EndsFit(D)'
  <1>1. LastPos' = K /\ K \in Nat /\ LastPos \in Nat /\ K \in {LastPos, LastPos + 1}
    BY NewLast, LastFacts DEF NewVersion
  <1>2. top' = top /\ (\A k \in 0 .. LastPos : D[k] = B[k])
    BY DEF NewVersion
  <1>3. SUFFICES ASSUME NEW i \in 0 .. K - 1
                 PROVE  /\ OffsetBy(D[i], bound'[i]) <= D[i + 1]
                        /\ D[i + 1] <= OffsetBy(D[i], top[i])
    BY <1>1, <1>2 DEF EndsFit
  <1>4. CASE i < LastPos
    <2>1. i \in 0 .. LastPos - 1 /\ i \in 0 .. LastPos /\ i + 1 \in 0 .. LastPos
      BY <1>1, <1>4
    <2>2. i \in Index /\ i \in Points /\ i + 1 \in Points
      BY <2>1, LastFacts, Numbers
    <2>3. B[i] \in Nat /\ B[i + 1] \in Nat /\ D[i] = B[i] /\ D[i + 1] = B[i + 1]
      BY <1>2, <2>1, <2>2, BasesAre
    <2>4. top[i] \in Nat /\ bound[i] \in Nat /\ bound'[i] \in Nat
      <3>1. bound'[i] \in OLDEST .. MaxLsn + 1
        BY <2>2 DEF LogShape
      <3> QED
        BY <2>2, <3>1, LogletFacts, Numbers
    <2>5. bound'[i] <= bound[i]
      BY <2>2 DEF LogletsGrow
    <2>6. OffsetBy(B[i], bound[i]) <= B[i + 1] /\ B[i + 1] <= OffsetBy(B[i], top[i])
      BY <2>1 DEF EndsFit
    <2> QED
      BY <2>3, <2>4, <2>5, <2>6 DEF OffsetBy, OLDEST
  <1>5. CASE ~(i < LastPos)
    <2>1. i = LastPos /\ K = i + 1 /\ i \in 0 .. LastPos
      BY <1>1, <1>5
    <2>2. i \in Index /\ D[i + 1] = OffsetBy(B[i], top[i]) /\ bound'[i] <= top[i] /\ D[i] = B[i]
      BY <1>1, <1>2, <2>1 DEF NewVersion
    <2>3. B[i] \in Nat
      BY <2>2, BasesAre
    <2>4. top[i] \in Nat /\ bound'[i] \in Nat
      <3>1. bound'[i] \in OLDEST .. MaxLsn + 1
        BY <2>2 DEF LogShape
      <3> QED
        BY <2>2, <3>1, LogletFacts, Numbers
    <2> QED
      BY <2>2, <2>3, <2>4 DEF OffsetBy, OLDEST
  <1> QED
    BY <1>4, <1>5

LEMMA NewRecordsFit ==
    ASSUME LogShape, LogShape', ReaderShape, NEW B, VersionsFit(B), DeliveredFit(B), delivered' = delivered,
           NEW D, NEW N, NEW K, NewVersion(N, K, B, D)
    PROVE  DeliveredFit(D)'
  <1>1. /\ LastPos' = K /\ K \in Nat /\ LastPos \in Nat /\ K \in {LastPos, LastPos + 1}
        /\ LastIndex' = TailIndex(N) /\ LastIndex <= TailIndex(N) /\ TailIndex(N) \in Nat
        /\ LastIndex <= LastPos /\ LastIndex \in Nat
    BY NewLast, LastFacts DEF NewVersion
  <1>2. top' = top /\ (\A k \in 0 .. LastPos : D[k] = B[k])
    BY DEF NewVersion
  <1>3. SUFFICES ASSUME NEW d \in delivered PROVE RecordFits(d, D)'
    BY DEF DeliveredFit
  <1>4. RecordFits(d, B)
    BY DEF DeliveredFit
  <1>5. d \in [lsn : Lsn, index : Index]
    BY DEF ReaderShape
  <1>6. PICK lsn \in Lsn, i \in Index : lsn = d.lsn /\ i = d.index
    BY <1>5
  <1>7. /\ i <= LastIndex /\ B[i] <= lsn /\ lsn < OffsetBy(B[i], top[i])
        /\ OpenTailsBounded /\ i < LastPos => lsn < B[i + 1]
    BY <1>4, <1>6 DEF RecordFits
  <1>8. i \in Nat /\ i \in 0 .. LastPos /\ D[i] = B[i] /\ i <= TailIndex(N)
    BY <1>1, <1>2, <1>7, Numbers
  <1>9. ASSUME OpenTailsBounded, i < K PROVE lsn < D[i + 1]
    <2>1. CASE i < LastPos
      <3>1. i + 1 \in 0 .. LastPos
        BY <1>1, <1>8, <2>1
      <3> QED
        BY <1>2, <1>7, <1>9, <2>1, <3>1
    <2>2. CASE ~(i < LastPos)
      <3>1. i = LastPos /\ K = i + 1
        BY <1>1, <1>8, <1>9, <2>2
      <3>2. D[i + 1] = OffsetBy(B[i], top[i])
        BY <1>1, <3>1 DEF NewVersion
      <3> QED
        BY <1>7, <3>2
    <2> QED
      BY <2>1, <2>2
  <1> QED
    BY <1>1, <1>2, <1>6, <1>7, <1>8, <1>9 DEF RecordFits

LEMMA NewReaderFits ==
    ASSUME LogShape, LogShape', ReaderShape, NEW B, VersionsFit(B), ReaderFits(B), LogletsGrow,
           UNCHANGED <<readPointer, substream, safeKnownTail>>, StateKept,
           NEW D, NEW N, NEW K, NewVersion(N, K, B, D)
    PROVE  ReaderFits(D)'
  <1>1. /\ LastPos' = K /\ K \in Nat /\ LastPos \in Nat /\ LastPos <= K
        /\ LastIndex' = TailIndex(N) /\ LastIndex <= TailIndex(N) /\ TailIndex(N) \in Nat
        /\ LastIndex <= LastPos /\ LastIndex \in Nat
    BY NewLast, LastFacts
  <1>2. \A k \in 0 .. LastPos : D[k] = B[k]
    BY DEF NewVersion
  <1>3. CASE state = "FindingLoglet"
    BY <1>3 DEF ReaderFits, StateKept
  <1>4. CASE state # "FindingLoglet"
    <2>1. PICK x \in Wrapper : x = substream
      BY SubstreamIs
    <2>2. PICK safe \in Nat : safe = safeKnownTail
      BY DEF ReaderShape
    <2>3. SubstreamFits(x, B) /\ (state = "Reading" => SafeTailFits(x, safe))
      BY <1>4, <2>1, <2>2 DEF ReaderFits
    <2>4. SubstreamFits(x, D)'
      <3>1. PICK i \in Int, p \in Int : i = x.index /\ p = Pos(x)
        BY WrapperFields
      <3>2. /\ i \in 0 .. LastIndex /\ p <= LastPos /\ x.base = B[p] /\ x.base <= readPointer
            /\ x.end # INVALID => ~x.marker /\ i < LastPos /\ x.end = B[i + 1]
        BY <2>3, <3>1 DEF SubstreamFits
      <3>3. p \in 0 .. LastPos /\ p <= K /\ i \in 0 .. TailIndex(N)
        BY <1>1, <3>1, <3>2, WrapperFields
      <3>4. x.end # INVALID => i < K /\ i + 1 \in 0 .. LastPos
        BY <1>1, <3>2
      <3> QED
        BY <1>1, <1>2, <3>1, <3>2, <3>3, <3>4 DEF SubstreamFits
    <2>5. x.index \in Index
      BY <2>3, LastFacts, Numbers DEF SubstreamFits
    <2>6. ASSUME state' = "Reading" PROVE SafeTailFits(x, safe)'
      BY <2>3, <2>5, <2>6, SafeTailStays DEF StateKept
    <2>7. substream' = x /\ safeKnownTail' = safe /\ state' # "FindingLoglet"
      BY <1>4, <2>1, <2>2 DEF StateKept
    <2> QED
      BY <2>4, <2>6, <2>7 DEF ReaderFits, SubstreamFits, SafeTailFits
  <1> QED
    BY <1>3, <1>4

LEMMA VersionStep ==
    ASSUME LogShape, LogShape', ReaderShape, NothingSkipped, NEW B, OneTimeline(B),
           UNCHANGED streamVars, StateKept, LogletsGrow,
           NEW D, NEW N, NEW K, NewVersion(N, K, B, D)
    PROVE  OneTimeline(D)' /\ NothingSkipped'
  <1>1. UNCHANGED <<readPointer, substream, safeKnownTail, delivered>>
    BY DEF streamVars
  <1>2. \A i \in Index : trimPoint[i] <= trimPoint'[i]
    BY DEF LogletsGrow
  <1>3. /\ VersionsFit(B) /\ TrimsFit(B) /\ LogletsFit(B) /\ EndsFit(B)
        /\ DeliveredFit(B) /\ ReaderFits(B)
    BY DEF OneTimeline
  <1>4. VersionsFit(D)'
    BY <1>3, NewVersionsFit
  <1>5. TrimsFit(D)'
    BY <1>3, NewTrimsFit
  <1>6. LogletsFit(D)'
    BY <1>3, NewLogletsFit
  <1>7. EndsFit(D)'
    BY <1>3, NewEndsFit
  <1>8. DeliveredFit(D)'
    BY <1>1, <1>3, NewRecordsFit
  <1>9. ReaderFits(D)'
    BY <1>1, <1>3, NewReaderFits
  <1>10. ASSUME NEW i \in Index, trimPoint[i] # INVALID PROVE base'[i] = base[i] /\ base[i] # INVALID
    <2>1. base[i] # INVALID /\ i <= LastIndex
      BY <1>3, <1>10, TrimmedHasBase
    <2>2. i \notin LastIndex + 1 .. TailIndex(N)
      BY <1>3, <2>1, LastFacts, Numbers
    <2> QED
      BY <2>1, <2>2 DEF NewVersion
  <1>11. NothingSkipped'
    BY <1>1, <1>2, <1>10, NothingSkippedStays DEF ReaderShape
  <1> QED
    BY <1>4, <1>5, <1>6, <1>7, <1>8, <1>9, <1>11 DEF OneTimeline

\* N goes on behind the tail segment of the log, at the highest tail of its loglet
AfterTail(N, B, D, i) ==
    /\ Fits(N, D, LastIndex + 1) /\ Rising(D, LastIndex + 1) /\ N \in ChainSet
    /\ TailIndex(N) = i
    /\ D \in [Points -> Lsn] /\ (\A k \in 0 .. LastPos : D[k] = B[k])
    /\ D[LastIndex + 1] = OffsetBy(B[LastIndex], top[LastIndex])
    /\ ChainTrimmed(N, B) /\ LastPos = LastIndex /\ LastIndex \in Index
    /\ OffsetBy(base[LastIndex], top[LastIndex]) >= TailBase(Chain)

\* a segment that starts where the tail segment of the log ends
LEMMA PutAfterTail ==
    ASSUME LogShape, NEW B, OneTimeline(B), ~IsSealed(Chain),
           NEW segment \in Segments, Pos(segment) = LastIndex + 1,
           NEW lsn, lsn = OffsetBy(base[LastIndex], top[LastIndex]),
           NEW D, D = [B EXCEPT ![LastIndex + 1] = lsn],
           NEW N, N = Put(Chain, lsn, segment)
    PROVE  AfterTail(N, B, D, segment.index)
  <1> DEFINE i == LastIndex
  <1>1. VersionsFit(B) /\ TrimsFit(B)
    BY DEF OneTimeline
  <1>2. /\ i \in Nat /\ i \in Index /\ i \in 0 .. i /\ LastPos = i
        /\ Fits(Chain, B, i) /\ Rising(B, i) /\ Chain \in ChainSet
        /\ TailBase(Chain) = B[i] /\ Latest \in 1 .. Latest
    BY <1>1, LastFacts
  <1>3. base[i] = B[i] /\ B[i] \in Nat /\ B[i] >= 1 /\ OffsetBy(B[i], top[i]) <= MaxLsn
    BY <1>2, SegmentFacts
  <1>4. top[i] \in Nat /\ top[i] >= 1
    BY <1>2, LogletFacts
  <1>5. lsn = OffsetBy(B[i], top[i]) /\ lsn \in Nat \ {0} /\ lsn >= B[i] /\ lsn <= MaxLsn
    BY <1>3, <1>4 DEF OffsetBy, OLDEST
  <1>6. lsn \in Lsn /\ i + 1 \in Points /\ B \in [Points -> Lsn]
    BY <1>1, <1>2, <1>5, Numbers DEF VersionsFit
  <1>7. D \in [Points -> Lsn] /\ D[i + 1] = lsn
    BY <1>6
  <1>8. \A k \in 0 .. i : D[k] = B[k]
    <2>1. \A k \in 0 .. i : k \in Points /\ k # i + 1
      BY <1>2, Numbers
    <2> QED
      BY <1>6, <2>1
  <1> HIDE DEF i
  <1>9. Fits(N, D, i + 1) /\ Rising(D, i + 1)
    <2>1. Pos(segment) = i + 1
      BY DEF i
    <2>2. Fits(Put(Chain, lsn, segment), D, i + 1) /\ Rising(D, i + 1)
      BY <1>2, <1>5, <1>7, <1>8, <2>1, PutFits
    <2> QED
      BY <2>2
  <1>10. TailBase(N) = lsn /\ TailIndex(N) = N[lsn].index /\ N \in ChainSet
    <2>1. PICK j \in Nat : j = i + 1
      BY <1>2
    <2>2. Fits(N, D, j) /\ Rising(D, j)
      BY <1>9, <2>1
    <2>3. TailBase(N) = D[j]
      BY <2>2, FitsTail
    <2> QED
      BY <1>7, <1>9, <2>1, <2>3 DEF TailIndex, Fits
  <1>11. TailIndex(N) = segment.index
    BY <1>10 DEF Put
  <1>12. ChainTrimmed(N, B)
    <2>1. ChainTrimmed(Chain, B)
      BY <1>1, <1>2 DEF TrimsFit, Chain
    <2>2. DOMAIN Chain \subseteq DOMAIN N
      BY DEF Put
    <2> QED
      BY <2>1, <2>2 DEF ChainTrimmed
  <1> QED
    BY <1>2, <1>5, <1>7, <1>8, <1>9, <1>10, <1>11, <1>12 DEF i, AfterTail

LEMMA AppendVersion ==
    ASSUME LogShape, NEW N \in ChainSet, versions' = Append(versions, N)
    PROVE  versions' \in Seq(ChainSet) /\ Len(versions') = Latest + 1 /\ Latest' = Latest + 1
           /\ Latest \in Nat /\ Latest >= 1
  BY DEF LogShape, Latest

\* a report of the sealed tail is all that changes the loglets
LEMMA ReportGrows ==
    ASSUME LogShape, NEW i \in Index, ReportSealed(i), UNCHANGED <<top, trimPoint>>
    PROVE  LogletsGrow
  <1>1. /\ bound'[i] <= bound[i] /\ (bound'[i] = bound[i] \/ bound'[i] = top[i])
        /\ \A j \in Index : j # i => bound'[j] = bound[j]
    BY ReportSealedIs
  <1>2. \A j \in Index : top[j] \in Nat /\ bound[j] \in Nat /\ trimPoint[j] \in Nat
    BY LogletFacts
  <1>3. ASSUME NEW j \in Index PROVE bound'[j] <= bound[j] /\ (bound'[j] = bound[j] \/ top[j] <= bound'[j])
    <2>1. CASE j = i
      BY <1>1, <1>2, <2>1
    <2>2. CASE j # i
      BY <1>1, <1>2, <2>2
    <2> QED
      BY <2>1, <2>2
  <1> QED
    BY <1>2, <1>3 DEF LogletsGrow

\* the chain is sealed at the tail that the loglet reports
LEMMA SealAdds ==
    ASSUME LogShape, ReaderShape, NothingSkipped, NEW B, OneTimeline(B), ~IsSealed(Chain),
           ReportSealed(LastIndex),
           ChangeLogs([op |-> "seal", seg |-> LastIndex,
                       lsn |-> OffsetBy(base[LastIndex], top[LastIndex])]),
           UNCHANGED <<base, tail, sealed, top, trimPoint, known, knownSealed, streamVars>>,
           view' \in 1 .. Latest + 1, StateKept
    PROVE  LogShape' /\ NothingSkipped' /\ \E D \in [Points -> Lsn] : OneTimeline(D)'
  <1>1. PICK lsn : lsn = OffsetBy(base[LastIndex], top[LastIndex])
    OBVIOUS
  <1>2. PICK cmd : cmd = [op |-> "seal", seg |-> LastIndex, lsn |-> lsn]
    OBVIOUS
  <1>3. cmd.op = "seal" /\ cmd.seg = LastIndex /\ cmd.lsn = lsn
    BY <1>2
  <1>4. PICK N : N = Put(Chain, lsn, Marker(LastIndex))
    OBVIOUS
  <1>5. PICK D : D = [B EXCEPT ![LastIndex + 1] = lsn]
    OBVIOUS
  <1>6. VersionsFit(B)
    BY DEF OneTimeline
  <1>7. LastIndex \in Nat /\ LastIndex \in Index /\ LastIndex <= MaxIndex /\ MaxIndex \in Nat
    BY <1>6, LastFacts, Numbers
  <1>8. PICK seal \in Segments :
          seal = Marker(LastIndex) /\ Pos(seal) = LastIndex + 1 /\ seal.index = LastIndex
    <2>1. PICK seal : seal = Marker(LastIndex)
      OBVIOUS
    <2>2. seal \in Segments /\ seal.index = LastIndex /\ seal.marker
      BY <1>7, <2>1 DEF Marker, Segments
    <2> QED
      BY <2>1, <2>2 DEF Pos
  <1>9. /\ Fits(N, D, LastIndex + 1) /\ Rising(D, LastIndex + 1) /\ N \in ChainSet
        /\ TailIndex(N) = LastIndex
        /\ D \in [Points -> Lsn] /\ (\A k \in 0 .. LastPos : D[k] = B[k])
        /\ D[LastIndex + 1] = OffsetBy(B[LastIndex], top[LastIndex])
        /\ ChainTrimmed(N, B) /\ LastPos = LastIndex
        /\ lsn >= TailBase(Chain)
    <2>1. N = Put(Chain, lsn, seal)
      BY <1>4, <1>8
    <2>2. Pos(seal) = LastIndex + 1
      BY <1>8
    <2>3. AfterTail(N, B, D, seal.index)
      BY <1>1, <1>5, <2>1, <2>2, PutAfterTail
    <2> QED
      BY <1>1, <1>8, <2>3 DEF AfterTail
  <1>10. Apply(Chain, cmd) = N
    <2>1. MaySeal(Chain, cmd)
      BY <1>3, <1>9 DEF MaySeal, LastIndex
    <2> QED
      BY <1>3, <1>4, <2>1 DEF Apply
  <1>11. versions' = Append(versions, N)
    BY <1>1, <1>2, <1>10 DEF ChangeLogs
  <1>12. /\ bound' \in [Index -> OLDEST .. MaxLsn + 1] /\ bound'[LastIndex] <= top[LastIndex]
    BY <1>7, ReportSealedIs
  <1>13. LogletsGrow
    BY <1>7, ReportGrows
  <1>14. LogShape'
    <2>1. versions' \in Seq(ChainSet) /\ Latest' = Latest + 1 /\ Latest \in Nat /\ Latest >= 1
      BY <1>9, <1>11, AppendVersion
    <2>2. Latest' >= 1 /\ view' \in 1 .. Latest'
      BY <2>1
    <2> QED
      BY <1>12, <2>1, <2>2 DEF LogShape
  <1>15. NewVersion(N, LastIndex + 1, B, D)
    <2>1. LastIndex \in LastIndex .. MaxIndex /\ \A i \in Index : i \notin LastIndex + 1 .. LastIndex
      BY <1>7
    <2> QED
      BY <1>7, <1>9, <1>11, <1>12, <2>1 DEF NewVersion
  <1>16. OneTimeline(D)' /\ NothingSkipped'
    BY <1>13, <1>14, <1>15, VersionStep
  <1> QED
    BY <1>9, <1>14, <1>16

LEMMA SealChainStep ==
    ASSUME LogShape, ReaderShape, NothingSkipped, NEW B, OneTimeline(B), SealChain
    PROVE  LogShape' /\ ReaderShape' /\ NothingSkipped' /\ \E D \in [Points -> Lsn] : OneTimeline(D)'
  <1>1. /\ ~IsSealed(Chain) /\ ReportSealed(LastIndex)
        /\ ChangeLogs([op |-> "seal", seg |-> LastIndex,
                       lsn |-> OffsetBy(base[LastIndex], top[LastIndex])])
        /\ UNCHANGED <<base, tail, sealed, top, trimPoint, known, knownSealed, streamVars>>
        /\ UNCHANGED <<view, state, tailChanged, wakers>>
    BY DEF SealChain, LastIndex, watchVars
  <1>2. view' \in 1 .. Latest + 1
    BY <1>1 DEF LogShape, Latest
  <1>3. StateKept
    BY <1>1 DEF StateKept
  <1>4. ReaderShape'
    BY <1>1, ReaderShapeStays DEF ReaderShape
  <1> QED
    BY <1>1, <1>2, <1>3, <1>4, SealAdds

\* a loglet replaces the marker at the end of the chain
LEMMA ReplaceMarker ==
    ASSUME LogShape, NEW B, OneTimeline(B), IsSealed(Chain),
           NEW N, N = Put(Chain, TailBase(Chain), Loglet(LastIndex + 1))
    PROVE  /\ Fits(N, B, LastPos) /\ Rising(B, LastPos) /\ N \in ChainSet
           /\ TailIndex(N) = LastIndex + 1 /\ LastPos = LastIndex + 1
           /\ TailBase(Chain) = B[LastIndex + 1] /\ TailBase(Chain) \in Nat
           /\ ChainTrimmed(N, B)
  <1>1. VersionsFit(B) /\ TrimsFit(B)
    BY DEF OneTimeline
  <1>2. PICK J \in Nat : J = LastPos
    BY <1>1, LastFacts
  <1>3. /\ J = LastIndex + 1 /\ Fits(Chain, B, J) /\ Rising(B, J) /\ Chain \in ChainSet
        /\ TailBase(Chain) = B[J] /\ Latest \in 1 .. Latest /\ B[J] \in DOMAIN Chain
    BY <1>1, <1>2, LastFacts
  <1>4. N = Put(Chain, B[J], Loglet(J))
    BY <1>3
  <1>5. Fits(N, B, J)
    BY <1>3, <1>4, ReplaceFits
  <1>6. TailBase(N) = B[J] /\ N \in ChainSet
    <2>1. N \in ChainSet
      BY <1>5 DEF Fits
    <2>2. Rising(B, J)
      BY <1>3
    <2>3. TailBase(N) = B[J]
      BY <1>5, <2>2, FitsTail
    <2> QED
      BY <2>1, <2>3
  <1>7. N[B[J]] = Loglet(J)
    BY <1>4 DEF Put
  <1>8. TailIndex(N) = J
    BY <1>6, <1>7 DEF TailIndex, Loglet
  <1>9. ChainTrimmed(N, B)
    <2>1. ChainTrimmed(Chain, B)
      BY <1>1, <1>3 DEF TrimsFit, Chain
    <2>2. DOMAIN Chain \subseteq DOMAIN N
      BY <1>4 DEF Put
    <2> QED
      BY <2>1, <2>2 DEF ChainTrimmed
  <1>10. B[J] \in Nat
    BY <1>3, ChainFields
  <1> QED
    BY <1>2, <1>3, <1>5, <1>6, <1>8, <1>9, <1>10

LEMMA ExtendChainStep ==
    ASSUME LogShape, ReaderShape, NothingSkipped, NEW B, OneTimeline(B), ExtendChain
    PROVE  LogShape' /\ ReaderShape' /\ NothingSkipped' /\ \E D \in [Points -> Lsn] : OneTimeline(D)'
  <1>1. VersionsFit(B)
    BY DEF OneTimeline
  <1>2. /\ LastIndex \in Nat /\ LastIndex \in Index /\ LastIndex <= MaxIndex /\ MaxIndex \in Nat
        /\ IsSealed(Chain) \in BOOLEAN
    BY <1>1, LastFacts, Numbers
  <1>3. PICK lsn : lsn = IF IsSealed(Chain) THEN TailBase(Chain) ELSE OffsetBy(base[LastIndex], top[LastIndex])
    OBVIOUS
  <1>4. PICK cmd : cmd = [op |-> "extend", seg |-> LastIndex, lsn |-> lsn]
    OBVIOUS
  <1>5. cmd.op = "extend" /\ cmd.seg = LastIndex /\ cmd.lsn = lsn
    BY <1>4
  <1>6. /\ LastIndex < MaxIndex /\ ChangeLogs(cmd)
        /\ base' = [base EXCEPT ![LastIndex + 1] = lsn]
        /\ IF IsSealed(Chain) THEN UNCHANGED bound ELSE ReportSealed(LastIndex)
        /\ UNCHANGED <<tail, sealed, top, trimPoint, known, knownSealed>> /\ UNCHANGED streamVars
        /\ UNCHANGED <<view, state, tailChanged, wakers>>
    BY <1>3, <1>4 DEF ExtendChain, LastIndex, watchVars
  <1>7. LastIndex + 1 \in Index
    BY <1>2, <1>6, Numbers
  <1>8. ReaderShape'
    BY <1>6, ReaderShapeStays DEF ReaderShape
  <1>9. StateKept
    BY <1>6 DEF StateKept
  <1>10. PICK N : N = Put(Chain, lsn, Loglet(LastIndex + 1))
    OBVIOUS
  <1>11. ASSUME lsn >= TailBase(Chain) PROVE versions' = Append(versions, N)
    <2>1. MayExtend(Chain, cmd)
      BY <1>3, <1>5, <1>11 DEF MayExtend, LastIndex
    <2>2. Apply(Chain, cmd) = N
      BY <1>5, <1>10, <2>1 DEF Apply
    <2> QED
      BY <1>6, <2>2 DEF ChangeLogs
  <1>12. ASSUME N \in ChainSet, versions' = Append(versions, N), lsn \in Lsn,
                bound' \in [Index -> OLDEST .. MaxLsn + 1]
         PROVE  LogShape'
    <2>1. versions' \in Seq(ChainSet) /\ Latest' = Latest + 1 /\ Latest \in Nat /\ Latest >= 1
      BY <1>12, AppendVersion
    <2>2. Latest' >= 1 /\ view' \in 1 .. Latest'
      BY <1>6, <2>1 DEF LogShape
    <2>3. base' \in [Index -> Lsn \cup {INVALID}]
      BY <1>6, <1>7, <1>12 DEF LogShape
    <2> QED
      BY <1>6, <1>12, <2>1, <2>2, <2>3 DEF LogShape
  <1>13. \A i \in Index : base'[i] = IF i = LastIndex + 1 THEN lsn ELSE base[i]
    BY <1>6, <1>7 DEF LogShape
  <1>14. \A i \in Index : i \in LastIndex + 1 .. LastIndex + 1 <=> i = LastIndex + 1
    BY <1>2
  <1>15. LastIndex + 1 \in LastIndex .. MaxIndex
    BY <1>2, <1>6
  <1>16. CASE IsSealed(Chain)
    <2>1. N = Put(Chain, TailBase(Chain), Loglet(LastIndex + 1)) /\ lsn = TailBase(Chain)
      BY <1>3, <1>10, <1>16
    <2>2. /\ Fits(N, B, LastPos) /\ Rising(B, LastPos) /\ N \in ChainSet
          /\ TailIndex(N) = LastIndex + 1 /\ LastPos = LastIndex + 1
          /\ TailBase(Chain) = B[LastIndex + 1] /\ TailBase(Chain) \in Nat
          /\ ChainTrimmed(N, B)
      BY <1>16, <2>1, ReplaceMarker
    <2>3. versions' = Append(versions, N)
      BY <1>11, <2>1, <2>2
    <2>4. lsn \in Lsn /\ B \in [Points -> Lsn]
      BY <1>1, <1>7, <2>1, <2>2, BasesAre DEF VersionsFit
    <2>5. bound' = bound /\ bound' \in [Index -> OLDEST .. MaxLsn + 1]
      BY <1>6, <1>16 DEF LogShape
    <2>6. LogShape'
      BY <1>12, <2>2, <2>3, <2>4, <2>5
    <2>7. LogletsGrow
      <3>1. \A j \in Index : top[j] \in Nat /\ bound[j] \in Nat /\ trimPoint[j] \in Nat
        BY LogletFacts
      <3> QED
        BY <1>6, <2>5, <3>1 DEF LogletsGrow
    <2>8. NewVersion(N, LastPos, B, B)
      BY <1>6, <1>13, <1>14, <1>15, <2>1, <2>2, <2>3, <2>4 DEF NewVersion
    <2>9. OneTimeline(B)' /\ NothingSkipped'
      BY <1>6, <1>9, <2>6, <2>7, <2>8, VersionStep
    <2> QED
      BY <1>8, <2>4, <2>6, <2>9
  <1>17. CASE ~IsSealed(Chain)
    <2>1. PICK D : D = [B EXCEPT ![LastIndex + 1] = lsn]
      OBVIOUS
    <2>2. PICK next \in Segments :
            next = Loglet(LastIndex + 1) /\ Pos(next) = LastIndex + 1 /\ next.index = LastIndex + 1
      <3>1. PICK next : next = Loglet(LastIndex + 1)
        OBVIOUS
      <3>2. next \in Segments /\ next.index = LastIndex + 1 /\ ~next.marker
        BY <1>2, <3>1 DEF Loglet, Segments
      <3> QED
        BY <3>1, <3>2 DEF Pos
    <2>3. lsn = OffsetBy(base[LastIndex], top[LastIndex])
      BY <1>3, <1>17
    <2>4. /\ Fits(N, D, LastIndex + 1) /\ Rising(D, LastIndex + 1) /\ N \in ChainSet
          /\ TailIndex(N) = LastIndex + 1
          /\ D \in [Points -> Lsn] /\ (\A k \in 0 .. LastPos : D[k] = B[k])
          /\ D[LastIndex + 1] = OffsetBy(B[LastIndex], top[LastIndex])
          /\ ChainTrimmed(N, B) /\ LastPos = LastIndex
          /\ lsn >= TailBase(Chain)
      <3>1. N = Put(Chain, lsn, next)
        BY <1>10, <2>2
      <3>2. Pos(next) = LastIndex + 1
        BY <2>2
      <3>3. AfterTail(N, B, D, next.index)
        BY <1>17, <2>1, <2>3, <3>1, <3>2, PutAfterTail
      <3> QED
        BY <2>2, <2>3, <3>3 DEF AfterTail
    <2>5. versions' = Append(versions, N)
      BY <1>11, <2>4
    <2>6. LastIndex + 1 \in Points /\ B \in [Points -> Lsn]
      BY <1>1, <1>7, BasesAre DEF VersionsFit
    <2>7. D[LastIndex + 1] = lsn /\ lsn \in Lsn
      <3>1. D[LastIndex + 1] = lsn
        BY <2>1, <2>6
      <3> QED
        BY <2>4, <2>6, <3>1
    <2>8. ReportSealed(LastIndex)
      BY <1>6, <1>17
    <2>9. bound' \in [Index -> OLDEST .. MaxLsn + 1] /\ bound'[LastIndex] <= top[LastIndex]
      BY <1>2, <2>8, ReportSealedIs
    <2>10. LogletsGrow
      BY <1>2, <1>6, <2>8, ReportGrows
    <2>11. LogShape'
      BY <1>12, <2>4, <2>5, <2>7, <2>9
    <2>12. NewVersion(N, LastIndex + 1, B, D)
      BY <1>2, <1>6, <1>13, <1>14, <1>15, <2>4, <2>5, <2>7, <2>9 DEF NewVersion
    <2>13. OneTimeline(D)' /\ NothingSkipped'
      BY <1>6, <1>9, <2>10, <2>11, <2>12, VersionStep
    <2> QED
      BY <1>8, <2>4, <2>11, <2>13
  <1> QED
    BY <1>2, <1>16, <1>17

\* the trim point of the log is not above the one of some loglet
LEMMA TrimPointIs ==
    ASSUME LogShape, NEW B, OneTimeline(B), GetTrimPoint(Chain, trimPoint) # INVALID
    PROVE  /\ GetTrimPoint(Chain, trimPoint) \in Nat
           /\ \E i \in 0 .. LastIndex :
                 /\ trimPoint[i] # INVALID
                 /\ GetTrimPoint(Chain, trimPoint) <= OffsetBy(B[i], trimPoint[i])
  <1> DEFINE chain == Chain
             untrimmed == {b \in DOMAIN chain : chain[b].marker \/ trimPoint[chain[b].index] = INVALID}
             found == {b \in DOMAIN chain : \A u \in untrimmed : b < u}
             b == Max(found)
             i == chain[b].index
             point == OffsetBy(b, trimPoint[i])
             end == TailLsn(chain, b)
  <1>1. VersionsFit(B)
    BY DEF OneTimeline
  <1>2. /\ chain \in ChainSet /\ Fits(chain, B, LastPos) /\ LastPos \in Nat /\ Rising(B, LastPos)
        /\ LastIndex \in Nat /\ LastPos \in {LastIndex, LastIndex + 1}
        /\ IsSealed(chain) => LastPos = LastIndex + 1
        /\ ~IsSealed(chain) => LastPos = LastIndex
    BY <1>1, LastFacts
  <1>3. /\ B[LastPos] \in DOMAIN chain /\ \A c \in DOMAIN chain : c <= B[LastPos]
        /\ IsSealed(chain) = chain[B[LastPos]].marker
    BY <1>2, FitsTail
  <1>4. DOMAIN chain \subseteq Nat \ {0} /\ \A c \in DOMAIN chain : chain[c].index \in Nat
    BY <1>2, ChainFields
  <1>5. found # {} /\ GetTrimPoint(chain, trimPoint) = SegmentTrimPoint(chain, b, trimPoint)
    BY DEF GetTrimPoint
  <1>6. b \in found
    <2>1. found \subseteq Nat /\ B[LastPos] \in Nat /\ \A c \in found : c <= B[LastPos]
      BY <1>3, <1>4
    <2> HIDE DEF found
    <2> QED
      BY <1>5, <2>1, MaxIs
  <1> HIDE DEF b
  <1>7. b \in DOMAIN chain /\ ~chain[b].marker /\ trimPoint[i] # INVALID /\ b \in Nat /\ b >= 1
    <2>1. b \in DOMAIN chain /\ b \in Nat /\ b >= 1
      BY <1>4, <1>6
    <2>2. b \notin untrimmed
      <3>1. b \in untrimmed => b < b
        BY <1>6
      <3> QED
        BY <2>1, <3>1
    <2> QED
      BY <2>1, <2>2
  <1>8. Pos(chain[b]) = i /\ B[i] = b /\ i \in 0 .. LastPos
    <2>1. Pos(chain[b]) = i
      BY <1>2, <1>7, ChainFields
    <2> QED
      BY <1>2, <1>7, <2>1 DEF Fits
  <1>9. i \in 0 .. LastIndex
    <2>1. CASE LastPos = LastIndex
      BY <1>8, <2>1
    <2>2. CASE LastPos # LastIndex
      <3>1. IsSealed(chain)
        BY <1>2, <2>2
      <3>2. i # LastPos
        BY <1>3, <1>7, <1>8, <3>1
      <3> QED
        BY <1>2, <1>8, <2>2, <3>2
    <2> QED
      BY <2>1, <2>2
  <1>10. i \in Index
    BY <1>9, SegmentFacts
  <1>11. trimPoint[i] \in Nat /\ trimPoint[i] >= 1
    <2>1. trimPoint[i] \in Lsn \cup {INVALID}
      BY <1>10 DEF LogShape
    <2> QED
      BY <1>7, <2>1, Numbers
  <1>12. point \in Nat /\ point = OffsetBy(B[i], trimPoint[i])
    <2>1. point = b + trimPoint[i] - 1
      BY <1>7, <1>11, OffsetIs
    <2> QED
      BY <1>7, <1>8, <1>11, <2>1
  <1>13. SegmentTrimPoint(chain, b, trimPoint) = IF end = INVALID THEN point ELSE Min({point, end - 1})
    BY DEF SegmentTrimPoint
  <1> HIDE DEF point, end
  <1>14. SegmentTrimPoint(chain, b, trimPoint) \in Nat /\ SegmentTrimPoint(chain, b, trimPoint) <= point
    <2>1. CASE end = INVALID
      BY <1>12, <1>13, <2>1
    <2>2. CASE end # INVALID
      <3>1. end \in Nat /\ end >= 1
        <4>1. end > b /\ (Pos(chain[b]) # LastPos => end = B[Pos(chain[b]) + 1] /\ end \in DOMAIN chain)
              /\ (Pos(chain[b]) = LastPos => end = INVALID)
          BY <1>2, <1>7, <2>2, TailLsnIs DEF end
        <4> QED
          BY <1>4, <2>2, <4>1
      <3>2. PICK a \in Int, e \in Int : a = point /\ e = end - 1
        BY <1>12, <3>1
      <3>3. Min({a, e}) \in {a, e} /\ Min({a, e}) <= a
        BY MinTwo
      <3> QED
        BY <1>12, <1>13, <2>2, <3>1, <3>2, <3>3
    <2> QED
      BY <2>1, <2>2
  <1>15. GetTrimPoint(chain, trimPoint) \in Nat /\ GetTrimPoint(chain, trimPoint) <= OffsetBy(B[i], trimPoint[i])
    BY <1>5, <1>12, <1>14
  <1> QED
    BY <1>7, <1>9, <1>15

LEMMA TrimChainStep ==
    ASSUME LogShape, ReaderShape, NothingSkipped, NEW B, OneTimeline(B), TrimChain
    PROVE  LogShape' /\ ReaderShape' /\ NothingSkipped' /\ OneTimeline(B)'
  <1>1. VersionsFit(B) /\ TrimsFit(B)
    BY DEF OneTimeline
  <1>2. PICK point : point = GetTrimPoint(Chain, trimPoint)
    OBVIOUS
  <1>3. PICK cmd : cmd = [op |-> "trim", seg |-> -1, lsn |-> point]
    OBVIOUS
  <1>4. cmd.op = "trim" /\ cmd.lsn = point
    BY <1>3
  <1>5. /\ point # INVALID /\ ChangeLogs(cmd)
        /\ UNCHANGED <<view, base, tail, sealed, bound, top, trimPoint, known, knownSealed>>
        /\ UNCHANGED streamVars /\ UNCHANGED <<state, tailChanged, wakers>>
    BY <1>2, <1>3 DEF TrimChain, logletVars, watchVars
  <1>6. point \in Nat
    BY <1>2, <1>5, TrimPointIs
  <1>7. PICK i \in 0 .. LastIndex : trimPoint[i] # INVALID /\ point <= OffsetBy(B[i], trimPoint[i])
    BY <1>2, <1>5, TrimPointIs
  <1>8. PICK N : N = Trimmed(Chain, point)
    OBVIOUS
  <1>9. versions' = Append(versions, N)
    <2>1. Apply(Chain, cmd) = N
      BY <1>4, <1>8 DEF Apply
    <2> QED
      BY <1>5, <2>1 DEF ChangeLogs
  <1>10. PICK J \in Nat : J = LastPos
    BY <1>1, LastFacts
  <1>11. /\ Fits(Chain, B, J) /\ Rising(B, J) /\ Chain \in ChainSet /\ Latest \in 1 .. Latest
         /\ LastIndex \in Nat /\ LastIndex <= MaxIndex /\ MaxIndex \in Nat
         /\ TailBase(Chain) = B[J]
    BY <1>1, <1>10, LastFacts, Numbers
  <1>12. Fits(N, B, J)
    BY <1>6, <1>8, <1>11, TrimFits
  <1>13. N[B[J]] = Chain[B[J]]
    <2>1. PICK chain : chain = Chain
      OBVIOUS
    <2>2. Fits(chain, B, J)
      BY <1>11, <2>1
    <2>3. Trimmed(chain, point)[B[J]] = chain[B[J]]
      BY <1>6, <1>11, <2>2, TrimFits
    <2> QED
      BY <1>8, <2>1, <2>3
  <1>14. \A b \in DOMAIN Chain : \E c \in DOMAIN N : c <= b \/ c <= point + 1
    BY <1>6, <1>8, <1>11, TrimFits
  <1>15. TailIndex(N) = LastIndex
    <2>1. TailBase(N) = B[J]
      BY <1>11, <1>12, FitsTail
    <2> QED
      BY <1>11, <1>13, <2>1 DEF TailIndex, LastIndex
  <1>16. N \in ChainSet
    BY <1>12 DEF Fits
  <1>17. PICK limit \in Nat : limit = OffsetBy(B[i], trimPoint[i])
    <2>1. i \in Index /\ B[i] \in Nat /\ B[i] >= 1
      BY SegmentFacts
    <2>2. trimPoint[i] \in Nat
      BY <2>1, LogletFacts
    <2> QED
      BY <2>1, <2>2 DEF OffsetBy, OLDEST
  <1>18. ChainTrimmed(N, B)
    <2>1. ChainTrimmed(Chain, B)
      BY <1>1, <1>11 DEF TrimsFit, Chain
    <2>2. DOMAIN Chain \subseteq Nat /\ DOMAIN N \subseteq Nat
      BY <1>11, <1>16, ChainFields
    <2>3. CASE OLDEST \in DOMAIN Chain
      <3>1. PICK c \in DOMAIN N : c <= OLDEST \/ c <= point + 1
        BY <1>14, <2>3
      <3>2. c <= limit + 1
        BY <1>6, <1>7, <1>17, <2>2, <3>1 DEF OLDEST
      <3> QED
        BY <1>7, <1>17, <3>2 DEF ChainTrimmed
    <2>4. CASE OLDEST \notin DOMAIN Chain
      <3>1. PICK j \in 0 .. LastIndex, b \in DOMAIN Chain :
              trimPoint[j] # INVALID /\ b <= OffsetBy(B[j], trimPoint[j]) + 1
        BY <2>1, <2>4 DEF ChainTrimmed
      <3>2. PICK c \in DOMAIN N : c <= b \/ c <= point + 1
        BY <1>14
      <3>3. CASE c <= point + 1
        <4>1. c <= limit + 1
          BY <1>6, <1>7, <1>17, <2>2, <3>3
        <4> QED
          BY <1>7, <1>17, <4>1 DEF ChainTrimmed
      <3>4. CASE c <= b
        <4>1. PICK high \in Int : high = OffsetBy(B[j], trimPoint[j])
          <5>1. j \in Index /\ B[j] \in Nat
            BY SegmentFacts
          <5>2. trimPoint[j] \in Nat
            BY <5>1, LogletFacts
          <5> QED
            BY <5>1, <5>2, OffsetIs
        <4>2. c <= high + 1
          BY <2>2, <3>1, <3>4, <4>1
        <4> QED
          BY <3>1, <4>1, <4>2 DEF ChainTrimmed
      <3> QED
        BY <3>2, <3>3, <3>4
    <2> QED
      BY <2>3, <2>4
  <1>19. LogShape'
    <2>1. versions' \in Seq(ChainSet) /\ Latest' = Latest + 1 /\ Latest \in Nat /\ Latest >= 1
      BY <1>9, <1>16, AppendVersion
    <2>2. Latest' >= 1 /\ view' \in 1 .. Latest'
      BY <1>5, <2>1 DEF LogShape
    <2> QED
      BY <1>5, <2>1, <2>2 DEF LogShape
  <1>20. ReaderShape'
    BY <1>5, ReaderShapeStays DEF ReaderShape
  <1>21. StateKept
    BY <1>5 DEF StateKept
  <1>22. LogletsGrow
    <2>1. \A j \in Index : top[j] \in Nat /\ bound[j] \in Nat /\ trimPoint[j] \in Nat
      BY LogletFacts
    <2> QED
      BY <1>5, <2>1 DEF LogletsGrow
  <1>23. NewVersion(N, LastPos, B, B)
    <2>1. LastIndex \in LastIndex .. MaxIndex /\ \A j \in Index : j \notin LastIndex + 1 .. LastIndex
      BY <1>11
    <2>2. B \in [Points -> Lsn]
      BY <1>1 DEF VersionsFit
    <2> QED
      BY <1>5, <1>9, <1>10, <1>11, <1>12, <1>15, <1>18, <2>1, <2>2 DEF NewVersion
  <1> QED
    BY <1>5, <1>19, <1>20, <1>21, <1>22, <1>23, VersionStep

LEMMA ReaderSealsChainStep ==
    ASSUME LogShape, ReaderShape, NothingSkipped, NEW B, OneTimeline(B), ReaderSealsChain
    PROVE  LogShape' /\ ReaderShape' /\ NothingSkipped' /\ \E D \in [Points -> Lsn] : OneTimeline(D)'
  <1>1. /\ state = "SealingChain" /\ state' = "AwaitingOrSealChain" /\ view' = Len(versions')
        /\ UNCHANGED <<base, tail, sealed, top, trimPoint, known, knownSealed>>
        /\ UNCHANGED streamVars /\ UNCHANGED <<tailChanged, wakers>>
    BY DEF ReaderSealsChain, watchVars
  <1>2. StateKept
    BY <1>1 DEF StateKept
  <1>3. ReaderShape'
    <2>1. state' \in States
      BY <1>1 DEF States
    <2> QED
      BY <1>1, <2>1, ReaderShapeStays DEF ReaderShape
  <1>4. CASE LastIndex = substream.index /\ ~IsSealed(Chain)
    <2>1. /\ ReportSealed(LastIndex)
          /\ ChangeLogs([op |-> "seal", seg |-> LastIndex,
                         lsn |-> OffsetBy(base[LastIndex], top[LastIndex])])
      BY <1>4 DEF ReaderSealsChain, LastIndex
    <2>2. view' \in 1 .. Latest + 1
      <3>1. PICK N : versions' = Append(versions, N)
        BY <2>1 DEF ChangeLogs
      <3>2. Len(versions') = Latest + 1 /\ Latest \in Nat
        BY <3>1 DEF LogShape, Latest
      <3> QED
        BY <1>1, <3>2
    <2> QED
      BY <1>1, <1>2, <1>3, <1>4, <2>1, <2>2, SealAdds
  <1>5. CASE ~(LastIndex = substream.index /\ ~IsSealed(Chain))
    <2>1. versions' = versions /\ bound' = bound
      BY <1>5 DEF ReaderSealsChain, LastIndex
    <2>2. view' \in 1 .. Latest
      BY <1>1, <2>1 DEF LogShape, Latest
    <2>3. tailChanged' \in BOOLEAN /\ UNCHANGED <<logletVars, watchVars, streamVars>>
      BY <1>1, <2>1 DEF ReaderShape, logletVars, watchVars
    <2>4. B \in [Points -> Lsn]
      BY DEF OneTimeline, VersionsFit
    <2>5. LogShape' /\ ReaderShape' /\ NothingSkipped' /\ OneTimeline(B)'
      BY <1>1, <1>2, <2>1, <2>2, <2>3, QuietStep
    <2> QED
      BY <2>4, <2>5
  <1> QED
    BY <1>4, <1>5

-----------------------------------------------------------------------------
(* The steps of the reader *)

\* the reader leaves the log as it is
LEMMA LogStays ==
    ASSUME LogShape, NEW B, OneTimeline(B), UnchangedLog
    PROVE  /\ LogShape' /\ VersionsFit(B)' /\ TrimsFit(B)' /\ LogletsFit(B)' /\ EndsFit(B)'
           /\ LastIndex' = LastIndex /\ LastPos' = LastPos
           /\ UNCHANGED <<versions, view, base, tail, sealed, bound, top, trimPoint, known, knownSealed>>
  <1>1. UNCHANGED <<versions, view, base, tail, sealed, bound, top, trimPoint, known, knownSealed>>
    BY DEF UnchangedLog, chainVars, logletVars, watchVars
  <1>2. LastIndex' = LastIndex /\ LastPos' = LastPos /\ Latest' = Latest
    BY <1>1, SameLast
  <1>3. LogShape'
    BY <1>1, <1>2 DEF LogShape
  <1>4. VersionsFit(B) /\ TrimsFit(B) /\ LogletsFit(B) /\ EndsFit(B)
    BY DEF OneTimeline
  <1>5. VersionsFit(B)'
    BY <1>1, <1>4, SameVersions
  <1>6. TrimsFit(B)'
    BY <1>1, <1>2, <1>4 DEF TrimsFit, ChainTrimmed
  <1>7. LogletsFit(B)'
    BY <1>1, <1>2, <1>4 DEF LogletsFit, LogletFits
  <1>8. EndsFit(B)'
    BY <1>1, <1>2, <1>4 DEF EndsFit
  <1> QED
    BY <1>1, <1>2, <1>3, <1>5, <1>6, <1>7, <1>8

LEMMA DeliveredStays ==
    ASSUME LogShape, NEW B, OneTimeline(B), UnchangedLog, delivered' = delivered
    PROVE  DeliveredFit(B)'
  <1>1. LastIndex' = LastIndex /\ LastPos' = LastPos /\ top' = top
    BY LogStays
  <1>2. DeliveredFit(B)
    BY DEF OneTimeline
  <1> QED
    BY <1>1, <1>2 DEF DeliveredFit, RecordFits

\* the reader drops its substream, and the read pointer only passes what is trimmed
LEMMA FindStep ==
    ASSUME LogShape, ReaderShape, NothingSkipped, NEW B, OneTimeline(B), UnchangedLog,
           state' = "FindingLoglet", substream' = NoSubstream, delivered' = delivered,
           safeKnownTail' \in Nat, tailChanged' \in BOOLEAN, wakers' = wakers,
           readPointer' \in Lsn, NothingSkipped'
    PROVE  LogShape' /\ ReaderShape' /\ NothingSkipped' /\ OneTimeline(B)'
  <1>1. /\ LogShape' /\ VersionsFit(B)' /\ TrimsFit(B)' /\ LogletsFit(B)' /\ EndsFit(B)'
    BY LogStays
  <1>2. DeliveredFit(B)'
    BY DeliveredStays
  <1>3. ReaderFits(B)'
    BY DEF ReaderFits
  <1>4. ReaderShape'
    <2>1. NoSubstream \in Wrapper
      BY DEF NoSubstream, Wrapper, INVALID
    <2>2. state' \in States
      BY DEF States
    <2> QED
      BY <2>1, <2>2 DEF ReaderShape
  <1> QED
    BY <1>1, <1>2, <1>3, <1>4 DEF OneTimeline

LEMMA ViewFacts ==
    ASSUME LogShape, NEW B, OneTimeline(B)
    PROVE  /\ Fits(View, B, End(View)) /\ Rising(B, End(View)) /\ End(View) \in Nat
           /\ End(View) <= LastPos /\ View \in ChainSet /\ ChainTrimmed(View, B)
           /\ TailIndex(View) \in Nat /\ TailIndex(View) <= LastIndex
           /\ DOMAIN View \subseteq Lsn /\ DOMAIN View # {}
  <1>1. VersionsFit(B) /\ TrimsFit(B) /\ view \in 1 .. Latest
    BY DEF OneTimeline, LogShape
  <1>2. /\ Fits(View, B, End(View)) /\ Rising(B, End(View)) /\ End(View) \in Nat
        /\ End(View) <= LastPos /\ View \in ChainSet
        /\ TailIndex(View) \in Nat /\ TailIndex(View) <= LastIndex
    BY <1>1, VersionFacts DEF View
  <1>3. ChainTrimmed(View, B)
    BY <1>1 DEF TrimsFit, View
  <1>4. ASSUME NEW b \in DOMAIN View PROVE b \in Lsn
    <2>1. Pos(View[b]) \in 0 .. End(View) /\ B[Pos(View[b])] = b
      BY <1>2 DEF Fits
    <2>2. Pos(View[b]) \in Points
      BY <1>1, <1>2, <2>1, LastFacts, Numbers
    <2> QED
      BY <1>1, <2>1, <2>2, BasesAre
  <1>5. DOMAIN View # {}
    BY <1>2 DEF Fits
  <1> QED
    BY <1>2, <1>3, <1>4, <1>5

\* deliver_trim_gap passes only LSNs that are trimmed
LEMMA TrimGapStep ==
    ASSUME LogShape, ReaderShape, NothingSkipped, NEW B, OneTimeline(B), UnchangedLog,
           IsTrimmed, DeliverTrimGap
    PROVE  LogShape' /\ ReaderShape' /\ NothingSkipped' /\ OneTimeline(B)'
  <1>1. /\ readPointer' = Min(DOMAIN View) /\ delivered' = delivered /\ wakers' = wakers
        /\ state' = "FindingLoglet" /\ substream' = NoSubstream
        /\ safeKnownTail' \in Nat /\ tailChanged' \in BOOLEAN
    BY DEF DeliverTrimGap, Leave, Continue, INVALID
  <1>2. View \in ChainSet /\ ChainTrimmed(View, B) /\ DOMAIN View \subseteq Lsn /\ DOMAIN View # {}
    BY ViewFacts
  <1>3. DOMAIN View \subseteq Nat
    BY <1>2, ChainFields
  <1>4. PICK first \in DOMAIN View : first = Min(DOMAIN View) /\ \A b \in DOMAIN View : first <= b
    BY <1>2, <1>3, MinIs
  <1>5. readPointer' = first /\ first \in Lsn /\ first \in Nat
    BY <1>1, <1>2, <1>3, <1>4
  <1>6. readPointer \in Nat /\ readPointer >= 1
    BY Numbers DEF ReaderShape
  <1>7. \A b \in DOMAIN View : readPointer < b
    BY <1>2, <1>6, SegmentForIs DEF IsTrimmed
  <1>8. OLDEST \notin DOMAIN View
    BY <1>6, <1>7, Numbers
  <1>9. PICK i \in 0 .. LastIndex, c \in DOMAIN View :
          trimPoint[i] # INVALID /\ c <= OffsetBy(B[i], trimPoint[i]) + 1
    BY <1>2, <1>8 DEF ChainTrimmed
  <1>10. i \in Index /\ base[i] = B[i] /\ B[i] \in Nat
    BY SegmentFacts
  <1>11. PICK limit \in Int : limit = OffsetBy(base[i], trimPoint[i])
    <2>1. trimPoint[i] \in Nat
      BY <1>10, LogletFacts
    <2> QED
      BY <1>10, <2>1, OffsetIs
  <1>12. c <= limit + 1 /\ c \in Nat /\ first <= c
    BY <1>3, <1>4, <1>9, <1>10, <1>11
  <1>13. UNCHANGED <<base, trimPoint>>
    BY LogStays
  <1>14. NothingSkipped'
    <2>1. ASSUME NEW lsn \in OLDEST .. first - 1 PROVE lsn <= limit
      BY <1>5, <1>12, Numbers
    <2> QED
      BY <1>5, <1>9, <1>10, <1>11, <1>13, <2>1 DEF NothingSkipped
  <1> QED
    BY <1>1, <1>5, <1>14, FindStep

\* the substream that is made for the segment of the read pointer
LEMMA SubstreamMade ==
    ASSUME LogShape, ReaderShape, NEW B, OneTimeline(B), ~IsTrimmed,
           NEW x, x = Substream(SegmentFor(View, readPointer))
    PROVE  x \in Wrapper /\ SubstreamFits(x, B)
  <1>1. PICK chain \in ChainSet, K \in Nat : chain = View /\ K = End(View)
    BY ViewFacts
  <1>2. /\ Fits(chain, B, K) /\ Rising(B, K) /\ K <= LastPos /\ chain \in ChainSet
        /\ TailIndex(chain) \in Nat /\ TailIndex(chain) <= LastIndex
    BY <1>1, ViewFacts
  <1>3. PICK lsn \in Nat : lsn = readPointer
    BY Numbers DEF ReaderShape
  <1>4. PICK b : b = SegmentFor(chain, lsn)
    OBVIOUS
  <1>5. b # INVALID
    BY <1>1, <1>3, <1>4 DEF IsTrimmed
  <1>6. b \in DOMAIN chain /\ Pos(chain[b]) \in 0 .. K /\ B[Pos(chain[b])] = b /\ b <= lsn
    BY <1>2, <1>4, <1>5, SegmentOf
  <1>7. PICK i \in Nat, p \in Nat : i = chain[b].index /\ p = Pos(chain[b])
    BY <1>2, <1>6, ChainFields
  <1>8. x = [base |-> b, index |-> i, marker |-> chain[b].marker, end |-> TailLsn(chain, b)]
    BY <1>1, <1>3, <1>4, <1>7 DEF Substream
  <1>9. i \in 0 .. LastIndex /\ i \in Index
    <2>1. i <= TailIndex(chain)
      BY <1>2, <1>6, <1>7, StretchFields
    <2> QED
      BY <1>2, <1>7, <2>1, LastFacts, Numbers DEF OneTimeline
  <1>10. b \in Nat /\ chain[b].marker \in BOOLEAN /\ (chain[b].marker => p = i + 1)
         /\ (~chain[b].marker => p = i)
    BY <1>2, <1>6, <1>7, ChainFields
  <1>11. /\ p = K => TailLsn(chain, b) = INVALID
         /\ p # K => TailLsn(chain, b) = B[p + 1] /\ B[p + 1] \in DOMAIN chain /\ ~chain[b].marker
    BY <1>2, <1>6, <1>7, TailLsnIs
  <1>12. TailLsn(chain, b) \in Nat
    <2>1. CASE p = K
      BY <1>11, <2>1 DEF INVALID
    <2>2. CASE p # K
      BY <1>2, <1>11, <2>2, ChainFields
    <2> QED
      BY <2>1, <2>2
  <1>13. x \in Wrapper
    BY <1>8, <1>9, <1>10, <1>12 DEF Wrapper
  <1>14. Pos(x) = p
    BY <1>8, <1>10, <1>13, WrapperFields
  <1>15. x.index \in 0 .. LastIndex /\ x.base = B[p] /\ x.base <= readPointer
    BY <1>3, <1>6, <1>7, <1>8, <1>9
  <1>16. p <= LastPos
    <2>1. LastPos \in Nat
      BY LastFacts DEF OneTimeline
    <2> QED
      BY <1>2, <1>6, <1>7, <2>1
  <1>17. ASSUME x.end # INVALID PROVE ~x.marker /\ x.index < LastPos /\ x.end = B[x.index + 1]
    <2>1. LastPos \in Nat
      BY LastFacts DEF OneTimeline
    <2>2. p # K
      BY <1>8, <1>11, <1>17
    <2>3. p < K /\ p = i /\ p < LastPos
      BY <1>2, <1>6, <1>7, <1>10, <1>11, <2>1, <2>2
    <2> QED
      BY <1>8, <1>11, <2>2, <2>3
  <1> QED
    BY <1>13, <1>14, <1>15, <1>16, <1>17 DEF SubstreamFits

\* the reader goes on with a substream
LEMMA ReaderStep ==
    ASSUME LogShape, ReaderShape, NothingSkipped, NEW B, OneTimeline(B), UnchangedLog,
           state' \in States \ {"FindingLoglet"}, readPointer' = readPointer, delivered' = delivered,
           NEW x \in Wrapper, substream' = x, SubstreamFits(x, B),
           NEW safe \in Nat, safeKnownTail' = safe, state' = "Reading" => SafeTailFits(x, safe),
           tailChanged' \in BOOLEAN,
           wakers' = wakers
    PROVE  LogShape' /\ ReaderShape' /\ NothingSkipped' /\ OneTimeline(B)'
  <1>1. /\ LogShape' /\ VersionsFit(B)' /\ TrimsFit(B)' /\ LogletsFit(B)' /\ EndsFit(B)'
        /\ LastIndex' = LastIndex /\ LastPos' = LastPos /\ UNCHANGED <<top, bound, base, trimPoint>>
    BY LogStays
  <1>2. DeliveredFit(B)'
    BY DeliveredStays
  <1>3. ReaderShape'
    BY DEF ReaderShape
  <1>4. SubstreamFits(x, B)'
    BY <1>1 DEF SubstreamFits
  <1>5. state' = "Reading" => SafeTailFits(x, safe)'
    BY <1>1 DEF SafeTailFits
  <1>6. ReaderFits(B)'
    BY <1>4, <1>5 DEF ReaderFits, SubstreamFits, SafeTailFits
  <1>7. NothingSkipped'
    BY <1>1 DEF NothingSkipped
  <1> QED
    BY <1>1, <1>2, <1>3, <1>6, <1>7 DEF OneTimeline

LEMMA FindLogletStep ==
    ASSUME LogShape, ReaderShape, NothingSkipped, NEW B, OneTimeline(B), FindLoglet
    PROVE  LogShape' /\ ReaderShape' /\ NothingSkipped' /\ OneTimeline(B)'
  <1>1. UnchangedLog
    BY DEF FindLoglet, Round
  <1>2. CASE IsTrimmed
    BY <1>1, <1>2, TrimGapStep DEF FindLoglet
  <1>3. CASE ~IsTrimmed
    <2>1. PICK x : x = Substream(SegmentFor(View, readPointer))
      OBVIOUS
    <2>2. x \in Wrapper /\ SubstreamFits(x, B)
      BY <1>3, <2>1, SubstreamMade
    <2>3. /\ substream' = x /\ state' = "CreatingSubstream" /\ wakers' = wakers
          /\ UNCHANGED <<readPointer, safeKnownTail, tailChanged, delivered>>
      BY <1>3, <2>1 DEF FindLoglet, Continue
    <2>4. PICK safe \in Nat : safeKnownTail' = safe
      BY <2>3 DEF ReaderShape
    <2>5. state' \in States \ {"FindingLoglet"} /\ state' # "Reading" /\ tailChanged' \in BOOLEAN
      BY <2>3 DEF States, ReaderShape
    <2> QED
      BY <1>1, <2>2, <2>3, <2>4, <2>5, ReaderStep
  <1> QED
    BY <1>2, <1>3

\* the substream of a reader that has one
LEMMA HasSubstream ==
    ASSUME ReaderShape, NEW B, OneTimeline(B), state # "FindingLoglet"
    PROVE  \E x \in Wrapper, safe \in Nat :
             /\ x = substream /\ safe = safeKnownTail /\ SubstreamFits(x, B)
             /\ state = "Reading" => SafeTailFits(x, safe)
  <1>1. PICK x \in Wrapper : x = substream
    BY SubstreamIs
  <1>2. PICK safe \in Nat : safe = safeKnownTail
    BY DEF ReaderShape
  <1> QED
    BY <1>1, <1>2 DEF OneTimeline, ReaderFits

LEMMA CreateSubstreamStep ==
    ASSUME LogShape, ReaderShape, NothingSkipped, NEW B, OneTimeline(B), CreateSubstream
    PROVE  LogShape' /\ ReaderShape' /\ NothingSkipped' /\ OneTimeline(B)'
  <1>1. /\ UnchangedLog /\ state = "CreatingSubstream" /\ state' = "Reading" /\ wakers' = wakers
        /\ safeKnownTail' = substream.end /\ tailChanged' \in BOOLEAN
        /\ UNCHANGED <<readPointer, substream, delivered>>
    BY DEF CreateSubstream, Round, Continue
  <1>2. PICK x \in Wrapper : x = substream /\ SubstreamFits(x, B)
    BY <1>1, HasSubstream
  <1>3. PICK safe \in Nat : safe = x.end
    BY WrapperFields
  <1>4. SafeTailFits(x, safe)
    <2> SUFFICES ASSUME x.end = INVALID, ~x.marker
                 PROVE  safe <= OffsetBy(x.base, top[x.index]) /\ safe <= OffsetBy(x.base, bound[x.index])
      BY DEF SafeTailFits
    <2>1. safe = 0 /\ x.base \in Nat
      BY <1>3, WrapperFields, Numbers
    <2>2. PICK b \in Nat, i \in Index : b = x.base /\ i = x.index
      BY <1>2, <2>1, LastFacts, Numbers DEF SubstreamFits, OneTimeline
    <2>3. top[i] \in Nat /\ top[i] >= 1 /\ bound[i] \in Nat /\ bound[i] >= 1
      BY LogletFacts
    <2>4. 0 <= OffsetBy(b, top[i]) /\ 0 <= OffsetBy(b, bound[i])
      BY <2>3 DEF OffsetBy, OLDEST
    <2> QED
      BY <2>1, <2>2, <2>4
  <1>5. state' \in States \ {"FindingLoglet"}
    BY <1>1 DEF States
  <1>6. substream' = x /\ safeKnownTail' = safe
    BY <1>1, <1>2, <1>3
  <1> QED
    BY <1>1, <1>2, <1>4, <1>5, <1>6, ReaderStep

LEMMA SwitchLogletStep ==
    ASSUME LogShape, ReaderShape, NothingSkipped, NEW B, OneTimeline(B), UnchangedLog,
           Leave("FindingLoglet"), substream' = NoSubstream, UNCHANGED <<readPointer, delivered>>
    PROVE  LogShape' /\ ReaderShape' /\ NothingSkipped' /\ OneTimeline(B)'
  <1>1. /\ state' = "FindingLoglet" /\ wakers' = wakers
        /\ safeKnownTail' \in Nat /\ tailChanged' \in BOOLEAN
    BY DEF Leave, Continue, INVALID
  <1>2. UNCHANGED <<base, trimPoint>>
    BY LogStays
  <1>3. NothingSkipped' /\ readPointer' \in Lsn
    BY <1>2 DEF NothingSkipped, ReaderShape
  <1> QED
    BY <1>1, <1>3, FindStep

\* the reader waits for the chain
LEMMA LeaveStep ==
    ASSUME LogShape, ReaderShape, NothingSkipped, NEW B, OneTimeline(B), UnchangedLog,
           state = "Reading", NEW s \in {"AwaitingReconfiguration", "AwaitingOrSealChain"}, Leave(s),
           UNCHANGED <<readPointer, substream, delivered>>
    PROVE  LogShape' /\ ReaderShape' /\ NothingSkipped' /\ OneTimeline(B)'
  <1>1. PICK x \in Wrapper : x = substream /\ SubstreamFits(x, B)
    BY HasSubstream
  <1>2. PICK safe \in Nat : safeKnownTail' = safe
    BY DEF Leave, INVALID
  <1>3. /\ state' \in States \ {"FindingLoglet"} /\ state' # "Reading" /\ tailChanged' \in BOOLEAN
        /\ wakers' = wakers /\ substream' = x
    BY <1>1 DEF Leave, Continue, States
  <1> QED
    BY <1>1, <1>2, <1>3, ReaderStep

\* a record is handed out, or a gap of the loglet is passed
LEMMA PollStep ==
    ASSUME LogShape, ReaderShape, NothingSkipped, NEW B, OneTimeline(B), UnchangedLog,
           state = "Reading", UNCHANGED <<state, substream>>, PollSubstream,
           NEW x \in Wrapper, x = substream, SubstreamFits(x, B),
           NEW safe \in Nat, safeKnownTail' = safe, SafeTailFits(x, safe), tailChanged' \in BOOLEAN,
           HasEntry /\ OpenTailsBounded /\ x.index < LastPos => readPointer < B[x.index + 1]
    PROVE  LogShape' /\ ReaderShape' /\ NothingSkipped' /\ OneTimeline(B)'
  <1>1. /\ LogShape' /\ VersionsFit(B)' /\ TrimsFit(B)' /\ LogletsFit(B)' /\ EndsFit(B)'
        /\ LastIndex' = LastIndex /\ LastPos' = LastPos /\ UNCHANGED <<top, bound, base, trimPoint>>
    BY LogStays
  <1>2. VersionsFit(B) /\ LogletsFit(B) /\ DeliveredFit(B)
    BY DEF OneTimeline
  <1>3. PICK r \in Nat : r = readPointer /\ r >= 1 /\ r \in Lsn
    BY Numbers DEF ReaderShape
  <1>4. PICK i \in Index, b \in Nat : i = x.index /\ b = x.base
    BY WrapperFields, LastFacts, <1>2, Numbers DEF SubstreamFits
  <1>5. i \in 0 .. LastIndex /\ b <= r /\ i \in Nat /\ i <= LastIndex
    BY <1>2, <1>3, <1>4, LastFacts DEF SubstreamFits
  <1>6. ~x.marker => b = B[i] /\ base[i] = b
    <2>1. ~x.marker => Pos(x) = i
      BY <1>4, WrapperFields
    <2>2. base[i] = B[i]
      BY <1>5, SegmentFacts
    <2> QED
      BY <1>4, <2>1, <2>2 DEF SubstreamFits
  <1>7. /\ top[i] \in Nat /\ top[i] <= MaxLsn /\ known[i] \in Nat /\ trimPoint[i] \in Nat
        /\ MaxLsn \in Nat /\ known[i] <= top[i] /\ trimPoint[i] < top[i]
    BY <1>2, LogletFacts, Numbers DEF LogletsFit, LogletFits
  <1>8. OffsetBy(B[i], top[i]) <= MaxLsn
    BY <1>5, SegmentFacts
  <1>9. wakers' \subseteq {"tail", "metadata", "substream", "timeout"}
    BY DEF PollSubstream, Continue, Park, ReaderShape
  <1>10. ASSUME readPointer' \in Lsn, r <= readPointer'
         PROVE  ReaderFits(B)'
    <2>1. b <= readPointer'
      BY <1>3, <1>5, <1>10, Numbers
    <2>2. SubstreamFits(x, B)'
      BY <1>1, <1>4, <2>1 DEF SubstreamFits
    <2>3. SafeTailFits(x, safe)'
      BY <1>1 DEF SafeTailFits
    <2>4. substream' = x /\ state' # "FindingLoglet"
      OBVIOUS
    <2> QED
      BY <2>2, <2>3, <2>4 DEF ReaderFits, SubstreamFits, SafeTailFits
  <1>11. ASSUME readPointer' \in Lsn, delivered' \subseteq [lsn : Lsn, index : Index]
         PROVE  ReaderShape'
    BY <1>9, <1>11 DEF ReaderShape
  <1>12. CASE ~HasEntry
    <2>1. UNCHANGED <<readPointer, delivered>>
      BY <1>12 DEF PollSubstream
    <2>2. ReaderShape' /\ ReaderFits(B)'
      BY <1>3, <1>10, <1>11, <2>1 DEF ReaderShape
    <2>3. DeliveredFit(B)'
      BY <2>1, DeliveredStays
    <2>4. NothingSkipped'
      BY <1>1, <2>1 DEF NothingSkipped
    <2> QED
      BY <1>1, <2>2, <2>3, <2>4 DEF OneTimeline
  <1>13. ASSUME HasEntry
         PROVE  ~x.marker /\ r < OffsetBy(b, known[i]) /\ b = B[i] /\ base[i] = b
    <2>1. ~x.marker /\ IntoOffset(r, b) < known[i]
      BY <1>3, <1>4, <1>13 DEF HasEntry
    <2>2. r < OffsetBy(b, known[i])
      BY <1>7, <2>1 DEF IntoOffset, OffsetBy, OLDEST
    <2> QED
      BY <1>6, <2>1, <2>2
  <1>14. CASE HasEntry /\ DeliverRecord
    <2>1. PICK d : d = [lsn |-> r, index |-> i]
      OBVIOUS
    <2>2. delivered' = delivered \cup {d} /\ readPointer' = r + 1
      BY <1>3, <1>4, <1>14, <2>1 DEF DeliverRecord
    <2>3. d.lsn = r /\ d.index = i /\ d \in [lsn : Lsn, index : Index]
      BY <1>3, <2>1
    <2>4. r < OffsetBy(b, known[i]) /\ b = B[i]
      BY <1>13, <1>14
    <2>5. r < OffsetBy(B[i], top[i]) /\ B[i] <= r
      BY <1>5, <1>7, <2>4 DEF OffsetBy, OLDEST
    <2>6. readPointer' \in Lsn /\ r <= readPointer'
      <3>1. OffsetBy(B[i], top[i]) \in Int
        BY <1>7, <2>4, OffsetIs
      <3> QED
        BY <1>3, <1>7, <1>8, <2>2, <2>5, <3>1, Numbers
    <2>7. ReaderShape' /\ ReaderFits(B)'
      BY <1>10, <1>11, <2>2, <2>3, <2>6 DEF ReaderShape
    <2>8. DeliveredFit(B)'
      <3>1. OpenTailsBounded /\ i < LastPos => r < B[i + 1]
        BY <1>3, <1>4, <1>14
      <3>2. RecordFits(d, B)
        BY <1>5, <2>3, <2>5, <3>1 DEF RecordFits
      <3>3. \A e \in delivered' : RecordFits(e, B)
        BY <1>2, <2>2, <3>2 DEF DeliveredFit
      <3> QED
        BY <1>1, <3>3 DEF DeliveredFit, RecordFits
    <2>9. NothingSkipped'
      <3>1. ASSUME NEW lsn \in OLDEST .. r
            PROVE  \/ \E j \in Index : trimPoint[j] # INVALID /\ lsn <= OffsetBy(base[j], trimPoint[j])
                   \/ \E e \in delivered' : e.lsn = lsn
        <4>1. CASE lsn = r
          BY <2>2, <2>3, <4>1
        <4>2. CASE lsn # r
          <5>1. lsn \in OLDEST .. readPointer - 1
            BY <1>3, <4>2, Numbers
          <5> QED
            BY <2>2, <5>1 DEF NothingSkipped
        <4> QED
          BY <4>1, <4>2
      <3>2. readPointer' - 1 = r
        BY <1>3, <2>2
      <3> QED
        BY <1>1, <3>1, <3>2 DEF NothingSkipped
    <2> QED
      BY <1>1, <2>7, <2>8, <2>9 DEF OneTimeline
  <1>15. CASE HasEntry /\ DeliverLogletGap
    <2>1. PICK point \in Nat : point = trimPoint[i]
      BY <1>7
    <2>2. /\ IntoOffset(r, b) <= point /\ readPointer' = OffsetBy(b, point) + 1
          /\ delivered' = delivered
      BY <1>3, <1>4, <1>15, <2>1 DEF DeliverLogletGap
    <2>3. b = B[i] /\ base[i] = b
      BY <1>13, <1>15
    <2>4. point < top[i]
      BY <1>7, <2>1
    <2>5. point # INVALID /\ r <= readPointer' /\ readPointer' <= MaxLsn /\ readPointer' \in Nat
          /\ readPointer' - 1 = OffsetBy(b, point)
      BY <1>3, <1>5, <1>7, <1>8, <2>2, <2>3, <2>4 DEF IntoOffset, OffsetBy, OLDEST, INVALID
    <2>6. readPointer' \in Lsn
      BY <1>3, <2>5, Numbers
    <2>7. ReaderShape' /\ ReaderFits(B)'
      BY <1>10, <1>11, <2>2, <2>5, <2>6 DEF ReaderShape
    <2>8. DeliveredFit(B)'
      BY <2>2, DeliveredStays
    <2>9. NothingSkipped'
      <3>1. \A lsn \in OLDEST .. readPointer' - 1 : lsn <= OffsetBy(b, point)
        <4>1. PICK p \in Nat : p = readPointer'
          BY <2>5
        <4>2. PICK q \in Int : q = p - 1
          OBVIOUS
        <4>3. \A lsn \in 1 .. q : lsn <= q
          OBVIOUS
        <4>4. readPointer' - 1 = q /\ q = OffsetBy(b, point)
          BY <2>5, <4>1, <4>2
        <4> QED
          BY <4>3, <4>4, Numbers
      <3>2. trimPoint'[i] # INVALID /\ OffsetBy(base'[i], trimPoint'[i]) = OffsetBy(b, point)
        BY <1>1, <2>1, <2>3, <2>5
      <3> QED
        BY <3>1, <3>2 DEF NothingSkipped
    <2> QED
      BY <1>1, <2>7, <2>8, <2>9 DEF OneTimeline
  <1> QED
    BY <1>12, <1>14, <1>15 DEF PollSubstream

\* the next entry is below the tail that the reader takes for safe
LEMMA ReadSubstreamStep ==
    ASSUME LogShape, ReaderShape, NothingSkipped, NEW B, OneTimeline(B), ReadSubstream
    PROVE  LogShape' /\ ReaderShape' /\ NothingSkipped' /\ OneTimeline(B)'
  <1>1. /\ UnchangedLog /\ state = "Reading" /\ UNCHANGED <<state, substream, safeKnownTail, tailChanged>>
        /\ PollSubstream /\ ~PastEnd /\ ~AtSafeTail
    BY DEF ReadSubstream, Round
  <1>2. PICK x \in Wrapper, safe \in Nat :
          x = substream /\ safe = safeKnownTail /\ SubstreamFits(x, B) /\ SafeTailFits(x, safe)
    BY <1>1, HasSubstream
  <1>3. PICK r \in Nat : r = readPointer
    BY Numbers DEF ReaderShape
  <1>4. ASSUME HasEntry, OpenTailsBounded, x.index < LastPos PROVE r < B[x.index + 1]
    <2>1. ~x.marker
      BY <1>2, <1>4 DEF HasEntry
    <2>2. CASE x.end # INVALID
      <3>1. x.end = B[x.index + 1] /\ ~(r >= x.end) /\ x.end \in Nat
        BY <1>1, <1>2, <1>3, <2>2, WrapperFields DEF SubstreamFits, PastEnd
      <3> QED
        BY <3>1
    <2>3. CASE x.end = INVALID
      <3>1. VersionsFit(B) /\ EndsFit(B)
        BY DEF OneTimeline
      <3>2. PICK i \in Index, b \in Nat : i = x.index /\ b = x.base
        BY <1>2, <3>1, WrapperFields, LastFacts, Numbers DEF SubstreamFits
      <3>3. b = B[i] /\ i \in 0 .. LastPos - 1 /\ i \in Nat
        <4>1. Pos(x) = i
          BY <2>1, <3>2, WrapperFields
        <4>2. LastPos \in Nat /\ i \in Nat /\ i < LastPos
          BY <1>4, <3>1, <3>2, LastFacts, Numbers
        <4> QED
          BY <1>2, <3>2, <4>1, <4>2 DEF SubstreamFits
      <3>4. safe <= OffsetBy(b, bound[i]) /\ OffsetBy(B[i], bound[i]) <= B[i + 1]
        BY <1>2, <1>4, <2>1, <2>3, <3>1, <3>2, <3>3 DEF SafeTailFits, EndsFit
      <3>5. ~(r >= safe)
        BY <1>1, <1>2, <1>3, <2>3 DEF AtSafeTail
      <3>6. B[i + 1] \in Nat /\ bound[i] \in Nat
        BY <3>1, LogletFacts, BasesAre
      <3>7. OffsetBy(b, bound[i]) \in Int
        BY <3>6, OffsetIs
      <3>8. r < B[i + 1]
        BY <3>3, <3>4, <3>5, <3>6, <3>7
      <3> QED
        BY <3>2, <3>8
    <2> QED
      BY <2>2, <2>3
  <1>5. safeKnownTail' = safe /\ tailChanged' \in BOOLEAN
    BY <1>1, <1>2 DEF ReaderShape
  <1> QED
    BY <1>1, <1>2, <1>3, <1>4, <1>5, PollStep

\* the open tail that the node knows of is below the end that the segment will have
LEMMA TailOpenStep ==
    ASSUME LogShape, ReaderShape, NothingSkipped, NEW B, OneTimeline(B), TailOpen
    PROVE  LogShape' /\ ReaderShape' /\ NothingSkipped' /\ OneTimeline(B)'
  <1>1. /\ UnchangedLog /\ state = "Reading" /\ UNCHANGED <<state, substream>>
        /\ PollSubstream /\ tailChanged' = FALSE /\ AtSafeTail
        /\ substream.marker \/ ~knownSealed[substream.index]
        /\ safeKnownTail' = IF substream.marker THEN substream.base
                            ELSE OffsetBy(substream.base, known[substream.index])
    BY DEF TailOpen, WatchesTail, Round
  <1>2. PICK x \in Wrapper : x = substream /\ SubstreamFits(x, B)
    BY <1>1, HasSubstream
  <1>3. PICK r \in Nat : r = readPointer
    BY Numbers DEF ReaderShape
  <1>4. VersionsFit(B) /\ EndsFit(B) /\ LogletsFit(B)
    BY DEF OneTimeline
  <1>5. PICK i \in Index, b \in Nat : i = x.index /\ b = x.base
    BY <1>2, <1>4, WrapperFields, LastFacts, Numbers DEF SubstreamFits
  <1>6. LogletFits(i, B)
    BY <1>4 DEF LogletsFit
  <1>7. /\ known[i] \in Nat /\ known[i] >= 1 /\ top[i] \in Nat /\ bound[i] \in Nat
        /\ known[i] <= top[i]
        /\ OpenTailsBounded /\ ~x.marker => known[i] <= bound[i]
    BY <1>1, <1>2, <1>5, <1>6, LogletFacts DEF LogletFits
  <1>8. PICK safe \in Nat : safe = safeKnownTail' /\ (~x.marker => safe = OffsetBy(b, known[i]))
    <2>1. x.marker \in BOOLEAN
      BY WrapperFields
    <2>2. OffsetBy(b, known[i]) \in Nat
      BY <1>7 DEF OffsetBy, OLDEST
    <2>3. safeKnownTail' = IF x.marker THEN b ELSE OffsetBy(b, known[i])
      BY <1>1, <1>2, <1>5
    <2> QED
      BY <2>1, <2>2, <2>3
  <1>9. SafeTailFits(x, safe)
    <2> SUFFICES ASSUME x.end = INVALID, ~x.marker
                 PROVE  /\ safe <= OffsetBy(b, top[i])
                        /\ OpenTailsBounded => safe <= OffsetBy(b, bound[i])
      BY <1>5 DEF SafeTailFits
    <2>1. safe = OffsetBy(b, known[i])
      BY <1>8
    <2> QED
      BY <1>7, <2>1 DEF OffsetBy, OLDEST
  <1>10. ASSUME HasEntry, OpenTailsBounded, x.index < LastPos PROVE r < B[x.index + 1]
    <2>1. ~x.marker /\ IntoOffset(r, b) < known[i]
      BY <1>2, <1>3, <1>5, <1>10 DEF HasEntry
    <2>2. b = B[i] /\ i \in 0 .. LastPos - 1 /\ i \in Nat
      <3>1. Pos(x) = i
        BY <1>5, <2>1, WrapperFields
      <3>2. LastPos \in Nat /\ i \in Nat /\ i < LastPos
        BY <1>4, <1>5, <1>10, LastFacts, Numbers
      <3> QED
        BY <1>2, <1>5, <3>1, <3>2 DEF SubstreamFits
    <2>3. OffsetBy(B[i], bound[i]) <= B[i + 1] /\ known[i] <= bound[i]
      BY <1>4, <1>7, <1>10, <2>1, <2>2 DEF EndsFit
    <2>4. B[i + 1] \in Nat
      BY <1>4, BasesAre
    <2>5. r < B[i + 1]
      <3>1. OffsetBy(b, bound[i]) <= B[i + 1]
        BY <2>2, <2>3
      <3> QED
        BY <1>7, <2>1, <2>3, <2>4, <3>1 DEF IntoOffset, OffsetBy, OLDEST
    <2> QED
      BY <1>5, <2>5
  <1>11. safeKnownTail' = safe /\ tailChanged' \in BOOLEAN
    BY <1>1, <1>8
  <1> QED
    BY <1>1, <1>2, <1>3, <1>9, <1>10, <1>11, PollStep

\* check_chain: the segment of the read pointer is still the one of the substream, and has an end now
LEMMA CheckChainStep ==
    ASSUME LogShape, ReaderShape, NothingSkipped, NEW B, OneTimeline(B),
           NEW s \in {"AwaitingReconfiguration", "AwaitingOrSealChain"}, CheckChain(s)
    PROVE  LogShape' /\ ReaderShape' /\ NothingSkipped' /\ OneTimeline(B)'
  <1>1. UnchangedLog /\ state = s /\ state # "FindingLoglet"
    BY DEF CheckChain, Round
  <1>2. CASE IsTrimmed /\ DeliverTrimGap
    BY <1>1, <1>2, TrimGapStep
  <1>3. CASE /\ IsNewSegment
             /\ Leave("FindingLoglet") /\ substream' = NoSubstream
             /\ UNCHANGED <<readPointer, delivered>>
    BY <1>1, <1>3, SwitchLogletStep
  <1>4. CASE /\ IsTailLsnSet
             /\ substream' = [substream EXCEPT !.end = SegmentEnd]
             /\ safeKnownTail' = SegmentEnd
             /\ state' = "Reading" /\ Continue
             /\ UNCHANGED <<readPointer, tailChanged, delivered>>
    <2>1. PICK x \in Wrapper : x = substream /\ SubstreamFits(x, B)
      BY <1>1, HasSubstream
    <2>2. PICK y : y = Substream(SegmentFor(View, readPointer))
      OBVIOUS
    <2>3. y \in Wrapper /\ SubstreamFits(y, B)
      BY <1>4, <2>2, SubstreamMade DEF IsTailLsnSet
    <2>4. /\ y.index = Segment.index /\ y.marker = Segment.marker /\ y.end = SegmentEnd
          /\ y.base = SegmentFor(View, readPointer)
      BY <2>2 DEF Substream, Segment, SegmentEnd
    <2>5. Segment = [index |-> x.index, marker |-> x.marker] /\ SegmentEnd # INVALID
      BY <1>4, <2>1 DEF IsTailLsnSet, IsNewSegment
    <2>6. y.index = x.index /\ y.marker = x.marker
      BY <2>4, <2>5
    <2>7. PICK end \in Nat : end = SegmentEnd
      BY <2>3, <2>4, WrapperFields
    <2>8. PICK z : z = [x EXCEPT !.end = end]
      OBVIOUS
    <2>9. z \in Wrapper /\ z.base = x.base /\ z.index = x.index /\ z.marker = x.marker /\ z.end = end
      BY <2>7, <2>8 DEF Wrapper
    <2>10. Pos(z) = Pos(x)
      BY <2>9 DEF Pos
    <2>11. ~x.marker /\ x.index < LastPos /\ end = B[x.index + 1]
      BY <2>3, <2>4, <2>5, <2>6, <2>7 DEF SubstreamFits
    <2>12. SubstreamFits(z, B)
      BY <2>1, <2>9, <2>10, <2>11 DEF SubstreamFits
    <2>13. SafeTailFits(z, end)
      BY <2>5, <2>7, <2>9 DEF SafeTailFits
    <2>14. /\ substream' = z /\ safeKnownTail' = end /\ state' \in States \ {"FindingLoglet"}
           /\ wakers' = wakers /\ tailChanged' \in BOOLEAN /\ readPointer' = readPointer
           /\ delivered' = delivered
      BY <1>4, <2>1, <2>7, <2>8 DEF Continue, States, ReaderShape
    <2> QED
      BY <1>1, <2>9, <2>12, <2>13, <2>14, ReaderStep
  <1> QED
    BY <1>2, <1>3, <1>4 DEF CheckChain

\* the steps in which the reader only waits or wakes
LEMMA WaitStep ==
    ASSUME LogShape, ReaderShape, NothingSkipped, NEW B, OneTimeline(B), UnchangedLog,
           UNCHANGED <<streamVars, tailChanged>>, StateKept,
           wakers' \in {wakers, {}} \/ wakers' \subseteq {"tail", "metadata", "substream", "timeout"}
    PROVE  LogShape' /\ ReaderShape' /\ NothingSkipped' /\ OneTimeline(B)'
  <1>1. versions' = versions /\ view' = view /\ UNCHANGED <<logletVars, watchVars, streamVars>>
    BY DEF UnchangedLog, chainVars
  <1>2. view' \in 1 .. Latest /\ tailChanged' \in BOOLEAN
    BY <1>1 DEF LogShape, ReaderShape
  <1> QED
    BY <1>1, <1>2, QuietStep

-----------------------------------------------------------------------------
(* The theorems *)

LEMMA InitHolds == Init => ReadInv
  <1> SUFFICES ASSUME Init PROVE ReadInv
    OBVIOUS
  <1> USE DEF Init
  <1>1. PICK first : first = [b \in {OLDEST} |-> Loglet(0)]
    OBVIOUS
  <1>2. versions = <<first>> /\ Latest = 1 /\ Chain = first
    BY <1>1 DEF Latest, Chain
  <1>3. DOMAIN first = {1} /\ first[1] = Loglet(0) /\ Loglet(0) \in Segments
        /\ Pos(Loglet(0)) = 0 /\ ~Loglet(0).marker /\ Loglet(0).index = 0
    BY <1>1, Numbers DEF Loglet, Segments, Pos
  <1>4. first \in ChainSet
    <2>1. first \in [{1} -> Segments] /\ {1} \in SUBSET (Nat \ {0})
      BY <1>1, <1>3, Numbers
    <2> QED
      BY <2>1 DEF ChainSet
  <1>5. PICK B : B = [k \in Points |-> OLDEST]
    OBVIOUS
  <1>6. B \in [Points -> Lsn] /\ B[0] = 1 /\ 0 \in Points /\ \A k \in Points : B[k] = 1
    BY <1>5, Numbers
  <1>7. Rising(B, 0)
    <2>1. \A k \in 0 .. 0 : k = 0
      OBVIOUS
    <2> QED
      BY <1>6, <2>1 DEF Rising
  <1>8. Fits(first, B, 0)
    <2>1. \A k \in 0 .. 0 : k = 0
      OBVIOUS
    <2>2. 0 \in 0 .. 0 /\ \A k \in 0 + 1 .. 0 : FALSE
      OBVIOUS
    <2> QED
      BY <1>3, <1>4, <1>6, <2>1, <2>2 DEF Fits
  <1>9. TailBase(first) = 1
    BY <1>6, <1>7, <1>8, FitsTail
  <1>10. TailIndex(first) = 0 /\ End(first) = 0
    BY <1>3, <1>9 DEF TailIndex, End
  <1>11. LastIndex = 0 /\ LastPos = 0
    BY <1>2, <1>10 DEF LastIndex, LastPos
  <1>12. LogShape
    <2>1. versions \in Seq(ChainSet) /\ Latest >= 1 /\ view \in 1 .. Latest
      BY <1>2, <1>4
    <2>2. OLDEST \in Lsn /\ Unbounded \in OLDEST .. MaxLsn + 1
      BY Numbers DEF Unbounded
    <2>3. base \in [Index -> Lsn \cup {INVALID}] /\ trimPoint \in [Index -> Lsn \cup {INVALID}]
      BY <2>2
    <2>4. bound \in [Index -> OLDEST .. MaxLsn + 1] /\ tail \in [Index -> Lsn] /\ top \in [Index -> Lsn]
          /\ known \in [Index -> Lsn]
      BY <2>2
    <2>5. sealed \in [Index -> BOOLEAN] /\ knownSealed \in [Index -> BOOLEAN]
      OBVIOUS
    <2> QED
      BY <2>1, <2>3, <2>4, <2>5 DEF LogShape
  <1>13. ReaderShape
    <2>1. NoSubstream \in Wrapper
      BY Numbers DEF NoSubstream, Wrapper
    <2>2. OLDEST \in Lsn /\ INVALID \in Nat /\ state \in States
      BY Numbers DEF States
    <2> QED
      BY <2>1, <2>2 DEF ReaderShape
  <1>14. NothingSkipped
    BY Numbers DEF NothingSkipped
  <1>15. VersionsFit(B)
    <2>1. LastIndex <= MaxIndex
      BY <1>11, Numbers
    <2>2. \A v \in 1 .. Latest : v = 1 /\ versions[v] = first
      BY <1>2
    <2>3. \A v \in 1 .. Latest : \A w \in v .. Latest : w \in 1 .. Latest
      BY <1>2
    <2>4. End(first) \in Nat /\ Fits(first, B, End(first)) /\ TailIndex(first) <= LastIndex
          /\ End(first) <= End(first)
      BY <1>8, <1>10, <1>11
    <2> QED
      BY <1>6, <1>7, <1>11, <2>1, <2>2, <2>3, <2>4 DEF VersionsFit
  <1>16. TrimsFit(B)
    <2>1. \A v \in 1 .. Latest : versions[v] = first
      BY <1>2
    <2>2. OLDEST \in DOMAIN first
      BY <1>3, Numbers
    <2> QED
      BY <2>1, <2>2 DEF TrimsFit, ChainTrimmed
  <1>17. LogletsFit(B)
    <2> SUFFICES ASSUME NEW i \in Index PROVE LogletFits(i, B)
      BY DEF LogletsFit
    <2>1. /\ base[i] = (IF i = 0 THEN OLDEST ELSE INVALID) /\ tail[i] = OLDEST /\ top[i] = OLDEST
          /\ ~sealed[i] /\ bound[i] = MaxLsn + 1 /\ trimPoint[i] = INVALID /\ known[i] = OLDEST
      BY DEF Unbounded
    <2>2. /\ tail[i] <= top[i] /\ tail[i] <= bound[i] /\ trimPoint[i] < top[i]
          /\ known[i] <= top[i] /\ known[i] <= bound[i]
      BY <2>1, Numbers
    <2>3. i \in Nat /\ B[i] = 1
      BY <1>6, Numbers
    <2>4. IF i <= LastIndex THEN base[i] = B[i] /\ OffsetBy(B[i], top[i]) <= MaxLsn
          ELSE base[i] = INVALID /\ top[i] = OLDEST /\ ~sealed[i]
      BY <1>11, <2>1, <2>3, Numbers DEF OffsetBy
    <2> QED
      BY <2>2, <2>4 DEF LogletFits
  <1>18. EndsFit(B)
    BY <1>11 DEF EndsFit
  <1>19. DeliveredFit(B) /\ ReaderFits(B)
    BY DEF DeliveredFit, ReaderFits
  <1> QED
    BY <1>6, <1>12, <1>13, <1>14, <1>15, <1>16, <1>17, <1>18, <1>19 DEF ReadInv, OneTimeline

LEMMA PollNextKeeps ==
    ASSUME LogShape, ReaderShape, NothingSkipped, NEW B, OneTimeline(B), PollNext
    PROVE  LogShape' /\ ReaderShape' /\ NothingSkipped' /\ OneTimeline(B)'
  <1>1. CASE FindLoglet
    BY <1>1, FindLogletStep
  <1>2. CASE CreateSubstream
    BY <1>2, CreateSubstreamStep
  <1>3. CASE ReadTrimmed
    BY <1>3, TrimGapStep DEF ReadTrimmed, Round
  <1>4. CASE SwitchLoglet
    BY <1>4, SwitchLogletStep DEF SwitchLoglet, Round
  <1>5. CASE SegmentAdded
    <2>1. /\ UnchangedLog /\ state = "Reading" /\ Leave("AwaitingReconfiguration")
          /\ UNCHANGED <<readPointer, substream, delivered>>
      BY <1>5 DEF SegmentAdded, Round
    <2> QED
      BY <2>1, LeaveStep
  <1>6. CASE TailPending
    <2>1. /\ UnchangedLog /\ UNCHANGED <<streamVars, tailChanged>> /\ state' = state
          /\ wakers' = {"tail", "metadata"}
      BY <1>6 DEF TailPending, WatchesTail, Round, Park
    <2> QED
      BY <2>1, WaitStep DEF StateKept
  <1>7. CASE TailSealed
    <2>1. /\ UnchangedLog /\ state = "Reading" /\ Leave("AwaitingOrSealChain")
          /\ UNCHANGED <<readPointer, substream, delivered>>
      BY <1>7 DEF TailSealed, WatchesTail, Round
    <2> QED
      BY <2>1, LeaveStep
  <1>8. CASE TailOpen
    BY <1>8, TailOpenStep
  <1>9. CASE ReadSubstream
    BY <1>9, ReadSubstreamStep
  <1>10. CASE AwaitReconfiguration
    BY <1>10, CheckChainStep DEF AwaitReconfiguration
  <1>11. CASE AwaitOrSealChain
    <2>1. CASE CheckChain("AwaitingOrSealChain")
      BY <2>1, CheckChainStep
    <2>2. CASE /\ Round("AwaitingOrSealChain") /\ NoChange
               /\ Park({"timeout", "metadata"})
               /\ UNCHANGED <<streamVars, state, tailChanged>>
      <3>1. /\ UnchangedLog /\ UNCHANGED <<streamVars, tailChanged>> /\ state' = state
            /\ wakers' = {"timeout", "metadata"}
        BY <2>2 DEF Round, Park
      <3> QED
        BY <3>1, WaitStep DEF StateKept
    <2> QED
      BY <1>11, <2>1, <2>2 DEF AwaitOrSealChain
  <1> QED
    BY <1>1, <1>2, <1>3, <1>4, <1>5, <1>6, <1>7, <1>8, <1>9, <1>10, <1>11 DEF PollNext

LEMMA ReaderNextKeeps ==
    ASSUME LogShape, ReaderShape, NothingSkipped, NEW B \in [Points -> Lsn], OneTimeline(B), ReaderNext
    PROVE  LogShape' /\ ReaderShape' /\ NothingSkipped' /\ \E D \in [Points -> Lsn] : OneTimeline(D)'
  <1>1. CASE PollNext
    BY <1>1, PollNextKeeps
  <1>2. CASE LosePatience
    <2>1. /\ UnchangedLog /\ UNCHANGED <<streamVars, tailChanged>> /\ wakers' = {} /\ StateKept
      BY <1>2 DEF LosePatience, StateKept
    <2> QED
      BY <2>1, WaitStep
  <1>3. CASE ReaderSealsChain
    BY <1>3, ReaderSealsChainStep
  <1>4. CASE ReaderSealFails
    <2>1. /\ UnchangedLog /\ UNCHANGED <<streamVars, tailChanged>> /\ wakers' = wakers /\ StateKept
      BY <1>4 DEF ReaderSealFails, Round, Continue, StateKept
    <2> QED
      BY <2>1, WaitStep
  <1>5. CASE Wake
    <2>1. /\ UnchangedLog /\ UNCHANGED <<streamVars, tailChanged>> /\ wakers' = {} /\ StateKept
      BY <1>5 DEF Wake, StateKept
    <2> QED
      BY <2>1, WaitStep
  <1> QED
    BY <1>1, <1>2, <1>3, <1>4, <1>5 DEF ReaderNext

LEMMA NextKeeps ==
    ASSUME ReadInv, [Next]_vars
    PROVE  ReadInv'
  <1>1. PICK B \in [Points -> Lsn] : OneTimeline(B)
    BY DEF ReadInv
  <1>2. LogShape /\ ReaderShape /\ NothingSkipped
    BY DEF ReadInv
  <1>3. SUFFICES LogShape' /\ ReaderShape' /\ NothingSkipped' /\ \E D \in [Points -> Lsn] : OneTimeline(D)'
    BY DEF ReadInv
  <1>4. CASE UNCHANGED vars
    <2>1. /\ UnchangedLog /\ UNCHANGED <<streamVars, tailChanged>> /\ state' = state /\ wakers' = wakers
      BY <1>4 DEF vars, UnchangedLog
    <2> QED
      BY <1>1, <1>2, <2>1, WaitStep DEF StateKept
  <1>5. CASE SealLoglet
    BY <1>1, <1>2, <1>5, SealLogletStep
  <1>6. CASE SealChain
    BY <1>1, <1>2, <1>6, SealChainStep
  <1>7. CASE ExtendChain
    BY <1>1, <1>2, <1>7, ExtendChainStep
  <1>8. CASE TrimChain
    BY <1>1, <1>2, <1>8, TrimChainStep
  <1>9. ASSUME NEW i \in Index, AppendRecord(i) \/ RepairTail(i) \/ TrimLoglet(i) \/ LearnTail(i) \/ LearnSeal(i)
        PROVE  LogShape' /\ ReaderShape' /\ NothingSkipped' /\ OneTimeline(B)'
    BY <1>1, <1>2, <1>9, AppendRecordStep, RepairTailStep, TrimLogletStep, LearnTailStep, LearnSealStep
  <1>10. CASE SyncMetadata
    BY <1>1, <1>2, <1>10, SyncMetadataStep
  <1>11. CASE ReaderNext
    BY <1>1, <1>2, <1>11, ReaderNextKeeps
  <1> QED
    BY <1>1, <1>4, <1>5, <1>6, <1>7, <1>8, <1>9, <1>10, <1>11 DEF Next, LogNext, NodeNext

\* The log, the tails that the reader's node knows of and the reader agree on one
\* timeline of segments in every state (LogReadStream, LogletWrapper).
THEOREM ReadInvAlways == Spec => []ReadInv
  <1>1. Init => ReadInv
    BY InitHolds
  <1>2. ReadInv /\ [Next]_vars => ReadInv'
    BY NextKeeps
  <1> QED
    BY <1>1, <1>2, PTL DEF Spec

\* The variables keep their types, no node knows of a tail above the highest reported,
\* and the reader has a substream except while it looks for a loglet: the
\* expects of poll_next never fail.
THEOREM ReaderTypeCorrect == Spec => []TypeOK
  <1>1. ASSUME ReadInv PROVE TypeOK
    <2>1. PICK B \in [Points -> Lsn] : OneTimeline(B)
      BY <1>1 DEF ReadInv
    <2>2. LogShape /\ ReaderShape
      BY <1>1 DEF ReadInv
    <2>3. VersionsFit(B) /\ LogletsFit(B)
      BY <2>1 DEF OneTimeline
    <2>4. ASSUME NEW v \in 1 .. Latest PROVE DOMAIN versions[v] # {} /\ DOMAIN versions[v] \subseteq Lsn
      <3>1. PICK K \in Nat : Fits(versions[v], B, K) /\ K <= LastPos
        BY <2>2, <2>3, VersionFacts
      <3>2. ASSUME NEW b \in DOMAIN versions[v] PROVE b \in Lsn
        <4>1. Pos(versions[v][b]) \in 0 .. K /\ B[Pos(versions[v][b])] = b
          BY <3>1 DEF Fits
        <4>2. Pos(versions[v][b]) \in Points
          BY <2>2, <2>3, <3>1, <4>1, LastFacts, Numbers
        <4> QED
          BY <2>3, <4>1, <4>2, BasesAre
      <3> QED
        BY <3>1, <3>2 DEF Fits
    <2>5. \A i \in Index : known[i] <= top[i]
      BY <2>3 DEF LogletsFit, LogletFits
    <2>6. substream = NoSubstream <=> state = "FindingLoglet"
      <3>1. CASE state = "FindingLoglet"
        BY <2>1, <3>1 DEF OneTimeline, ReaderFits
      <3>2. CASE state # "FindingLoglet"
        <4>1. substream.index \in 0 .. LastIndex
          BY <2>1, <3>2 DEF OneTimeline, ReaderFits, SubstreamFits
        <4>2. NoSubstream.index = -1 /\ -1 \notin 0 .. LastIndex
          BY DEF NoSubstream
        <4> QED
          BY <3>2, <4>1, <4>2
      <3> QED
        BY <3>1, <3>2
    <2> QED
      BY <2>2, <2>4, <2>5, <2>6 DEF TypeOK, LogShape, ReaderShape
  <1> QED
    BY <1>1, ReadInvAlways, PTL

\* If a node that does not know of the seal never learns of a tail beyond the
\* sealed one, every record that the reader has handed out is the one that the
\* chain has at its LSN, for all numbers of segments, records and trims.  Without
\* the premise the run ReadStreamOpenTail finds a counterexample.
THEOREM ReadsTheLogAlways == OpenTailsBounded /\ Spec => []ReadsTheLog
  <1> SUFFICES ASSUME OpenTailsBounded PROVE Spec => []ReadsTheLog
    OBVIOUS
  <1>1. ReadInv => ReadsTheLog
    <2> SUFFICES ASSUME ReadInv PROVE ReadsTheLog
      OBVIOUS
    <2>1. PICK B \in [Points -> Lsn] : OneTimeline(B)
      BY DEF ReadInv
    <2>2. LogShape /\ ReaderShape
      BY DEF ReadInv
    <2>3. VersionsFit(B) /\ DeliveredFit(B)
      BY <2>1 DEF OneTimeline
    <2> SUFFICES ASSUME NEW d \in delivered, SegmentFor(Chain, d.lsn) # INVALID
                 PROVE  Chain[SegmentFor(Chain, d.lsn)] = Loglet(d.index)
      BY DEF ReadsTheLog
    <2>4. d \in [lsn : Lsn, index : Index]
      BY <2>2 DEF ReaderShape
    <2>5. PICK lsn \in Nat, i \in Nat : lsn = d.lsn /\ i = d.index /\ i \in Index
      BY <2>4, Numbers
    <2>6. PICK chain \in ChainSet, J \in Nat :
            chain = Chain /\ J = LastPos /\ Fits(chain, B, J) /\ Rising(B, J)
      BY <2>2, <2>3, LastFacts
    <2>7. /\ i <= LastIndex /\ B[i] <= lsn /\ (i < J => lsn < B[i + 1])
      BY <2>3, <2>5, <2>6 DEF DeliveredFit, RecordFits
    <2>8. /\ LastIndex \in Nat /\ J \in {LastIndex, LastIndex + 1}
          /\ IsSealed(chain) => J = LastIndex + 1
          /\ ~IsSealed(chain) => J = LastIndex
      BY <2>2, <2>3, <2>6, LastFacts
    <2>9. i \in 0 .. J
      BY <2>5, <2>7, <2>8
    <2>10. \E b \in DOMAIN chain : b <= lsn
      BY <2>5, <2>6, SegmentForIs
    <2>11. LeadsTo(chain, B, lsn, i)
      BY <2>6, <2>7, <2>9, <2>10, SegmentAt
    <2>12. /\ SegmentFor(chain, lsn) = B[i] /\ B[i] \in DOMAIN chain /\ Pos(chain[B[i]]) = i
      BY <2>11 DEF LeadsTo
    <2>13. ~chain[B[i]].marker
      <3>1. CASE chain[B[i]].marker
        <4>1. i = J
          BY <2>6, <2>12, <3>1 DEF Fits
        <4>2. IsSealed(chain)
          BY <2>6, <3>1, <4>1, FitsTail
        <4> QED
          BY <2>7, <2>8, <4>1, <4>2
      <3> QED
        BY <3>1
    <2>14. chain[B[i]] = Loglet(i)
      BY <2>6, <2>12, <2>13, ChainFields
    <2> QED
      BY <2>5, <2>6, <2>12, <2>14
  <1> QED
    BY <1>1, ReadInvAlways, PTL

\* The read pointer never passes an LSN whose record was neither handed out nor
\* trimmed (calculate_read_pointer, deliver_trim_gap), whatever the bounds and
\* whatever tails the node hears of.
THEOREM NothingSkippedAlways == Spec => []NothingSkipped
  <1>1. ReadInv => NothingSkipped
    BY DEF ReadInv
  <1> QED
    BY <1>1, ReadInvAlways, PTL
=============================================================================
