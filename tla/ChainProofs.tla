----------------------------- MODULE ChainProofs -----------------------------
(***************************************************************************)
(* What the operations on chains preserve.  The segments of a log are      *)
(* numbered, and each of them starts where the one before it has ended:    *)
(* there is one timeline B of base LSNs for all versions of the chain.     *)
(* Every chain has a stretch of the timeline, up to its own last position. *)
(***************************************************************************)
EXTENDS Chains, NaturalsInduction, WellFoundedInduction, TLAPS

\* position of a segment in the timeline; a marker has the one of the loglet that may replace it
Pos(segment) == IF segment.marker THEN segment.index + 1 ELSE segment.index

\* position of the tail segment
End(chain) == Pos(chain[TailBase(chain)])

Segments == [index : Nat, marker : BOOLEAN]

ChainSet == UNION {[D -> Segments] : D \in SUBSET (Nat \ {0})}

\* each base of the chain has the last segment that the timeline, up to J, has
\* there, a marker is the last of all, and only a prefix is missing
Fits(chain, B, J) ==
    /\ chain \in ChainSet /\ DOMAIN chain # {}
    /\ \A b \in DOMAIN chain :
          /\ Pos(chain[b]) \in 0 .. J /\ B[Pos(chain[b])] = b
          /\ \A k \in Pos(chain[b]) + 1 .. J : B[k] > b
          /\ chain[b].marker => Pos(chain[b]) = J
    /\ \A k \in 0 .. J : (\E b \in DOMAIN chain : b <= B[k]) => B[k] \in DOMAIN chain

Rising(B, J) ==
    /\ \A k \in 0 .. J : B[k] \in Nat \ {0}
    /\ \A j, k \in 0 .. J : j <= k => B[j] <= B[k]

-----------------------------------------------------------------------------
(* Sets of numbers *)

LEMMA LeastElement ==
    ASSUME NEW S, S \subseteq Nat, S # {}
    PROVE  \E x \in S : \A y \in S : x <= y
  <1> DEFINE R == OpToRel(<, Nat)
  <1>1. IsWellFoundedOn(R, Nat)
    BY NatLessThanWellFounded
  <1>2. \A a, b \in Nat : a < b => <<a, b>> \in R
    BY DEF OpToRel
  <1> HIDE DEF R
  <1>3. PICK x \in S : \A y \in S : <<y, x>> \notin R
    BY <1>1, WFMin
  <1>4. \A y \in S : ~(y < x)
    BY <1>2, <1>3
  <1> QED
    BY <1>4

LEMMA MinIs ==
    ASSUME NEW S, S \subseteq Nat, S # {}
    PROVE  Min(S) \in S /\ \A y \in S : Min(S) <= y
  BY LeastElement DEF Min

LEMMA MaxIs ==
    ASSUME NEW S, S \subseteq Nat, S # {}, NEW N \in Nat, \A x \in S : x <= N
    PROVE  Max(S) \in S /\ \A y \in S : y <= Max(S)
  <1> DEFINE M == {n \in Nat : N - n \in S}
  <1>1. PICK s \in S : TRUE
    OBVIOUS
  <1>2. N - s \in M
    BY <1>1
  <1>3. PICK m \in M : \A n \in M : m <= n
    BY <1>2, LeastElement
  <1>4. \A y \in S : N - y \in M /\ y \in Nat /\ y <= N
    OBVIOUS
  <1>5. N - m \in S /\ \A y \in S : N - m >= y
    BY <1>3, <1>4
  <1> QED
    BY <1>5 DEF Max

\* Max of a set with a known largest element
LEMMA MaxKnown ==
    ASSUME NEW S, S \subseteq Nat, NEW x \in S, \A y \in S : y <= x
    PROVE  Max(S) = x
  <1>1. Max(S) \in S /\ \A y \in S : Max(S) >= y
    BY DEF Max
  <1>2. Max(S) \in Nat /\ x \in Nat /\ Max(S) <= x /\ x <= Max(S)
    BY <1>1
  <1> QED
    BY <1>2

LEMMA OffsetIs ==
    ASSUME NEW b \in Nat, NEW o \in Nat
    PROVE  OffsetBy(b, o) = b + o - 1 /\ OffsetBy(b, o) \in Int
  BY DEF OffsetBy, OLDEST

-----------------------------------------------------------------------------
(* A chain that fits *)

LEMMA ChainFields ==
    ASSUME NEW chain \in ChainSet
    PROVE  /\ DOMAIN chain \subseteq Nat \ {0}
           /\ \A b \in DOMAIN chain : /\ b \in Nat \ {0} /\ chain[b] \in Segments
                                      /\ chain[b].index \in Nat /\ chain[b].marker \in BOOLEAN
                                      /\ Pos(chain[b]) \in Nat
           /\ \A b \in DOMAIN chain : chain[b].marker => Pos(chain[b]) = chain[b].index + 1
           /\ \A b \in DOMAIN chain : ~chain[b].marker => Pos(chain[b]) = chain[b].index
           /\ \A b \in DOMAIN chain : ~chain[b].marker => chain[b] = Loglet(Pos(chain[b]))
  <1>1. PICK D \in SUBSET (Nat \ {0}) : chain \in [D -> Segments]
    BY DEF ChainSet
  <1>2. DOMAIN chain = D /\ \A b \in D : chain[b] \in Segments
    BY <1>1
  <1>3. \A s \in Segments : /\ s.index \in Nat /\ s.marker \in BOOLEAN /\ Pos(s) \in Nat
                            /\ s.marker => Pos(s) = s.index + 1
                            /\ ~s.marker => Pos(s) = s.index /\ s = Loglet(s.index)
    BY DEF Segments, Pos, Loglet
  <1> QED
    BY <1>1, <1>2, <1>3

\* the tail segment of a chain that fits is the last one of its stretch
LEMMA FitsTail ==
    ASSUME NEW chain, NEW B, NEW J \in Nat, Fits(chain, B, J), Rising(B, J)
    PROVE  /\ TailBase(chain) = B[J] /\ B[J] \in DOMAIN chain
           /\ \A b \in DOMAIN chain : b <= B[J]
           /\ End(chain) = J /\ Pos(chain[B[J]]) = J
           /\ IsSealed(chain) = chain[B[J]].marker
           /\ TailIndex(chain) = chain[B[J]].index
           /\ TailIndex(chain) \in Nat
           /\ IsSealed(chain) => J = TailIndex(chain) + 1
           /\ ~IsSealed(chain) => J = TailIndex(chain)
  <1>1. chain \in ChainSet /\ DOMAIN chain # {}
    BY DEF Fits
  <1>2. DOMAIN chain \subseteq Nat
    BY <1>1, ChainFields
  <1>3. \A b \in DOMAIN chain : b <= B[J]
    BY <1>2 DEF Fits, Rising
  <1>4. B[J] \in DOMAIN chain
    BY <1>1, <1>3 DEF Fits
  <1>5. TailBase(chain) = B[J]
    BY <1>2, <1>3, <1>4, MaxKnown DEF TailBase
  <1>6. Pos(chain[B[J]]) = J
    <2>1. Pos(chain[B[J]]) \in 0 .. J
      BY <1>4 DEF Fits
    <2>2. CASE Pos(chain[B[J]]) < J
      <3>1. J \in Pos(chain[B[J]]) + 1 .. J
        BY <2>1, <2>2
      <3>2. B[J] > B[J]
        BY <3>1, <1>4 DEF Fits
      <3> QED
        BY <3>2, <1>2, <1>4
    <2> QED
      BY <2>1, <2>2
  <1> QED
    BY <1>1, <1>3, <1>4, <1>5, <1>6, ChainFields DEF End, IsSealed, TailIndex

\* no segment has an index above the one of the tail segment
LEMMA StretchFields ==
    ASSUME NEW chain, NEW B, NEW J \in Nat, Fits(chain, B, J), Rising(B, J)
    PROVE  \A b \in DOMAIN chain : chain[b].index <= TailIndex(chain)
  <1> SUFFICES ASSUME NEW b \in DOMAIN chain PROVE chain[b].index <= TailIndex(chain)
    OBVIOUS
  <1>1. chain \in ChainSet /\ Pos(chain[b]) \in 0 .. J /\ B[Pos(chain[b])] = b
    BY DEF Fits
  <1>2. /\ TailIndex(chain) = chain[B[J]].index /\ TailIndex(chain) \in Nat
        /\ IsSealed(chain) = chain[B[J]].marker
        /\ IsSealed(chain) => J = TailIndex(chain) + 1
        /\ ~IsSealed(chain) => J = TailIndex(chain)
    BY FitsTail
  <1>3. /\ chain[b].index \in Nat /\ chain[b].marker \in BOOLEAN
        /\ chain[b].marker => Pos(chain[b]) = chain[b].index + 1
        /\ ~chain[b].marker => Pos(chain[b]) = chain[b].index
    BY <1>1, ChainFields
  <1>4. CASE b = B[J]
    BY <1>2, <1>3, <1>4
  <1>5. CASE b # B[J]
    <2>1. Pos(chain[b]) # J
      BY <1>1, <1>5
    <2> QED
      BY <1>1, <1>2, <1>3, <2>1
  <1> QED
    BY <1>4, <1>5

\* two timelines that agree on the stretch
LEMMA FitsAgree ==
    ASSUME NEW chain, NEW B, NEW D, NEW J \in Nat, \A k \in 0 .. J : D[k] = B[k]
    PROVE  /\ Fits(chain, B, J) => Fits(chain, D, J)
           /\ Rising(B, J) => Rising(D, J)
  <1>1. ASSUME Fits(chain, B, J) PROVE Fits(chain, D, J)
    <2>1. chain \in ChainSet /\ DOMAIN chain # {}
      BY <1>1 DEF Fits
    <2>2. ASSUME NEW b \in DOMAIN chain
          PROVE  /\ Pos(chain[b]) \in 0 .. J /\ D[Pos(chain[b])] = b
                 /\ \A k \in Pos(chain[b]) + 1 .. J : D[k] > b
                 /\ chain[b].marker => Pos(chain[b]) = J
      <3>1. /\ Pos(chain[b]) \in 0 .. J /\ B[Pos(chain[b])] = b
            /\ \A k \in Pos(chain[b]) + 1 .. J : B[k] > b
            /\ chain[b].marker => Pos(chain[b]) = J
        BY <1>1, <2>2 DEF Fits
      <3>2. \A k \in Pos(chain[b]) + 1 .. J : k \in 0 .. J
        BY <3>1
      <3> QED
        BY <3>1, <3>2
    <2>3. \A k \in 0 .. J : (\E b \in DOMAIN chain : b <= D[k]) => D[k] \in DOMAIN chain
      BY <1>1 DEF Fits
    <2> QED
      BY <2>1, <2>2, <2>3 DEF Fits
  <1>2. ASSUME Rising(B, J) PROVE Rising(D, J)
    BY <1>2 DEF Rising
  <1> QED
    BY <1>1, <1>2

LEMMA SegmentForIs ==
    ASSUME NEW chain \in ChainSet, NEW lsn \in Nat
    PROVE  /\ SegmentFor(chain, lsn) = INVALID <=> \A b \in DOMAIN chain : lsn < b
           /\ SegmentFor(chain, lsn) # INVALID =>
                 /\ SegmentFor(chain, lsn) \in DOMAIN chain /\ SegmentFor(chain, lsn) <= lsn
                 /\ \A b \in DOMAIN chain : b <= lsn => b <= SegmentFor(chain, lsn)
           /\ SegmentFor(chain, lsn) \in Nat
  <1> DEFINE below == {b \in DOMAIN chain : b <= lsn}
  <1>1. SegmentFor(chain, lsn) = IF below = {} THEN INVALID ELSE Max(below)
    BY DEF SegmentFor
  <1>2. DOMAIN chain \subseteq Nat \ {0}
    BY ChainFields
  <1>3. CASE below = {}
    BY <1>1, <1>2, <1>3 DEF INVALID
  <1>4. CASE below # {}
    <2>1. below \subseteq Nat /\ \A x \in below : x <= lsn
      BY <1>2
    <2>2. Max(below) \in below /\ \A y \in below : y <= Max(below)
      <3> HIDE DEF below
      <3> QED
        BY <1>4, <2>1, MaxIs
    <2> QED
      BY <1>1, <1>2, <1>4, <2>2 DEF INVALID
  <1> QED
    BY <1>3, <1>4

\* where the segment that holds an LSN starts and ends
LEMMA SegmentOf ==
    ASSUME NEW chain, NEW B, NEW J \in Nat, Fits(chain, B, J), Rising(B, J),
           NEW lsn \in Nat, SegmentFor(chain, lsn) # INVALID
    PROVE  LET b == SegmentFor(chain, lsn) IN
           /\ b \in DOMAIN chain /\ Pos(chain[b]) \in 0 .. J
           /\ B[Pos(chain[b])] = b /\ b <= lsn
           /\ Pos(chain[b]) < J => lsn < B[Pos(chain[b]) + 1]
  <1> DEFINE b == SegmentFor(chain, lsn)
             i == Pos(chain[b])
  <1>1. chain \in ChainSet
    BY DEF Fits
  <1>2. /\ b \in DOMAIN chain /\ b <= lsn /\ b \in Nat
        /\ \A c \in DOMAIN chain : c <= lsn => c <= b
    BY <1>1, SegmentForIs
  <1> HIDE DEF b
  <1>3. i \in 0 .. J /\ B[i] = b /\ \A k \in i + 1 .. J : B[k] > b
    BY <1>2 DEF Fits
  <1>4. CASE i < J
    <2>1. i + 1 \in 0 .. J /\ i + 1 \in i + 1 .. J
      BY <1>3, <1>4
    <2>2. B[i + 1] > b /\ B[i + 1] \in Nat
      BY <1>3, <2>1 DEF Rising
    <2>3. B[i + 1] \in DOMAIN chain
      <3>1. b <= B[i + 1]
        BY <1>2, <2>2
      <3> QED
        BY <1>2, <2>1, <3>1 DEF Fits
    <2> QED
      BY <1>2, <1>3, <2>2, <2>3 DEF b
  <1> QED
    BY <1>2, <1>3, <1>4 DEF b

\* the chain leads from lsn to the segment at position i
LeadsTo(chain, B, lsn, i) ==
    /\ SegmentFor(chain, lsn) # INVALID /\ SegmentFor(chain, lsn) = B[i]
    /\ B[i] \in DOMAIN chain /\ Pos(chain[B[i]]) = i

\* the segment of an LSN that the timeline gives to position i
LEMMA SegmentAt ==
    ASSUME NEW chain, NEW B, NEW J \in Nat, Fits(chain, B, J), Rising(B, J),
           NEW lsn \in Nat, NEW i \in 0 .. J, B[i] <= lsn, i < J => lsn < B[i + 1],
           \E b \in DOMAIN chain : b <= lsn
    PROVE  LeadsTo(chain, B, lsn, i)
  <1> DEFINE b == SegmentFor(chain, lsn)
             j == Pos(chain[b])
  <1>1. chain \in ChainSet
    BY DEF Fits
  <1>2. b # INVALID
    BY <1>1, SegmentForIs, ChainFields
  <1>3. /\ b \in DOMAIN chain /\ j \in 0 .. J /\ B[j] = b /\ b <= lsn
        /\ j < J => lsn < B[j + 1]
    BY <1>2, SegmentOf
  <1> HIDE DEF b, j
  <1>4. CASE j < i
    <2>1. j + 1 \in 0 .. J /\ j + 1 <= i /\ j < J
      BY <1>3, <1>4
    <2>2. B[j + 1] <= B[i] /\ B[j + 1] \in Nat /\ B[i] \in Nat /\ lsn < B[j + 1]
      BY <1>3, <2>1 DEF Rising
    <2> QED
      BY <2>2
  <1>5. CASE i < j
    <2>1. i + 1 \in 0 .. J /\ i + 1 <= j /\ i < J
      BY <1>3, <1>5
    <2>2. B[i + 1] <= B[j] /\ B[i + 1] \in Nat /\ B[j] \in Nat /\ lsn < B[i + 1] /\ B[j] <= lsn
      BY <1>3, <2>1 DEF Rising
    <2> QED
      BY <2>2
  <1>6. CASE j = i
    BY <1>2, <1>3, <1>6 DEF LeadsTo, b, j
  <1> QED
    BY <1>3, <1>4, <1>5, <1>6

\* what the timeline says of the end of a segment
LEMMA TailLsnIs ==
    ASSUME NEW chain, NEW B, NEW J \in Nat, Fits(chain, B, J), Rising(B, J),
           NEW b \in DOMAIN chain
    PROVE  /\ Pos(chain[b]) = J => TailLsn(chain, b) = INVALID
           /\ Pos(chain[b]) # J => /\ TailLsn(chain, b) = B[Pos(chain[b]) + 1]
                                   /\ B[Pos(chain[b]) + 1] \in DOMAIN chain
                                   /\ b < B[Pos(chain[b]) + 1]
                                   /\ ~chain[b].marker
           /\ TailLsn(chain, b) = INVALID \/ TailLsn(chain, b) > b
  <1> DEFINE later == {c \in DOMAIN chain : c > b}
             i == Pos(chain[b])
  <1>1. TailLsn(chain, b) = IF later = {} THEN INVALID ELSE Min(later)
    BY DEF TailLsn
  <1>2. chain \in ChainSet
    BY DEF Fits
  <1>3. DOMAIN chain \subseteq Nat \ {0}
    BY <1>2, ChainFields
  <1>4. i \in 0 .. J /\ B[i] = b /\ \A k \in i + 1 .. J : B[k] > b
    BY DEF Fits
  <1>5. \A c \in DOMAIN chain : c <= B[J]
    BY FitsTail
  <1>6. CASE i = J
    <2>1. later = {}
      BY <1>3, <1>4, <1>5, <1>6
    <2> QED
      BY <1>1, <1>6, <2>1
  <1>7. CASE i # J
    <2>1. i + 1 \in 0 .. J /\ i + 1 \in i + 1 .. J
      BY <1>4, <1>7
    <2>2. B[i + 1] > b /\ B[i + 1] \in Nat
      BY <1>4, <2>1 DEF Rising
    <2>3. b <= B[i + 1]
      BY <1>3, <2>2
    <2>4. B[i + 1] \in DOMAIN chain
      BY <2>1, <2>3 DEF Fits
    <2>5. B[i + 1] \in later /\ later \subseteq Nat /\ later # {}
      BY <1>3, <2>2, <2>4
    <2>6. ASSUME NEW c \in later PROVE B[i + 1] <= c
      <3>1. Pos(chain[c]) \in 0 .. J /\ B[Pos(chain[c])] = c /\ c > b /\ c \in Nat
        BY <1>3, <2>6 DEF Fits
      <3>2. CASE Pos(chain[c]) <= i
        <4>1. B[Pos(chain[c])] <= B[i]
          BY <1>4, <3>1, <3>2 DEF Rising
        <4> QED
          BY <1>3, <1>4, <3>1, <4>1
      <3>3. CASE i + 1 <= Pos(chain[c])
        BY <2>1, <3>1, <3>3 DEF Rising
      <3> QED
        BY <1>4, <3>1, <3>2, <3>3
    <2>7. Min(later) \in later /\ \A y \in later : Min(later) <= y
      <3> HIDE DEF later
      <3> QED
        BY <2>5, MinIs
    <2>8. Min(later) = B[i + 1]
      <3>1. Min(later) <= B[i + 1] /\ B[i + 1] <= Min(later) /\ Min(later) \in Nat
        BY <2>5, <2>6, <2>7
      <3> QED
        BY <2>2, <3>1
    <2>9. ~chain[b].marker
      BY <1>7 DEF Fits
    <2> QED
      BY <1>1, <1>7, <2>2, <2>4, <2>5, <2>8, <2>9
  <1> QED
    BY <1>3, <1>4, <1>6, <1>7

-----------------------------------------------------------------------------
(* The operations *)

\* a segment is put behind an open tail, or in place of an empty one
LEMMA PutFits ==
    ASSUME NEW chain, NEW B, NEW J \in Nat, Fits(chain, B, J), Rising(B, J),
           ~IsSealed(chain), NEW lsn \in Nat \ {0}, lsn >= B[J],
           NEW D, \A k \in 0 .. J : D[k] = B[k], D[J + 1] = lsn,
           NEW segment \in Segments, Pos(segment) = J + 1
    PROVE  Fits(Put(chain, lsn, segment), D, J + 1) /\ Rising(D, J + 1)
  <1> DEFINE new == Put(chain, lsn, segment)
             E == DOMAIN chain \cup {lsn}
  <1>1. chain \in ChainSet
    BY DEF Fits
  <1>2. DOMAIN chain \subseteq Nat \ {0} /\ \A b \in DOMAIN chain : chain[b] \in Segments
    BY <1>1, ChainFields
  <1>3. DOMAIN new = E /\ \A b \in E : new[b] = IF b = lsn THEN segment ELSE chain[b]
    BY DEF Put
  <1>4. new \in ChainSet /\ E # {}
    <2>1. new \in [E -> Segments]
      BY <1>2 DEF Put
    <2>2. E \in SUBSET (Nat \ {0})
      BY <1>2
    <2> QED
      BY <2>1, <2>2 DEF ChainSet
  <1>5. Rising(D, J + 1)
    <2>1. \A k \in 0 .. J + 1 : k = J + 1 \/ k \in 0 .. J
      OBVIOUS
    <2>2. \A k \in 0 .. J : B[k] \in Nat \ {0} /\ B[k] <= B[J]
      BY DEF Rising
    <2>3. \A k \in 0 .. J + 1 : D[k] \in Nat \ {0} /\ D[k] <= lsn
      BY <2>1, <2>2
    <2>4. ASSUME NEW j \in 0 .. J + 1, NEW k \in 0 .. J + 1, j <= k PROVE D[j] <= D[k]
      <3>1. CASE k = J + 1
        BY <2>3, <3>1
      <3>2. CASE k \in 0 .. J /\ j \in 0 .. J
        BY <2>4, <3>2 DEF Rising
      <3> QED
        BY <2>1, <2>4, <3>1, <3>2
    <2> QED
      BY <2>3, <2>4 DEF Rising
  <1>6. chain[B[J]].marker = FALSE /\ B[J] \in DOMAIN chain /\ \A b \in DOMAIN chain : b <= B[J]
    BY <1>2, FitsTail DEF IsSealed, Segments
  <1>7. \A b \in DOMAIN chain : ~chain[b].marker
    <2>1. \A b \in DOMAIN chain : chain[b].marker => Pos(chain[b]) = J /\ B[J] = b
      BY DEF Fits
    <2> QED
      BY <1>6, <2>1
  <1>8. ASSUME NEW b \in E
        PROVE  /\ Pos(new[b]) \in 0 .. J + 1 /\ D[Pos(new[b])] = b
               /\ \A k \in Pos(new[b]) + 1 .. J + 1 : D[k] > b
               /\ new[b].marker => Pos(new[b]) = J + 1
    <2>1. CASE b = lsn
      BY <1>3, <2>1
    <2>2. CASE b # lsn
      <3>1. b \in DOMAIN chain /\ new[b] = chain[b] /\ b \in Nat
        BY <1>2, <1>3, <1>8, <2>2
      <3>2. Pos(chain[b]) \in 0 .. J /\ B[Pos(chain[b])] = b
        BY <3>1 DEF Fits
      <3>3. b < lsn
        <4>1. b <= B[J] /\ B[J] \in Nat
          BY <1>2, <1>6, <3>1
        <4> QED
          BY <2>2, <3>1, <4>1
      <3>4. ASSUME NEW k \in Pos(chain[b]) + 1 .. J + 1 PROVE D[k] > b
        <4>1. CASE k = J + 1
          BY <3>1, <3>3, <4>1
        <4>2. CASE k # J + 1
          <5>1. k \in Pos(chain[b]) + 1 .. J /\ k \in 0 .. J
            BY <3>2, <3>4, <4>2
          <5> QED
            BY <3>1, <5>1 DEF Fits
        <4> QED
          BY <4>1, <4>2
      <3> QED
        BY <1>7, <3>1, <3>2, <3>4
    <2> QED
      BY <2>1, <2>2
  <1>9. ASSUME NEW k \in 0 .. J + 1, NEW b \in E, b <= D[k] PROVE D[k] \in E
    <2>1. CASE k = J + 1
      BY <2>1
    <2>2. CASE k # J + 1
      <3>1. k \in 0 .. J /\ D[k] = B[k] /\ B[k] \in Nat
        BY <2>2 DEF Rising
      <3>2. CASE b \in DOMAIN chain
        BY <1>9, <3>1, <3>2 DEF Fits
      <3>3. CASE b = lsn
        <4>1. B[k] <= B[J] /\ B[J] \in Nat
          BY <3>1 DEF Rising
        <4>2. B[k] = lsn
          BY <1>9, <3>1, <3>3, <4>1
        <4> QED
          BY <3>1, <4>2
      <3> QED
        BY <1>9, <3>2, <3>3
    <2> QED
      BY <2>1, <2>2
  <1> HIDE DEF new
  <1>10. Fits(new, D, J + 1)
    BY <1>3, <1>4, <1>8, <1>9 DEF Fits
  <1> QED
    BY <1>5, <1>10 DEF new

\* a loglet replaces the marker at which it starts
LEMMA ReplaceFits ==
    ASSUME NEW chain, NEW B, NEW J \in Nat, Fits(chain, B, J), Rising(B, J)
    PROVE  Fits(Put(chain, B[J], Loglet(J)), B, J)
  <1> DEFINE new == Put(chain, B[J], Loglet(J))
  <1>1. chain \in ChainSet
    BY DEF Fits
  <1>2. DOMAIN chain \subseteq Nat \ {0} /\ \A b \in DOMAIN chain : chain[b] \in Segments
    BY <1>1, ChainFields
  <1>3. B[J] \in DOMAIN chain
    BY FitsTail
  <1>4. /\ DOMAIN new = DOMAIN chain
        /\ \A b \in DOMAIN chain : new[b] = IF b = B[J] THEN Loglet(J) ELSE chain[b]
    BY <1>3 DEF Put
  <1>5. Loglet(J) \in Segments /\ Pos(Loglet(J)) = J /\ ~Loglet(J).marker
    BY DEF Loglet, Segments, Pos
  <1>6. new \in ChainSet
    <2>1. new \in [DOMAIN chain -> Segments]
      BY <1>2, <1>3, <1>5 DEF Put
    <2> QED
      BY <1>2, <2>1 DEF ChainSet
  <1> HIDE DEF new
  <1>7. ASSUME NEW b \in DOMAIN new
        PROVE  /\ Pos(new[b]) \in 0 .. J /\ B[Pos(new[b])] = b
               /\ \A k \in Pos(new[b]) + 1 .. J : B[k] > b
               /\ new[b].marker => Pos(new[b]) = J
    <2>1. CASE b = B[J]
      BY <1>4, <1>5, <2>1
    <2>2. CASE b # B[J]
      BY <1>4, <1>7, <2>2 DEF Fits
    <2> QED
      BY <2>1, <2>2
  <1>8. \A k \in 0 .. J : (\E b \in DOMAIN new : b <= B[k]) => B[k] \in DOMAIN new
    BY <1>4 DEF Fits
  <1>9. Fits(new, B, J)
    BY <1>3, <1>4, <1>6, <1>7, <1>8 DEF Fits
  <1> QED
    BY <1>9 DEF new

\* a trim drops segments of which all LSNs are trimmed, and never the tail
LEMMA TrimFits ==
    ASSUME NEW chain, NEW B, NEW J \in Nat, Fits(chain, B, J), Rising(B, J), NEW lsn \in Nat
    PROVE  /\ Fits(Trimmed(chain, lsn), B, J)
           /\ DOMAIN Trimmed(chain, lsn) \subseteq DOMAIN chain
           /\ Trimmed(chain, lsn)[B[J]] = chain[B[J]]
           /\ \A b \in DOMAIN chain : \E c \in DOMAIN Trimmed(chain, lsn) : c <= b \/ c <= lsn + 1
  <1> DEFINE keep == SegmentFor(chain, lsn + 1)
             E == {b \in DOMAIN chain : b >= keep}
             new == Trimmed(chain, lsn)
  <1>1. chain \in ChainSet
    BY DEF Fits
  <1>2. DOMAIN chain \subseteq Nat \ {0} /\ \A b \in DOMAIN chain : chain[b] \in Segments
    BY <1>1, ChainFields
  <1>3. /\ keep \in Nat
        /\ keep # INVALID => keep \in DOMAIN chain /\ keep <= lsn + 1
    BY <1>1, SegmentForIs
  <1> HIDE DEF keep
  <1>4. DOMAIN new = E /\ \A b \in E : new[b] = chain[b]
    BY DEF Trimmed, keep
  <1>5. B[J] \in DOMAIN chain /\ \A b \in DOMAIN chain : b <= B[J]
    BY FitsTail
  <1>6. B[J] \in E
    BY <1>2, <1>3, <1>5 DEF INVALID
  <1>7. new \in ChainSet
    <2>1. new \in [E -> Segments]
      BY <1>2 DEF Trimmed, keep
    <2>2. E \in SUBSET (Nat \ {0})
      BY <1>2
    <2> QED
      BY <2>1, <2>2 DEF ChainSet
  <1> HIDE DEF new
  <1>8. \A b \in DOMAIN new :
          /\ Pos(new[b]) \in 0 .. J /\ B[Pos(new[b])] = b
          /\ \A k \in Pos(new[b]) + 1 .. J : B[k] > b
          /\ new[b].marker => Pos(new[b]) = J
    BY <1>4 DEF Fits
  <1>9. ASSUME NEW k \in 0 .. J, NEW b \in DOMAIN new, b <= B[k] PROVE B[k] \in DOMAIN new
    <2>1. B[k] \in DOMAIN chain
      BY <1>4, <1>9 DEF Fits
    <2> QED
      BY <1>2, <1>3, <1>4, <1>9, <2>1
  <1>10. Fits(new, B, J)
    BY <1>4, <1>6, <1>7, <1>8, <1>9 DEF Fits
  <1>11. ASSUME NEW b \in DOMAIN chain PROVE \E c \in DOMAIN new : c <= b \/ c <= lsn + 1
    <2>1. CASE keep = INVALID
      BY <1>2, <1>4, <1>11, <2>1 DEF INVALID
    <2>2. CASE keep # INVALID
      BY <1>2, <1>3, <1>4, <2>2
    <2> QED
      BY <2>1, <2>2
  <1> QED
    BY <1>4, <1>6, <1>10, <1>11 DEF new

\* a set of chains that every command of a batch keeps is kept by the batch
LEMMA BatchKeeps ==
    ASSUME NEW S, NEW chain \in S, NEW C, NEW cmds \in Seq(C),
           \A x \in S : \A n \in 1 .. Len(cmds) : Apply(x, cmds[n]) \in S
    PROVE  ApplyBatch(chain, cmds) \in S
  <1> DEFINE L == Len(cmds)
             Step(g, n) == IF n = 0 THEN chain ELSE Apply(g[n - 1], cmds[n])
             Run(g, m) == g = [n \in 0 .. m |-> Step(g, n)]
  <1>1. L \in Nat
    OBVIOUS
  <1> HIDE DEF L
  <1>2. \E g : Run(g, L)
    <2> DEFINE Bad == {m \in 0 .. L : ~\E g : Run(g, m)}
    <2> SUFFICES ASSUME ~\E g : Run(g, L) PROVE FALSE
      OBVIOUS
    <2>1. L \in Bad /\ Bad \subseteq Nat /\ Bad \subseteq 0 .. L
      BY <1>1
    <2>2. PICK m \in Bad : \A l \in Bad : m <= l
      <3> HIDE DEF Bad
      <3> QED
        BY <2>1, LeastElement
    <2>3. CASE m = 0
      <3> DEFINE g == [n \in 0 .. 0 |-> chain]
      <3>1. Run(g, 0)
        OBVIOUS
      <3> QED
        BY <2>2, <2>3, <3>1
    <2>4. CASE m # 0
      <3>1. m - 1 \in 0 .. L /\ m \in Nat /\ m - 1 \notin Bad /\ m > 0
        <4> HIDE DEF Bad
        <4> QED
          BY <1>1, <2>1, <2>2, <2>4
      <3>2. PICK h : Run(h, m - 1)
        BY <3>1
      <3> DEFINE g == [n \in 0 .. m |-> IF n = m THEN Apply(h[m - 1], cmds[m]) ELSE h[n]]
      <3>3. ASSUME NEW n \in 0 .. m PROVE g[n] = Step(g, n)
        <4>1. CASE n = 0
          <5>1. g[0] = h[0] /\ h[0] = chain
            BY <3>1, <3>2
          <5> QED
            BY <4>1, <5>1
        <4>2. CASE n # 0
          <5>1. n - 1 \in 0 .. m - 1 /\ n - 1 \in 0 .. m /\ n - 1 # m
            BY <3>1, <4>2
          <5>2. g[n - 1] = h[n - 1]
            BY <5>1
          <5>3. CASE n = m
            BY <4>2, <5>2, <5>3
          <5>4. CASE n # m
            <6>1. n \in 0 .. m - 1
              BY <3>1, <5>4
            <6>2. h[n] = Step(h, n)
              BY <3>2, <6>1
            <6> QED
              BY <4>2, <5>2, <5>4, <6>2
          <5> QED
            BY <5>3, <5>4
        <4> QED
          BY <4>1, <4>2
      <3>4. Run(g, m)
        BY <3>3
      <3> QED
        BY <2>2, <3>4
    <2> QED
      BY <2>3, <2>4
  <1>3. PICK f : f = (CHOOSE g : Run(g, L))
    OBVIOUS
  <1>4. Run(f, L)
    BY <1>2, <1>3
  <1>5. ApplyBatch(chain, cmds) = f[L]
    BY <1>3 DEF ApplyBatch, L
  <1>6. \A n \in 0 .. L : f[n] = Step(f, n)
    BY <1>4
  <1>7. \A n \in 0 .. L : f[n] \in S
    <2> DEFINE Bad == {n \in 0 .. L : f[n] \notin S}
    <2> SUFFICES ASSUME Bad # {} PROVE FALSE
      OBVIOUS
    <2>1. Bad \subseteq Nat
      BY <1>1
    <2>2. PICK n \in Bad : \A l \in Bad : n <= l
      <3> HIDE DEF Bad
      <3> QED
        BY <2>1, LeastElement
    <2>3. CASE n = 0
      BY <1>6, <2>2, <2>3
    <2>4. CASE n # 0
      <3>1. n - 1 \in 0 .. L /\ n \in 1 .. L /\ n - 1 \notin Bad
        BY <1>1, <2>1, <2>2, <2>4
      <3>2. f[n - 1] \in S
        BY <3>1
      <3>3. Apply(f[n - 1], cmds[n]) \in S
        BY <3>1, <3>2 DEF L
      <3> QED
        BY <1>6, <2>2, <2>4, <3>3
    <2> QED
      BY <2>3, <2>4
  <1> QED
    BY <1>1, <1>5, <1>7
=============================================================================
