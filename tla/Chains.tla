------------------------------- MODULE Chains -------------------------------
(***************************************************************************)
(* The chain of a log (types/src/logs/metadata.rs, builder.rs): a function *)
(* from base LSNs to the segment that starts there.  The seal marker is a  *)
(* segment that has the index of the segment it seals.                     *)
(***************************************************************************)
EXTENDS Integers, Sequences, FiniteSetsExt

OLDEST == 1     \* Lsn::OLDEST and LogletOffset::OLDEST

INVALID == 0

\* LSN of a loglet's offset, and the other way round
OffsetBy(base, offset) == base + offset - OLDEST

IntoOffset(lsn, base) == lsn - base + OLDEST

Loglet(i) == [index |-> i, marker |-> FALSE]

Marker(i) == [index |-> i, marker |-> TRUE]

TailBase(chain) == Max(DOMAIN chain)

TailIndex(chain) == chain[TailBase(chain)].index

IsSealed(chain) == chain[TailBase(chain)].marker

\* find_segment_for_lsn: the base of the segment, or INVALID if it is trimmed
SegmentFor(chain, lsn) ==
    LET below == {b \in DOMAIN chain : b <= lsn} IN IF below = {} THEN INVALID ELSE Max(below)

\* tail_lsn of the segment that starts at base: where the next one starts, if any
TailLsn(chain, base) ==
    LET later == {b \in DOMAIN chain : b > base} IN IF later = {} THEN INVALID ELSE Min(later)

Put(chain, lsn, segment) ==
    [b \in DOMAIN chain \cup {lsn} |-> IF b = lsn THEN segment ELSE chain[b]]

\* mutant: the new segment may start anywhere after a seal marker
MayExtend_past_marker(chain, cmd) ==
    TailIndex(chain) = cmd.seg /\ cmd.lsn >= TailBase(chain)

\* extend_log_chain and append_segment: only a marker's own LSN may replace it
MayExtend(chain, cmd) ==
    /\ TailIndex(chain) = cmd.seg
    /\ IsSealed(chain) => cmd.lsn = TailBase(chain)
    /\ cmd.lsn >= TailBase(chain)

\* seal_log_chain and ChainBuilder::seal: a sealed chain stays as it is
MaySeal(chain, cmd) ==
    /\ TailIndex(chain) = cmd.seg
    /\ ~IsSealed(chain)
    /\ cmd.lsn >= TailBase(chain)

\* mutant: one LSN too many
Trimmed_one_more(chain, lsn) ==
    LET keep == SegmentFor(chain, lsn + 2)
    IN  [b \in {b \in DOMAIN chain : b >= keep} |-> chain[b]]

\* mutant: the tail segment is not protected
Trimmed_tail_too(chain, lsn) ==
    [b \in {b \in DOMAIN chain : b > lsn} |-> chain[b]]

\* trim_prefix: drop the segments before the one of the first LSN that is kept
Trimmed(chain, lsn) ==
    LET keep == SegmentFor(chain, lsn + 1)
    IN  [b \in {b \in DOMAIN chain : b >= keep} |-> chain[b]]

Apply(chain, cmd) ==
    CASE cmd.op = "extend" /\ MayExtend(chain, cmd) ->
            Put(chain, cmd.lsn, Loglet(cmd.seg + 1))
      [] cmd.op = "seal" /\ MaySeal(chain, cmd) ->
            Put(chain, cmd.lsn, Marker(cmd.seg))
      [] cmd.op = "trim" -> Trimmed(chain, cmd.lsn)
      [] OTHER -> chain

\* the modification of run_inner: the commands of a batch, in their order
ApplyBatch(chain, cmds) ==
    LET after[n \in 0 .. Len(cmds)] == IF n = 0 THEN chain ELSE Apply(after[n - 1], cmds[n])
    IN  after[Len(cmds)]

\* LogletWrapper::get_trim_point: within the segment if that is closed
SegmentTrimPoint(chain, base, trimPoint) ==
    LET end == TailLsn(chain, base)
        point == OffsetBy(base, trimPoint[chain[base].index])
    IN  IF end = INVALID THEN point ELSE Min({point, end - 1})

\* get_trim_point: of the last segment before the first that was never trimmed
GetTrimPoint(chain, trimPoint) ==
    LET untrimmed == {b \in DOMAIN chain : chain[b].marker \/ trimPoint[chain[b].index] = INVALID}
        found == {b \in DOMAIN chain : \A u \in untrimmed : b < u}
    IN  IF found = {} THEN INVALID ELSE SegmentTrimPoint(chain, Max(found), trimPoint)
=============================================================================
