----------------------------- MODULE SigEngine -----------------------------
(***************************************************************************)
(* The signature engine of rust-clam (crates/sig-engine): wildcard byte    *)
(* patterns found by one literal anchor and verified around it, and exact  *)
(* digests of a whole buffer.  Buffers are sequences of small numbers; the *)
(* code's 0-based offsets are kept.  A digest is modelled by the buffer    *)
(* itself, so two buffers share a digest only when they are equal.         *)
(***************************************************************************)
EXTENDS Integers, Sequences, FiniteSets, SequencesExt

CONSTANT MaxGapSearch    \* MAX_GAP_SEARCH, the reach of an unbounded gap

ASSUME MaxGapSearchAssumption == MaxGapSearch \in Nat

(***************************************************************************)
(* The text of a pattern is a sequence of items: bytes, the wildcard ??,   *)
(* gaps, and anything the parser rejects.                                  *)
(***************************************************************************)
Wildcard == [wild |-> TRUE]
BadItem  == [bad |-> TRUE]
Byte(b)  == [byte |-> b]
Bounded(min, max) == [min |-> min, max |-> max]
Unbounded == Bounded(0, MaxGapSearch)

IsGap(i)  == "min" \in DOMAIN i
IsByte(i) == "byte" \in DOMAIN i

(* The segments lie between the gaps, the first and the last may be empty. *)
GapAt(pattern) ==
    LET seen[i \in 0..Len(pattern)] ==
            IF i = 0 THEN <<>>
            ELSE IF IsGap(pattern[i]) THEN Append(seen[i-1], i) ELSE seen[i-1]
    IN  seen[Len(pattern)]

SplitOnGaps(pattern) ==
    LET cut == <<0>> \o GapAt(pattern) \o <<Len(pattern) + 1>>
    IN  [segments |-> [k \in 1..(Len(cut) - 1) |-> SubSeq(pattern, cut[k] + 1, cut[k+1] - 1)],
         gaps     |-> [k \in 1..(Len(cut) - 2) |-> pattern[cut[k+1]]]]

(* Maximal runs of concrete bytes in a segment, as <<offset, length>>. *)
LiteralRuns(seg) ==
    LET Maximal(o, n) == /\ o + n <= Len(seg)
                         /\ \A i \in (o+1)..(o+n) : IsByte(seg[i])
                         /\ o > 0 => ~IsByte(seg[o])
                         /\ o + n < Len(seg) => ~IsByte(seg[o+n+1])
    IN  {r \in (0..Len(seg)) \X (1..Len(seg)) : Maximal(r[1], r[2])}

(* A later run, or a later segment, wins only when it is strictly longer. *)
LongestLiteralRun(seg) ==
    CHOOSE r \in LiteralRuns(seg) :
        \A q \in LiteralRuns(seg) : r[2] > q[2] \/ (r[2] = q[2] /\ r[1] <= q[1])

HasRun(sig) == {k \in DOMAIN sig.segments : LiteralRuns(sig.segments[k]) # {}}

AnchorSegment(sig) ==
    CHOOSE k \in HasRun(sig) :
        \A j \in HasRun(sig) :
            LET rk == LongestLiteralRun(sig.segments[k])[2]
                rj == LongestLiteralRun(sig.segments[j])[2]
            IN  rk > rj \/ (rk = rj /\ k <= j)

(* HexSignature::parse: malformed items and short anchors are refused. *)
ParseOk(pattern) ==
    LET sig == SplitOnGaps(pattern)
    IN  /\ \A i \in DOMAIN pattern : pattern[i] # BadItem
        /\ \E k \in HasRun(sig) : LongestLiteralRun(sig.segments[k])[2] >= 2

Parse(pattern) ==
    LET sig == SplitOnGaps(pattern)
        a   == AnchorSegment(sig)
        run == LongestLiteralRun(sig.segments[a])
    IN  [segments |-> sig.segments, gaps |-> sig.gaps, anchorSegment |-> a,
         anchorOffset |-> run[1],
         anchorLiteral |-> SubSeq(sig.segments[a], run[1] + 1, run[1] + run[2])]

MatchesAt(seg, buf, pos) ==
    /\ pos + Len(seg) <= Len(buf)
    /\ \A i \in DOMAIN seg : seg[i] = Wildcard \/ buf[pos + i] = seg[i].byte

None == -1

(* The nearest place after the cursor: the first one in the gap's range. *)
FindForward(buf, seg, after, gap) ==
    LET end == IF after + gap.max < Len(buf) THEN after + gap.max ELSE Len(buf)
        at  == {pos \in (after + gap.min)..end : MatchesAt(seg, buf, pos)}
    IN  IF at = {} THEN None ELSE CHOOSE p \in at : \A q \in at : p <= q

(* The nearest place before the cursor, and none if the gap does not fit. *)
FindBackward(buf, seg, before, gap) ==
    LET latest   == before - (gap.min + Len(seg))
        earliest == IF before > gap.max + Len(seg) THEN before - (gap.max + Len(seg)) ELSE 0
        at       == {pos \in earliest..latest : MatchesAt(seg, buf, pos)}
    IN  IF at = {} THEN None ELSE CHOOSE p \in at : \A q \in at : p >= q

(* Walk from the anchor to the end of the pattern, j segments so far: the    *)
(* end, or None.                                                             *)
WalkForward(sig, buf, start) ==
    LET steps == Len(sig.gaps) - sig.anchorSegment + 1
        end[j \in 0..steps] ==
            IF j = 0 THEN start + Len(sig.segments[sig.anchorSegment])
            ELSE LET k     == sig.anchorSegment + j
                     after == end[j-1]
                     pos   == FindForward(buf, sig.segments[k], after, sig.gaps[k-1])
                 IN  IF after = None \/ pos = None THEN None ELSE pos + Len(sig.segments[k])
    IN  end[steps]

(* Walk from the anchor back to the start of the pattern, j segments so far: *)
(* the start, or None.                                                       *)
WalkBackward(sig, buf, start) ==
    LET begin[j \in 0..(sig.anchorSegment - 1)] ==
            IF j = 0 THEN start
            ELSE LET k      == sig.anchorSegment - j
                     before == begin[j-1]
                 IN  IF before = None THEN None
                     ELSE FindBackward(buf, sig.segments[k], before, sig.gaps[k])
    IN  begin[sig.anchorSegment - 1]

Verify(sig, buf, anchorPos) ==
    LET start == anchorPos - sig.anchorOffset
    IN  IF \/ start < 0
           \/ ~MatchesAt(sig.segments[sig.anchorSegment], buf, start)
           \/ WalkForward(sig, buf, start) = None
        THEN None ELSE WalkBackward(sig, buf, start)

(* Mutant: only the leftmost occurrence of the anchor is verified. *)
AnchorHitsLeftmost(sig, buf) ==
    {pos \in 0..Len(buf) :
        /\ MatchesAt(sig.anchorLiteral, buf, pos)
        /\ \A q \in 0..(pos-1) : ~MatchesAt(sig.anchorLiteral, buf, q)}

(* Every occurrence, overlapping ones too, of the anchor is a candidate. *)
AnchorHits(sig, buf) ==
    {pos \in 0..Len(buf) : MatchesAt(sig.anchorLiteral, buf, pos)}

(* The hash database maps a digest to the size its line states, which the *)
(* buffer must have when one is stated; a later line replaces an earlier. *)
AnySize == -1
AddLine(db, line) == (line[1] :> line[2]) @@ db
LoadHdb(lines) == FoldLeft(AddLine, [b \in {} |-> AnySize], lines)
HashHit(db, buf) == buf \in DOMAIN db /\ db[buf] \in {AnySize, Len(buf)}

(* load_ndb refuses its whole file for one bad line. *)
LoadsNdb(patterns) == \A p \in patterns : ParseOk(p)
Engine(patterns, lines) == [hex |-> {Parse(p) : p \in patterns}, hash |-> LoadHdb(lines)]

ScanBuffer(engine, buf) ==
    \/ HashHit(engine.hash, buf)
    \/ \E sig \in engine.hex : \E pos \in AnchorHits(sig, buf) : Verify(sig, buf, pos) # None

(***************************************************************************)
(* What a pattern means, without an anchor or a walk: some placement of    *)
(* all its segments at distances the gaps allow.                           *)
(***************************************************************************)
Occurs(pattern, buf) ==
    LET sig == SplitOnGaps(pattern)
        n   == Len(sig.segments)
    IN  \E at \in [1..n -> 0..Len(buf)] :
            /\ \A k \in 1..n : MatchesAt(sig.segments[k], buf, at[k])
            /\ \A k \in 1..(n-1) :
                  LET skipped == at[k+1] - (at[k] + Len(sig.segments[k]))
                  IN  skipped \in sig.gaps[k].min..sig.gaps[k].max
=============================================================================
