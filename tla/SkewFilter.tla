----------------------------- MODULE SkewFilter -----------------------------
(***************************************************************************)
(* CMOOSSkewFilter and CConvexEnvelope: the clock skew between client and  *)
(* server is bounded from below and above by two piecewise linear          *)
(* envelopes, each grown at its end by AddPoint and merged back while it   *)
(* bends the wrong way.  Times and skews are integers, a slope is the pair *)
(* of differences between the ends of its segment; the smoothing filter's  *)
(* output, a weighted mean that nothing else reads, is left out.           *)
(***************************************************************************)
EXTENDS Integers, Sequences, SequencesExt

CONSTANTS SkewVals,      \* measured skews
          MaxSegs,       \* number of segments past which the front is cropped (500)
          MaxPeriod,     \* dfMaxPeriod_s
          StableAfter,   \* measurements after which an envelope is stable (50)
          EarlyMeas,     \* measurements during which the upper bound is not trusted (10)
          MaxMeas        \* bound: calls of Update

ASSUME SkewAssumption == SkewVals \subseteq Int

VARIABLES lower,         \* m_LowerBound
          upper,         \* m_UpperBound
          skewLast,      \* m_dfLastTime
          skewMeas,      \* m_nMeas
          skewFrom,      \* the envelopes the last estimate was made from
          skewHung,      \* CropFrontBefore does not return
          lowerPts,      \* history: points in the lower envelope since it was last reset
          upperPts       \* history: the same of the upper envelope

skewVars == <<lower, upper, skewLast, skewMeas, skewFrom, skewHung, lowerPts, upperPts>>

Pt(a, b) == [x |-> a, y |-> b]

EmptyEnvelope == [segs |-> <<>>, have |-> FALSE, init |-> Pt(0, 0), longest |-> 0, len |-> 0, meas |-> 0]

SkewInit ==
    /\ lower = EmptyEnvelope /\ upper = EmptyEnvelope /\ skewLast = 0 /\ skewMeas = 0
    /\ skewFrom = {} /\ skewHung = FALSE /\ lowerPts = {} /\ upperPts = {}

----------------------------------------------------------------------------
(* CConvexEnvelope.  m_uiLongestSegID counts from 0. *)

MakeSeg(p, q) == [p1 |-> p, p2 |-> q, period |-> IF q.x > p.x THEN q.x - p.x ELSE p.x - q.x]

\* dfM of s < dfM of t, for segments that run forward in time.
Flatter(s, t) == (s.p2.y - s.p1.y) * (t.p2.x - t.p1.x) < (t.p2.y - t.p1.y) * (s.p2.x - s.p1.x)

GetLongestSeg(e) == e.segs[e.longest + 1]
HasLongest(e) == e.longest < Len(e.segs)

AppendSeg(e, s) ==
    LET f == [e EXCEPT !.segs = Append(@, s)] IN
    IF ~HasLongest(f) THEN [f EXCEPT !.longest = 0, !.len = s.period]
    ELSE IF GetLongestSeg(f).period < s.period
    THEN [f EXCEPT !.longest = Len(f.segs) - 1, !.len = s.period]
    ELSE f

\* Mutant: a merge does not look again for the longest segment.
MergeOnly(e, merged) == [e EXCEPT !.segs = Append(SubSeq(@, 1, Len(@) - 2), merged)]

MergeTwo(e, merged) ==
    LET len == IF e.longest >= Len(e.segs) - 1 THEN 0 ELSE e.len
        f   == [e EXCEPT !.segs = Append(SubSeq(@, 1, Len(@) - 2), merged), !.len = len] IN
    IF merged.period > len THEN [f EXCEPT !.longest = Len(f.segs) - 1, !.len = merged.period] ELSE f

\* The last segment may be merged with the one before it.
CanMerge(e, above) ==
    /\ Len(e.segs) > 1
    /\ LET s == e.segs[Len(e.segs) - 1]
           t == Last(e.segs) IN
       IF above THEN ~Flatter(t, s) ELSE ~Flatter(s, t)

MergeLastSeg(e) ==
    LET s == e.segs[Len(e.segs) - 1]
        t == Last(e.segs) IN
    MergeTwo(e, [MakeSeg(s.p1, t.p2) EXCEPT !.period = s.period + t.period])

\* Mutant: the last segment is merged at most once for each point.
MergeOnce(e, above) == IF CanMerge(e, above) THEN MergeLastSeg(e) ELSE e

\* As many merges as there are, one segment fewer after each.
MergeAll(e, above) ==
    LET Merged[k \in 0 .. Len(e.segs)] ==
            IF k = 0 THEN e
            ELSE LET f == Merged[k - 1] IN IF CanMerge(f, above) THEN MergeLastSeg(f) ELSE f
    IN  Merged[Len(e.segs)]

\* A second point at the time of the first makes AddPoint fail, and UpdateEnvelopes then starts afresh.
AddPoint(e, p, above) ==
    IF ~e.have THEN [e EXCEPT !.have = TRUE, !.init = p]
    ELSE IF e.init.x = p.x THEN EmptyEnvelope
    ELSE LET f == MergeAll(AppendSeg(e, MakeSeg(e.init, p)), above) IN
         [f EXCEPT !.init = p, !.meas = @ + 1]

Points(e, pts, p) ==
    IF ~e.have THEN {p} ELSE IF e.init.x = p.x THEN {} ELSE pts \cup {p}

IsStable(e) == e.meas > StableAfter

\* The loop looks at the front segment again and again, and ends only when it has removed all
\* segments before the longest.
CropReturns(e, from) == \A i \in 1 .. e.longest : e.segs[i].p2.x < from
CropFrontBefore(e, from) == [e EXCEPT !.segs = SubSeq(@, e.longest + 1, Len(@)), !.longest = 0]

Crop(e, from) ==
    IF Len(e.segs) > MaxSegs /\ CropReturns(e, from) THEN CropFrontBefore(e, from) ELSE e

----------------------------------------------------------------------------
(* CMOOSSkewFilter. *)

\* GetLineEstimate at tx, as a fraction; before there are segments it is the first point.
LineAt(e, tx) ==
    IF ~HasLongest(e) THEN [num |-> e.init.y, den |-> 1]
    ELSE LET s == GetLongestSeg(e) IN
         [num |-> s.p1.y * (s.p2.x - s.p1.x) + (s.p2.y - s.p1.y) * (tx - s.p1.x), den |-> s.p2.x - s.p1.x]

AtMost(f, g) == f.num * g.den <= g.num * f.den

\* What the estimate of the skew is made from: the envelopes that are stable, or this measurement.
Sources(l, u, tx) ==
    CASE IsStable(l) -> IF IsStable(u) /\ AtMost(LineAt(l, tx), LineAt(u, tx))
                        THEN {"lower envelope", "upper envelope"} ELSE {"lower envelope"}
      [] ~IsStable(l) /\ IsStable(u) -> {"upper envelope"}
      [] OTHER -> IF skewMeas < EarlyMeas THEN {"lower"} ELSE {"lower", "upper"}

\* Update: tx is the server's clock, which does not go back; a request takes rtt to be answered.
Update(tx, skewLB, rtt) ==
    LET l == AddPoint(lower, Pt(tx, skewLB), TRUE)
        u == AddPoint(upper, Pt(tx, skewLB + rtt), FALSE) IN
    /\ ~skewHung /\ skewMeas < MaxMeas /\ tx >= skewLast
    /\ skewFrom' = Sources(l, u, tx)
    /\ skewHung' = \E e \in {l, u} : Len(e.segs) > MaxSegs /\ ~CropReturns(e, tx - MaxPeriod)
    /\ lower' = Crop(l, tx - MaxPeriod) /\ upper' = Crop(u, tx - MaxPeriod)
    /\ lowerPts' = Points(lower, lowerPts, Pt(tx, skewLB))
    /\ upperPts' = Points(upper, upperPts, Pt(tx, skewLB + rtt))
    /\ skewLast' = tx /\ skewMeas' = skewMeas + 1

SkewNext == \E dt \in {0, 1, 3}, lb \in SkewVals, rtt \in {1, 2} : Update(skewLast + dt, lb, rtt)

SkewSpec == SkewInit /\ [][SkewNext]_skewVars

----------------------------------------------------------------------------
(* s is on or above the point p. *)
Above(s, p) == (p.y - s.p1.y) * (s.p2.x - s.p1.x) <= (s.p2.y - s.p1.y) * (p.x - s.p1.x)
Below(s, p) == (p.y - s.p1.y) * (s.p2.x - s.p1.x) >= (s.p2.y - s.p1.y) * (p.x - s.p1.x)

\* The points an envelope still stands for: those not before its first segment.
Kept(e, pts) == {p \in pts : e.segs # <<>> /\ p.x >= e.segs[1].p1.x}

(* AddPoint, CropFrontBefore: each segment, over its whole line and not only between its ends, is on
   the right side of every point taken in and not cropped, so each line bounds the skew at any time. *)
EnvelopesBound ==
    /\ \A i \in 1 .. Len(lower.segs) : \A p \in Kept(lower, lowerPts) : Above(lower.segs[i], p)
    /\ \A i \in 1 .. Len(upper.segs) : \A p \in Kept(upper, upperPts) : Below(upper.segs[i], p)

(* GetLineEstimate: whenever there are segments m_uiLongestSegID names one of them, after any number
   of appends, merges, crops and resets; otherwise the estimate would be a flat line through the
   last point. *)
EstimateHasASegment == \A e \in {lower, upper} : e.segs # <<>> => HasLongest(e)

(* AppendSeg, MergeLastSeg: the segment the estimate is read from, which the crop must keep, is a
   longest one. *)
LongestIsLongest ==
    \A e \in {lower, upper} :
        \A i \in 1 .. Len(e.segs) : HasLongest(e) => e.segs[i].period <= GetLongestSeg(e).period

(* CropFrontBefore, as its comment has it, removes the segments before a time and leaves the longest:
   the call returns. *)
CropFrontReturns == ~skewHung

(* All that is promised of the envelopes the skew is estimated from. *)
SkewIsBounded == EnvelopesBound /\ EstimateHasASegment
=============================================================================
