----------------------------- MODULE Estimators -----------------------------
(***************************************************************************)
(* What the learning loop computes from settled forecasts: the calibration *)
(* map, the edge shrinkage, the cap on correlated components, the causes   *)
(* of a miss, and the calibration error that opens a drift incident.       *)
(*                                                                         *)
(* Probabilities are whole percents, read off downwards.  A fold's gain in *)
(* log loss, which decides whether a fit is adopted, is an input.          *)
(***************************************************************************)
EXTENDS Integers, Sequences, FiniteSets, SequencesExt, FiniteSetsExt

CONSTANTS
    MinimumCalibration,  \* MINIMUM_CALIBRATION_SAMPLE
    MinimumWeights,      \* MINIMUM_WEIGHT_SAMPLE
    MinimumShrink,       \* MINIMUM_SHRINK_SAMPLE
    ShrinkPrior,         \* _SHRINK_PRIOR: the sample that moves a forecast halfway
    Curves,              \* the logistic curves a Platt fit may find:
    ReadCurve(_, _),     \* order preserving, since the slope is at least 0.05
    Gains                \* per-fold reductions of the log loss, in thousandths

ASSUME EstimatorsAssumption ==
    /\ {MinimumCalibration, MinimumWeights, MinimumShrink} \subseteq Nat \ {0}
    /\ ShrinkPrior \in Nat /\ Gains \subseteq Int
    /\ Curves \cap {"identity", "isotonic"} = {}
    /\ \A c \in Curves : /\ \A p \in 0..100 : ReadCurve(c, p) \in 0..100
                         /\ \A p \in 1..100 : ReadCurve(c, p - 1) <= ReadCurve(c, p)

Magnitude(n) == IF n < 0 THEN -n ELSE n
Clip(n, low, high) == Max({low, Min({high, n})})
Sum(f, S) == MapThenSumSet(LAMBDA i : f[i], S)

-----------------------------------------------------------------------------
(* Calibration.  A point is a settled forecast: x, the raw percent of the  *)
(* over, and y, whether the over landed.  A block is a set of points.      *)

Hits(S) == MapThenSumSet(LAMBDA o : o.y, S)
Mass(S) == MapThenSumSet(LAMBDA o : o.x, S)
Over(S, T) == Hits(S) * Cardinality(T) > Hits(T) * Cardinality(S)

\* Blocks k+1 to the last and b, merged.
Merged(blocks, b, k) == b \cup UNION ToSet(SubSeq(blocks, k + 1, Len(blocks)))

\* Mutation: a new block is merged with its neighbour once, not as long as it must be.
PushOnce(blocks, b) ==
    LET n == Len(blocks)
        k == IF n > 0 /\ Over(blocks[n], b) THEN n - 1 ELSE n
    IN  Append(SubSeq(blocks, 1, k), Merged(blocks, b, k))

\* Merge a new block with those before it, while the one before is higher.
Push(blocks, b) ==
    LET Rest(k) == k = 0 \/ ~Over(blocks[k], Merged(blocks, b, k))
        k == Max({i \in 0..Len(blocks) : Rest(i)})
    IN  Append(SubSeq(blocks, 1, k), Merged(blocks, b, k))

\* Pool adjacent violators; points of one x are pooled before the pass.
Blocks(points) ==
    MapThenFoldSet(LAMBDA column, blocks : Push(blocks, column), <<>>,
                   LAMBDA x : {o \in points : o.x = x}, Max, {o.x : o \in points})

Centroid(S) == <<Mass(S) \div Cardinality(S), (100 * Hits(S)) \div Cardinality(S)>>
FitIsotonic(points) == LET blocks == Blocks(points) IN [i \in DOMAIN blocks |-> Centroid(blocks[i])]

Interpolate(knots, p) ==
    LET n == Len(knots)
        i == Min({j \in 1..n : p <= knots[j][1]})
        left == knots[i - 1]
        right == knots[i]
    IN  IF p <= knots[1][1] THEN knots[1][2]
        ELSE IF p >= knots[n][1] THEN knots[n][2]
        ELSE IF right[1] = left[1] THEN right[2]
        ELSE left[2] + ((p - left[1]) * (right[2] - left[2])) \div (right[1] - left[1])

\* A map's method is "identity", "isotonic" or a curve.
Identity(n) == [method |-> "identity", size |-> n, knots |-> <<>>]

Apply(map, p) ==
    LET fitted == IF map.method = "isotonic" THEN Interpolate(map.knots, p)
                                             ELSE ReadCurve(map.method, p)
        blended == (map.size * fitted + ShrinkPrior * p) \div (map.size + ShrinkPrior)
    IN  IF map.method = "identity" THEN p ELSE Clip(blended, 1, 99)

-----------------------------------------------------------------------------
(* Adoption: a fit is refused unless its gain is more than luck would give *)
(* and shows in four folds of five.                                        *)

Folds == 1..5
Total(gains) == Sum(gains, Folds)
Consistent(gains) == Cardinality({i \in Folds : gains[i] > 0}) >= 4
Better(g, h) == IF Total(h) > Total(g) THEN h ELSE g

\* What the folds may say of an isotonic and of a Platt fit; a tie is isotonic's.
Verdicts ==
    {LET better == Better(g, h)
     IN  IF Total(better) <= 2 * 5 \/ ~Consistent(better) THEN "identity"
         ELSE IF better = g THEN "isotonic" ELSE "platt" :
     g \in [Folds -> Gains], h \in [Folds -> Gains]}

\* The maps that may be fitted to the points of one market.
Calibrations(points) ==
    LET n == Cardinality(points)
    IN  {Identity(n)} \cup
        (IF n < MinimumCalibration THEN {}
         ELSE {[Identity(n) EXCEPT !.method = "isotonic", !.knots = FitIsotonic(points)] :
                  v \in Verdicts \cap {"isotonic"}}
              \cup {[Identity(n) EXCEPT !.method = c] : c \in IF "platt" \in Verdicts THEN Curves ELSE {}})

-----------------------------------------------------------------------------
(* The ensemble: weights of the components, in percent.                    *)

Prior == [empirical |-> 30, hierarchical |-> 20, player_state |-> 12,
          opportunity_conversion |-> 18, market_prior |-> 20]
Name == DOMAIN Prior

\* Components whose answers correlate, directly or through others.
Families(pairs) ==
    FoldSet(LAMBDA pair, fams : LET met == {f \in fams : f \cap pair # {}}
                                IN  (fams \ met) \cup {pair \cup UNION met}, {}, pairs)

\* The hard cap: a family that exceeds its prior weight is scaled back to it,
\* and the rest shares what it had too much of.
Capped(v, pairs) ==
    LET full == {f \in Families(pairs) : Sum(v, f) > Sum(Prior, f)}
        held == UNION full
        rest == Name \ held
        excess == MapThenSumSet(LAMBDA f : Sum(v, f) - Sum(Prior, f), full)
        Scaled(i) == LET f == CHOOSE g \in full : i \in g IN (v[i] * Sum(Prior, f)) \div Sum(v, f)
    IN  [i \in Name |-> IF i \in held THEN Scaled(i)
                        ELSE v[i] + (excess * Prior[i]) \div Sum(Prior, rest)]

\* The holdout must be beaten twice: the prior weights and the base rate.
WeightsAdopted ==
    \E g \in [Folds -> Gains], h \in [Folds -> Gains] :
        Total(g) > 2 * 5 /\ Total(h) > 0 /\ Consistent(g) /\ Consistent(h)

\* The weights that may be fitted to n answers, from the optimiser's `found`.
WeightFits(n, found) ==
    {[size |-> n, weights |-> Prior, pairs |-> {}]} \cup
    (IF n >= MinimumWeights /\ WeightsAdopted
       THEN {[size |-> n, weights |-> Capped(f.v, f.pairs), pairs |-> f.pairs] : f \in found}
       ELSE {})

-----------------------------------------------------------------------------
(* The share of a stated edge that shows up in results, in percent, from   *)
(* points of the side taken.                                               *)

Shrinkage(points) ==
    LET n == Cardinality(points)
        Off(o) == n * o.x - Mass(points)
        spread == MapThenSumSet(LAMBDA o : Off(o) * Off(o), points)
        signal == MapThenSumSet(LAMBDA o : (2 * o.y - 1) * Off(o), points)
    IN  IF n < MinimumShrink THEN [size |-> 0, factor |-> 50]
        ELSE [size |-> n, factor |-> IF spread = 0 THEN 0
                                     ELSE Clip((5000 * n * signal) \div spread, 0, 100)]

-----------------------------------------------------------------------------
(* Evaluation.  The calibration error of n answers is `gap` / n percent.   *)

Bucket(p) == Min({9, p \div 10})
Gap(points) ==
    MapThenSumSet(LAMBDA b : LET S == {o \in points : Bucket(o.x) = b}
                             IN  Magnitude(Mass(S) - 100 * Hits(S)), 0..9)
Exceeds(points, percent) == Gap(points) > percent * Cardinality(points)

\* The scores of the candidate causes of a miss, in thousandths of the old
\* threshold: `r` compares a forecast with the box score.
Scores(r) ==
    LET minutesError == r.minutes - r.projectedMinutes
        residual == r.projectedMinutes * (r.stat - r.projected) - minutesError * r.projected
        tolerance == Max({40, 3 * r.projected})   \* in tenths
    IN  [minutes_projection |-> 200 * Magnitude(minutesError),
         rate_or_efficiency |-> (10000 * Magnitude(residual)) \div (r.projectedMinutes * tolerance),
         market_movement    |-> IF r.lineValue <= -1 THEN 1000 * Magnitude(r.lineValue) ELSE 0,
         data_quality       |-> IF r.quality < 90 THEN 100 * (90 - r.quality) ELSE 0]

\* Ties go to the cause listed first.
Rank == <<"minutes_projection", "rate_or_efficiency", "market_movement", "data_quality">>
Loudest(scores, S) ==
    CHOOSE c \in S : \A d \in S : \/ scores[d] < scores[c]
                                  \/ scores[d] = scores[c] /\ SelectInSeq(Rank, LAMBDA x : x = c)
                                                                <= SelectInSeq(Rank, LAMBDA x : x = d)
Second(scores, S) == IF S = {} THEN "none" ELSE Loudest(scores, S)

\* classify_error: the loudest nameable cause and the one beneath it.
Causes(r) ==
    LET scores == Scores(r)
        named == {c \in ToSet(Rank) : scores[c] >= 1000}
        first == Loudest(scores, named)
    IN  IF named # {} THEN [primary |-> first, secondary |-> Second(scores, named \ {first}), avoidable |-> TRUE]
        ELSE IF ~r.hit /\ 2 * Magnitude(r.p - 50) >= 50
        THEN [primary |-> "modeling", secondary |-> Loudest(scores, ToSet(Rank)), avoidable |-> TRUE]
        ELSE [primary |-> "random_variance", secondary |-> "none", avoidable |-> FALSE]
=============================================================================
