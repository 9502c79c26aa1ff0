------------------------------ MODULE Learning ------------------------------
(***************************************************************************)
(* The closed loop of the learning desk: forecasts are written with the    *)
(* parameters and the drift guard of their moment, games are played, and   *)
(* the settlement unit evaluates the model and refits its parameters on    *)
(* the settled record, while the owner may type a fit of his own.          *)
(*                                                                         *)
(* A command reads the tables, computes, and commits; the record may grow  *)
(* in between, and a process may be killed anywhere.  Two fits meet on the *)
(* rows they supersede.                                                    *)
(***************************************************************************)
EXTENDS Estimators, SampleShape

CONSTANTS
    Prop, PropOf,        \* [Market -> Prop]
    RawOf,               \* [Episode -> percent]: what the scorer says of the over
    Component,           \* components evaluated on their own
    AnswerOf,            \* [Component -> [Episode -> percent]]
    Boxes,               \* [Market -> what its box score may say: [minutes, stat], or Void]
    Line, Projected, ProjectedMinutes, Quality,    \* of every forecast
    ClosingOf,           \* [Market -> Int]: the line it closed at
    Found,               \* weight vectors the optimiser may find, with their
                         \* correlated pairs
    MinimumSample,       \* MINIMUM_SAMPLE, in independent markets
    Page,                \* attributions of one evaluation: LIMIT 2000
    Nightly, Timer, Cli, \* the units' processes and the owner's
    None, Void,
    MaxFits,             \* bound: fits begun
    MaxKills             \* bound: processes killed

ASSUME LearningAssumption ==
    /\ Episode = 1..Cardinality(Episode)    \* in the order they are forecast
    /\ PropOf \in [Market -> Prop] /\ RawOf \in [Episode -> 0..100]
    /\ AnswerOf \in [Component -> [Episode -> 0..100]] /\ IsFiniteSet(Component)
    /\ Page \in Nat \ {0} /\ MinimumSample \in Nat
    \* The optimiser's vector is projected onto the simplex before it is capped.
    /\ \A f \in Found : /\ f.v \in [Name -> Nat] /\ Sum(f.v, Name) = 100
                        /\ f.pairs \subseteq {pair \in SUBSET Name : Cardinality(pair) = 2}

VARIABLES
    made,       \* decision_episodes: what was forecast, with which guard
    box,        \* [Market -> box score]
    cause,      \* error_attributions
    verdict,    \* model_evaluations, the newest of each series
    incidents,  \* drift_incidents, in the order they were opened
    rows,       \* fitted_parameters: [Kind \X market -> Seq of rows]
    job,        \* what each process is doing
    fits, kills

tables == <<cause, verdict, incidents, rows>>
vars == <<made, box, tables, job, fits, kills>>

-----------------------------------------------------------------------------
Series == {"ensemble"} \cup Component
Kind == {"calibration_map", "ensemble_weights", "edge_shrinkage"}
All == "__all__"                           \* DEFAULT_MARKET
Key == Kind \X (Prop \cup {All})
Process == {Nightly, Timer, Cli}

Idle == [cmd |-> "none", stage |-> "idle", seen |-> {}, at |-> 0, map |-> Identity(0), guard |-> 0]

Made == {e \in Episode : made[e] # None}
\* Scoreable: neither voided nor pushed.
Settled == {e \in Made : box[MarketOf[e]] \notin {None, Void} /\ box[MarketOf[e]].stat # Line}

\* The last forecast of each market.
Latest(S) == {e \in S : \A f \in S : MarketOf[f] = MarketOf[e] => f <= e}

OverLanded(e) == box[MarketOf[e]].stat > Line
Hit(e) == (made[e].side = "over") = OverLanded(e)
OfSide(e, over) == IF made[e].side = "over" THEN over ELSE 100 - over
Bit(b) == IF b THEN 1 ELSE 0

\* What a series said of the side taken, against what happened.
Answer(series, e) == IF series = "ensemble" THEN made[e].p ELSE OfSide(e, AnswerOf[series][e])
Points(series, S) == {[e |-> e, x |-> Answer(series, e), y |-> Bit(Hit(e))] : e \in Latest(S)}

\* Raw answers for the over, which calibration is fitted on.
RawPoints(S) == {[e |-> e, x |-> RawOf[e], y |-> Bit(OverLanded(e))] : e \in Latest(S)}

-----------------------------------------------------------------------------
(* The live parameters and the guard, as a forecast run loads them.        *)

Live(k) == {i \in DOMAIN rows[k] : rows[k][i].live}
Has(k) == Live(k) # {}
ValueOf(k) == rows[k][Max(Live(k))].value

\* A market's own row, else the pool's, else the identity.
CalibrationFor(prop) ==
    IF Has(<<"calibration_map", prop>>) THEN ValueOf(<<"calibration_map", prop>>)
    ELSE IF Has(<<"calibration_map", All>>) THEN ValueOf(<<"calibration_map", All>>)
    ELSE Identity(0)

Open(c) == {i \in DOMAIN incidents : incidents[i].open /\ incidents[i].series = c}

\* The strongest open incident, as the percent it takes from every edge.
DriftGuard ==
    LET open == {incidents[i] : i \in UNION {Open(c) : c \in Series}}
    IN  IF open = {} THEN 0
        ELSE IF \E d \in open : d.severity = "blocking" THEN 50 ELSE 25

\* A calibrated percent as it is recorded: the side and its guarded share.
Recorded(over, guard) ==
    LET selected == Max({over, 100 - over})
    IN  [side |-> IF over >= 50 THEN "over" ELSE "under", over |-> over, guard |-> guard,
         p |-> 50 + ((selected - 50) * (100 - guard)) \div 100]

-----------------------------------------------------------------------------
Start(p, cmd, seen) == job' = [job EXCEPT ![p] = [Idle EXCEPT !.cmd = cmd, !.stage = "read", !.seen = seen]]
At(p, cmd, stage) == job[p].cmd = cmd /\ job[p].stage = stage
End(p) == job' = [job EXCEPT ![p] = Idle]

\* A forecast run takes the next episode's parameters and guard.
Load ==
    LET e == Cardinality(Made) + 1
    IN  /\ job[Timer] = Idle /\ e \in Episode
        /\ box[MarketOf[e]] = None
        /\ job' = [job EXCEPT ![Timer] = [Idle EXCEPT !.cmd = "forecast", !.stage = "read",
               !.map = CalibrationFor(PropOf[MarketOf[e]]), !.guard = DriftGuard]]
        /\ UNCHANGED <<made, box, tables, fits, kills>>

Record ==
    LET e == Cardinality(Made) + 1
    IN  /\ At(Timer, "forecast", "read")
        /\ made' = [made EXCEPT ![e] = Recorded(Apply(job[Timer].map, RawOf[e]), job[Timer].guard)]
        /\ End(Timer)
        /\ UNCHANGED <<box, tables, fits, kills>>

\* A game is played and settled: hours after the last run that could price it.
Play(m) ==
    /\ box[m] = None /\ job[Timer] = Idle
    /\ {e \in Episode : MarketOf[e] = m} \subseteq Made
    /\ \E r \in Boxes[m] : box' = [box EXCEPT ![m] = r]
    /\ UNCHANGED <<made, tables, job, fits, kills>>

-----------------------------------------------------------------------------
(* evaluate_models, first command of the unit.                             *)

\* Mutation: the newest are taken, attributed or not.
DueByRecency(seen) == {e \in seen : Cardinality({f \in seen : f > e}) < Page}

\* The oldest episodes of `seen` without an attribution.
Due(seen) == LET left == {e \in seen : cause[e] = None}
             IN  {e \in left : Cardinality({f \in left : f < e}) < Page}

LineValue(e) == LET moved == ClosingOf[MarketOf[e]] - Line
                IN  IF made[e].side = "over" THEN moved ELSE -moved

Attribution(e) ==
    Causes([minutes |-> box[MarketOf[e]].minutes, projectedMinutes |-> ProjectedMinutes,
            stat |-> box[MarketOf[e]].stat, projected |-> Projected, lineValue |-> LineValue(e),
            quality |-> Quality, p |-> made[e].p, hit |-> Hit(e)])

Sufficient(S) == EffectiveReaches(Cardinality(MarketsOf(S)), Cardinality(GamesOf(S)), MinimumSample)

Status(series, S) ==
    IF ~Sufficient(S) THEN "insufficient_data"
    ELSE IF Exceeds(Points(series, S), 8) THEN "degraded" ELSE "healthy"

Severity(series, S) == IF Exceeds(Points(series, S), 12) THEN "blocking" ELSE "warning"

\* Mutation: the update forgets the component's name.
ClosingAll(S) == IF \E c \in Series : Status(c, S) = "healthy" THEN Series ELSE {}

\* Series whose open incidents an evaluation of S resolves.
Closing(S) == {c \in Series : Status(c, S) = "healthy"}

\* A series is given an incident when it has none open.
Opening(S) == {c \in Series : Status(c, S) = "degraded" /\ Open(c) = {}}

Incident(c, S) == [series |-> c, severity |-> Severity(c, S), open |-> TRUE]

ReadRecord ==
    /\ job[Nightly] = Idle
    /\ Start(Nightly, "evaluate", Settled)
    /\ UNCHANGED <<made, box, tables, fits, kills>>

\* Attributions, a status for each series, incidents opened and resolved.
Evaluate ==
    LET S == job[Nightly].seen
        closed == [i \in DOMAIN incidents |->
                     [incidents[i] EXCEPT !.open = @ /\ incidents[i].series \notin Closing(S)]]
    IN  /\ At(Nightly, "evaluate", "read")
        /\ cause' = [e \in Episode |-> IF e \in Due(S) THEN Attribution(e) ELSE cause[e]]
        /\ verdict' = IF S = {} THEN verdict ELSE [c \in Series |-> Status(c, S)]
        /\ incidents' = closed \o SetToSeq({Incident(c, S) : c \in Opening(S)})
        /\ job' = [job EXCEPT ![Nightly] = [Idle EXCEPT !.cmd = "fit"]]
        /\ UNCHANGED <<made, box, rows, fits, kills>>

-----------------------------------------------------------------------------
(* fit_model_parameters, the unit's next command, or the owner's.          *)

\* A fit takes its time, then reads.
BeginFit(p) ==
    /\ \/ p = Nightly /\ job[p] = [Idle EXCEPT !.cmd = "fit"]
       \/ p = Cli /\ job[p] = Idle
    /\ fits < MaxFits
    /\ fits' = fits + 1
    /\ job' = [job EXCEPT ![p] = [Idle EXCEPT !.cmd = "fit", !.stage = "begun", !.at = fits + 1]]
    /\ UNCHANGED <<made, box, tables, kills>>

\* Bound: past MaxFits the unit skips the command.
SkipFit ==
    /\ job[Nightly] = [Idle EXCEPT !.cmd = "fit"] /\ fits = MaxFits
    /\ End(Nightly)
    /\ UNCHANGED <<made, box, tables, fits, kills>>

ReadPoints(p) ==
    /\ At(p, "fit", "begun")
    /\ IF Settled = {} THEN End(p)
                       ELSE job' = [job EXCEPT ![p].stage = "read", ![p].seen = Settled]
    /\ UNCHANGED <<made, box, tables, fits, kills>>

OfMarket(S, market) == IF market = All THEN S ELSE {e \in S : PropOf[MarketOf[e]] = market}
Markets(S) == IF S = {} THEN {} ELSE {All} \cup {PropOf[MarketOf[e]] : e \in S}

\* The values a fit may give a key from the episodes S of its market.
Fitted(kind, S) ==
    CASE kind = "calibration_map"  -> Calibrations(RawPoints(S))
      [] kind = "ensemble_weights" -> WeightFits(Cardinality(Latest(S)), Found)
      [] kind = "edge_shrinkage"   -> {Shrinkage(Points("ensemble", S))}

With(f, k, v) == [j \in {k} \cup DOMAIN f |-> IF j = k THEN v ELSE f[j]]

Extended(done, k, values) == {With(f, k, v) : f \in done, v \in values}

\* One value for each key.
Parameters(S, keys) ==
    FoldSet(LAMBDA k, done : Extended(done, k, Fitted(k[1], OfMarket(S, k[2]))), {<<>>}, keys)

Storing == {p \in {Nightly, Cli} : job[p].stage = "stored"}
Conflict(p) == \E k \in Kind \X Markets(job[p].seen) : \E i \in Live(k) : rows[k][i].at > job[p].at

\* The first UPDATE locks the live rows; superseded_at must not precede fitted_at.
Store(p) ==
    /\ At(p, "fit", "read") /\ Storing = {}
    /\ IF Conflict(p) THEN End(p) ELSE job' = [job EXCEPT ![p].stage = "stored"]
    /\ UNCHANGED <<made, box, tables, fits, kills>>

\* Another fit holds them.
Wait(p) ==
    /\ At(p, "fit", "read") /\ Storing # {}
    /\ job' = [job EXCEPT ![p].stage = "waiting"]
    /\ UNCHANGED <<made, box, tables, fits, kills>>

\* Mutation: the fit that waited stores its rows as if nothing had happened.
BeatenInserts(j) == [j EXCEPT !.stage = IF @ = "waiting" THEN "stored" ELSE @]

\* Its rows were superseded meanwhile and its own violate the unique index.
Beaten(j) == IF j.stage = "waiting" THEN Idle ELSE j

\* Mutation: the live row is overwritten.
Overwrite(history, row) == IF history = <<>> THEN <<row>> ELSE [history EXCEPT ![Len(history)] = row]

\* store_fitted_parameters: the live row is closed and a new one added.
Supersede(history, row) == Append([i \in DOMAIN history |-> [history[i] EXCEPT !.live = FALSE]], row)

CommitFit(p) ==
    LET S == job[p].seen
        keys == Kind \X Markets(S)
        Row(v) == [value |-> v, at |-> job[p].at, of |-> S, live |-> TRUE]
    IN  /\ At(p, "fit", "stored")
        /\ \E new \in Parameters(S, keys) :
             rows' = [k \in Key |-> IF k \in keys THEN Supersede(rows[k], Row(new[k])) ELSE rows[k]]
        /\ job' = [q \in Process |-> IF q = p THEN Idle ELSE Beaten(job[q])]
        /\ UNCHANGED <<made, box, cause, verdict, incidents, fits, kills>>

-----------------------------------------------------------------------------
\* A process dies: its transaction is rolled back, its locks go to who waits.
Kill(p) ==
    /\ job[p] # Idle /\ kills < MaxKills
    /\ kills' = kills + 1
    /\ job' = [q \in Process |-> IF q = p THEN Idle
               ELSE IF job[q].stage = "waiting" /\ p \in Storing THEN [job[q] EXCEPT !.stage = "read"]
               ELSE job[q]]
    /\ UNCHANGED <<made, box, tables, fits>>

Init ==
    /\ made = [e \in Episode |-> None]
    /\ box = [m \in Market |-> None]
    /\ cause = [e \in Episode |-> None]
    /\ verdict = [c \in Series |-> "none"]
    /\ incidents = <<>>
    /\ rows = [k \in Key |-> <<>>]
    /\ job = [p \in Process |-> Idle]
    /\ fits = 0 /\ kills = 0

NightlyStep == ReadRecord \/ Evaluate \/ SkipFit \/ BeginFit(Nightly)
FitStep(p) == ReadPoints(p) \/ Store(p) \/ Wait(p) \/ CommitFit(p)

Next ==
    \/ Load \/ Record
    \/ \E m \in Market : Play(m)
    \/ NightlyStep \/ BeginFit(Cli)
    \/ \E p \in {Nightly, Cli} : FitStep(p)
    \/ \E p \in {Nightly, Cli} : Kill(p)

Spec == Init /\ [][Next]_vars

\* systemd starts the unit every night, and a command that runs ends.
Fairness ==
    /\ WF_vars(ReadRecord)
    /\ \A p \in {Nightly, Cli} : []<>(job[p] = Idle)

FairSpec == Spec /\ Fairness
-----------------------------------------------------------------------------
Percent == 0..100

\* Every variable holds what its table's columns and checks allow: a recorded
\* probability is that of the side it favours, and a guard never turns it around.
TypeOK ==
    /\ \A e \in Episode :
         made[e] # None => /\ made[e].side \in {"over", "under"} /\ made[e].over \in Percent
                           /\ made[e].guard \in {0, 25, 50} /\ made[e].p \in 50..100
    /\ \A m \in Market : box[m] \in Boxes[m] \cup {None}
    /\ \A e \in Episode : cause[e] = None \/ cause[e].primary \in ToSet(Rank) \cup {"modeling", "random_variance"}
    /\ verdict \in [Series -> {"none", "insufficient_data", "degraded", "healthy"}]
    /\ \A i \in DOMAIN incidents : /\ incidents[i].series \in Series /\ incidents[i].open \in BOOLEAN
                                  /\ incidents[i].severity \in {"warning", "blocking"}
    /\ \A k \in Key : \A i \in DOMAIN rows[k] : rows[k][i].at \in 1..MaxFits
    /\ \A p \in Process : /\ job[p].cmd \in {"none", "forecast", "evaluate", "fit"}
                          /\ job[p].stage \in {"idle", "read", "begun", "stored", "waiting"}
    /\ fits \in 0..MaxFits /\ kills \in 0..MaxKills

\* However fits overlap, wait for one another or die, a key that was ever fitted
\* has exactly one live row, and its history runs forward: no row was fitted
\* before the one it superseded.
ParametersMoveForward ==
    \A k \in Key :
        /\ rows[k] # <<>> => Cardinality(Live(k)) = 1
        /\ \A i, j \in DOMAIN rows[k] : i < j => rows[k][i].at <= rows[k][j].at

\* The guard follows the newest evaluation: a series found degraded has exactly
\* one incident open, and one found healthy has none.
VerdictIsGuarded ==
    \A c \in Series : /\ verdict[c] = "degraded" => Cardinality(Open(c)) = 1
                      /\ verdict[c] = "healthy" => Open(c) = {}

\* What a monotone fit of the points gives x: the highest, over the points from
\* below, of the lowest share of overs up to a point above.
Level(points, x) ==
    LET xs == {o.x : o \in points}
        Share(j, k) == LET S == {o \in points : o.x \in j..k} IN (100 * Hits(S)) \div Cardinality(S)
    IN  Max({Min({Share(j, k) : k \in {i \in xs : i >= x}}) : j \in {i \in xs : i <= x}})

CalibrationHolds(map, points) ==
    LET knots == map.knots
    IN  /\ map.method = "isotonic" =>
             {knots[i][2] : i \in DOMAIN knots} = {Level(points, o.x) : o \in points}
        /\ \A n \in 1..20 : Apply(map, 5 * (n - 1)) <= Apply(map, 5 * n)

\* The pairs link all their components into one family.
Connected(pairs) ==
    \A part \in SUBSET pairs : part \notin {{}, pairs} => (UNION part) \cap (UNION (pairs \ part)) # {}

WeightsHold(fit) ==
    /\ Sum(fit.weights, Name) \in 95..100
    /\ LET linked == UNION fit.pairs
       IN  Connected(fit.pairs) => Sum(fit.weights, linked) <= Sum(Prior, linked)

\* What is stored is what the method promises of the record it was fitted on: a
\* calibration map is the monotone regression of its points and never swaps two
\* forecasts, the weights still make a whole but for rounding, and components that
\* answer alike, through a third one too, together keep no more weight than the
\* prior gave them as long as they are one family.
FitsHold ==
    \A k \in {j \in Key : rows[j] # <<>>} :
        LET row == Last(rows[k])
        IN  /\ k[1] = "calibration_map" => CalibrationHolds(row.value, RawPoints(OfMarket(row.of, k[2])))
            /\ k[1] = "ensemble_weights" => WeightsHold(row.value)

\* "learning may move weight between redundant components, but may not increase
\* their combined influence above the deliberately conservative prior allocation"
\* (weights.py:229), which the cap is said to ensure of every family.
FamiliesKeepTheirPrior ==
    \A k \in {j \in Key : rows[j] # <<>> /\ j[1] = "ensemble_weights"} :
        LET fit == Last(rows[k]).value
        IN  \A f \in Families(fit.pairs) : Sum(fit.weights, f) <= Sum(Prior, f)

\* A settled forecast can be recomputed for ever after: its calibrated probability
\* is what some stored map of its market or of the pool makes of the raw one, and
\* its guard is that of an incident on record.
ForecastsStayExplicable ==
    \A e \in Made :
        LET Explains(map) == made[e].over = Apply(map, RawOf[e])
        IN  /\ \/ Explains(Identity(0))
               \/ \E q \in {PropOf[MarketOf[e]], All} : LET k == <<"calibration_map", q>> IN
                     \E i \in DOMAIN rows[k] : Explains(rows[k][i].value)
            /\ made[e].guard = 0 \/ \E i \in DOMAIN incidents :
                  made[e].guard = IF incidents[i].severity = "blocking" THEN 50 ELSE 25

\* Every scoreable settled forecast is given its cause, however many there are, in
\* pages, and whatever is killed on the way.
EpisodesAreAttributed == \A e \in Episode : e \in Settled ~> cause[e] # None

\* parameters.py: "a thin market is better served by the pooled fit than by its
\* own twelve observations".
ThinMarketsUseThePool ==
    \A prop \in Prop :
        LET own == <<"calibration_map", prop>>
            pool == <<"calibration_map", All>>
        IN  Has(own) /\ Has(pool) /\ ValueOf(own).size < MinimumCalibration
                => CalibrationFor(prop) = ValueOf(pool)
=============================================================================
