------------------------------ MODULE Experiments ------------------------------
(***************************************************************************)
(* Champion/challenger experiments: wnba_services/learning_loop/           *)
(* experiments.py over the tables of migrations 018 and 025, with the      *)
(* parts of the forecast run and of settlement that feed them.             *)
(*                                                                         *)
(* Every job and every console or CLI call is one PostgreSQL transaction   *)
(* at READ COMMITTED.  A call that locks its row before it reads it, or    *)
(* that is a single guarded UPDATE, is one action.  The forecast run and   *)
(* the evaluation read in one statement and write in later ones, and what  *)
(* they write is visible to nobody before they commit, so each of them is  *)
(* several actions over a snapshot of its own.                             *)
(***************************************************************************)
EXTENDS Naturals, FiniteSets, SampleShape

CONSTANTS
    ExperimentCount,  \* bound: rows the experiments table may come to hold
    Challenger,       \* the registered challenger families
    Baseline,         \* the model run_baseline always scores with (MODEL_ID)
    Minimums,         \* the values open_experiment is called with
    Human,            \* names a caller may type
    Evaluator,        \* evaluate_experiments processes (weekly timer, CLI)
    MaxAborts,        \* bound: transactions that die before their commit
    None              \* SQL NULL

ASSUME ExperimentsAssumption ==
    /\ ExperimentCount \in Nat
    /\ Minimums \subseteq Nat
    /\ MaxAborts \in Nat
    /\ Baseline \notin Challenger
    /\ None \notin Challenger \cup Human

VARIABLES
    experiments,   \* wnba.experiments, by row
    stage,         \* wnba.model_versions.stage
    predictions,   \* wnba.challenger_predictions, by experiment and episode
    outcome,       \* decision_episodes joined to episode_outcomes
    run,           \* the forecast run in progress, and its snapshot
    active,        \* evaluator |-> its transaction is open
    todo,          \* evaluator |-> rows it selected and has not scored
    measured,      \* evaluator |-> what it computed for each row
    pending,       \* evaluator |-> rows it has updated and so holds locked
    aborts         \* transactions aborted so far

tables    == <<experiments, stage, predictions, outcome>>
evaluator == <<active, todo, measured, pending>>
vars      == <<tables, run, evaluator, aborts>>

(***************************************************************************)
(* Rows carry started_at, and every SELECT of the module orders by it, so  *)
(* a row is named by its place in the order of opening.                    *)
(***************************************************************************)
Experiment == 1 .. ExperimentCount
Model      == Challenger \cup {Baseline}

Status   == {"absent", "running", "evaluated", "promoted", "rolled_back", "abandoned"}
Leaning  == {"challenger_better", "no_difference", "challenger_worse"}
Verdicts == Leaning \cup {"insufficient_sample", "subgroup_degradation"}
Stages   == {"absent", "champion", "shadow", "deprecated"}

Evaluation == [markets : 0 .. Cardinality(Episode), verdict : Verdicts, degraded : BOOLEAN]

ExperimentRow ==
    [status : Status, challenger : Challenger \cup {None}, minimum : Nat \ {0},
     evaluation : Evaluation \cup {None}, promoted : BOOLEAN,
     approvedBy : Human \cup {None}, rolledBackBy : Human \cup {None}]

NoRow == [status |-> "absent", challenger |-> None, minimum |-> 1, evaluation |-> None,
          promoted |-> FALSE, approvedBy |-> None, rolledBackBy |-> None]

HasStatus(x, statuses) == experiments[x].status \in statuses

\* No evaluation holds row x in an uncommitted UPDATE.
Unlocked(x) == \A p \in Evaluator : x \notin pending[p]

-----------------------------------------------------------------------------
(***************************************************************************)
(* What a pile of settled predictions is worth.                            *)
(***************************************************************************)

\* Mutation: failed answers are paired as well.
PairedWithFailures(x) == {e \in Episode : predictions[x][e] # "none" /\ outcome[e] = "resolved"}

\* The rows evaluate_experiments pairs: a prediction that did not fail, on an
\* episode whose outcome is neither void nor a push.
Paired(x) == {e \in Episode : predictions[x][e] = "scored" /\ outcome[e] = "resolved"}

Verdict(enough, degraded, leaning) ==
    IF ~enough THEN "insufficient_sample"
    ELSE IF degraded THEN "subgroup_degradation" ELSE leaning

\* The log-loss comparison itself is data: which way it leans and whether a
\* subgroup is flagged are inputs, what the code makes of them is not.
Measure(x, leaning, degraded) ==
    LET n == Cardinality(MarketsOf(Paired(x)))
        g == Cardinality(GamesOf(Paired(x)))
    IN  [markets  |-> n,
         degraded |-> degraded,
         verdict  |-> Verdict(EffectiveReaches(n, g, experiments[x].minimum), degraded, leaning)]

-----------------------------------------------------------------------------
Init ==
    /\ experiments = [x \in Experiment |-> NoRow]
    /\ stage = [m \in Model |-> "absent"]
    /\ predictions = [x \in Experiment |-> [e \in Episode |-> "none"]]
    /\ outcome = [e \in Episode |-> "unforecast"]
    /\ run = [active |-> FALSE, experiments |-> {}]
    /\ active = [p \in Evaluator |-> FALSE]
    /\ todo = [p \in Evaluator |-> {}]
    /\ measured = [p \in Evaluator |-> [x \in Experiment |-> None]]
    /\ pending = [p \in Evaluator |-> {}]
    /\ aborts = 0

(***************************************************************************)
(* Opening and closing.  The unique index on running rows makes the check  *)
(* and the insert one step.                                                *)
(***************************************************************************)

\* INSERT ... ON CONFLICT DO NOTHING.
Registered(m, newStage) == IF stage[m] = "absent" THEN newStage ELSE stage[m]

Gate(minimum) == IF minimum < 1 THEN 1 ELSE minimum

OpenExperiment(x, c, minimum) ==
    /\ HasStatus(x, {"absent"})
    /\ \A y \in Experiment : y < x => ~HasStatus(y, {"absent"})
    /\ stage[Baseline] # "absent"
    /\ ~\E y \in Experiment : HasStatus(y, {"running"}) /\ experiments[y].challenger = c
    /\ stage' = [stage EXCEPT ![c] = Registered(c, "shadow")]
    /\ experiments' = [experiments EXCEPT ![x] =
           [NoRow EXCEPT !.status = "running", !.challenger = c, !.minimum = Gate(minimum)]]
    /\ UNCHANGED <<predictions, outcome, run, evaluator, aborts>>

AbandonExperiment(x) ==
    /\ HasStatus(x, {"running"}) /\ Unlocked(x)
    /\ experiments' = [experiments EXCEPT ![x].status = "abandoned"]
    /\ UNCHANGED <<stage, predictions, outcome, run, evaluator, aborts>>

(***************************************************************************)
(* The forecast run reads the running experiments once, scores the board,  *)
(* and commits its episodes with one prediction row per experiment it saw. *)
(***************************************************************************)
BeginForecast ==
    /\ ~run.active
    /\ run' = [active |-> TRUE, experiments |-> {x \in Experiment : HasStatus(x, {"running"})}]
    /\ UNCHANGED <<tables, evaluator, aborts>>

\* One prediction row per experiment of the snapshot, failure included.
Answered(e) ==
    \E answer \in [run.experiments -> {"scored", "failed"}] :
        predictions' = [x \in Experiment |->
            IF x \in run.experiments
            THEN [predictions[x] EXCEPT ![e] = answer[x]] ELSE predictions[x]]

CommitForecast(e) ==
    /\ run.active
    /\ outcome[e] = "unforecast"
    /\ stage' = [stage EXCEPT ![Baseline] = Registered(Baseline, "champion")]
    /\ outcome' = [outcome EXCEPT ![e] = "pending"]
    /\ Answered(e)
    /\ run' = [active |-> FALSE, experiments |-> {}]
    /\ UNCHANGED <<experiments, evaluator, aborts>>

\* A board with nothing new to forecast still registers the champion.
CommitEmptyForecast ==
    /\ run.active
    /\ stage' = [stage EXCEPT ![Baseline] = Registered(Baseline, "champion")]
    /\ run' = [active |-> FALSE, experiments |-> {}]
    /\ UNCHANGED <<experiments, predictions, outcome, evaluator, aborts>>

AbortForecast ==
    /\ run.active /\ aborts < MaxAborts
    /\ run' = [active |-> FALSE, experiments |-> {}]
    /\ aborts' = aborts + 1
    /\ UNCHANGED <<tables, evaluator>>

\* Settlement writes an episode's outcome once and never revisits it.
SettleOutcome(e) ==
    /\ outcome[e] = "pending"
    /\ \E result \in {"resolved", "void_or_push"} : outcome' = [outcome EXCEPT ![e] = result]
    /\ UNCHANGED <<experiments, stage, predictions, run, evaluator, aborts>>

-----------------------------------------------------------------------------
(***************************************************************************)
(* Evaluation.  The rows are selected once; each is then scored from what  *)
(* is committed at that moment and updated by its id alone, with no look   *)
(* at the status it has by then.                                           *)
(***************************************************************************)

\* Mutation: promoted rows are scored again.
OpenOrPromoted == {x \in Experiment : HasStatus(x, {"running", "evaluated", "promoted"})}

OpenRows == {x \in Experiment : HasStatus(x, {"running", "evaluated"})}

BeginEvaluation(p) ==
    /\ ~active[p]
    /\ active' = [active EXCEPT ![p] = TRUE]
    /\ todo' = [todo EXCEPT ![p] = OpenRows]
    /\ UNCHANGED <<tables, run, measured, pending, aborts>>

\* Row x was computed and its UPDATE has not yet been executed.
Computed(p, x) == measured[p][x] # None /\ x \notin pending[p]

ScoreExperiment(p, x) ==
    /\ x \in todo[p] /\ \A y \in todo[p] : x <= y
    /\ ~\E y \in Experiment : Computed(p, y)
    /\ \E leaning \in Leaning, degraded \in BOOLEAN :
           /\ degraded => Paired(x) # {}
           /\ measured' = [measured EXCEPT ![p][x] = Measure(x, leaning, degraded)]
    /\ todo' = [todo EXCEPT ![p] = @ \ {x}]
    /\ UNCHANGED <<tables, run, active, pending, aborts>>

WriteEvaluation(p, x) ==
    /\ Computed(p, x) /\ Unlocked(x)
    /\ pending' = [pending EXCEPT ![p] = @ \cup {x}]
    /\ UNCHANGED <<tables, run, active, todo, measured, aborts>>

EndEvaluation(p) ==
    /\ active' = [active EXCEPT ![p] = FALSE]
    /\ todo' = [todo EXCEPT ![p] = {}]
    /\ measured' = [measured EXCEPT ![p] = [x \in Experiment |-> None]]
    /\ pending' = [pending EXCEPT ![p] = {}]

\* Mutation: an experiment short of its sample is left running.
EvaluatedIfConclusive(row, evaluation) ==
    [row EXCEPT !.evaluation = evaluation,
                !.status = IF evaluation.verdict = "insufficient_sample" THEN @ ELSE "evaluated"]

Evaluated(row, evaluation) ==
    [row EXCEPT !.status = "evaluated", !.evaluation = evaluation]

CommitEvaluation(p) ==
    /\ active[p] /\ todo[p] = {}
    /\ ~\E x \in Experiment : Computed(p, x)
    /\ experiments' = [x \in Experiment |->
           IF x \in pending[p] THEN Evaluated(experiments[x], measured[p][x]) ELSE experiments[x]]
    /\ EndEvaluation(p)
    /\ UNCHANGED <<stage, predictions, outcome, run, aborts>>

AbortEvaluation(p) ==
    /\ active[p] /\ aborts < MaxAborts
    /\ EndEvaluation(p)
    /\ aborts' = aborts + 1
    /\ UNCHANGED <<tables, run>>

-----------------------------------------------------------------------------
(***************************************************************************)
(* Promotion and rollback take the row lock before they read the row, so   *)
(* each is atomic.  Two of them over different experiments update stage    *)
(* rows in the same order and so serialise as well.                        *)
(***************************************************************************)
ClearsGate(x) ==
    /\ experiments[x].evaluation # None
    /\ experiments[x].evaluation.verdict = "challenger_better"
    /\ experiments[x].evaluation.markets >= experiments[x].minimum
    /\ ~experiments[x].evaluation.degraded

Promoted(x, actor) ==
    /\ experiments' = [experiments EXCEPT ![x].status = "promoted", ![x].promoted = TRUE,
                                          ![x].approvedBy = actor]
    /\ stage' = [stage EXCEPT ![Baseline] = "deprecated",
                              ![experiments[x].challenger] = "champion"]
    /\ UNCHANGED <<predictions, outcome, run, evaluator, aborts>>

\* Mutation: the caller's word that the challenger is better is enough.
PromoteUnchecked(x, actor) ==
    /\ Unlocked(x)
    /\ ~experiments[x].promoted
    /\ HasStatus(x, {"evaluated"})
    /\ Promoted(x, actor)

PromoteChallenger(x, actor) ==
    /\ Unlocked(x)
    /\ ~experiments[x].promoted
    /\ HasStatus(x, {"evaluated"})
    /\ ClearsGate(x)
    /\ Promoted(x, actor)

RolledBack(row, actor) == [row EXCEPT !.status = "rolled_back", !.rolledBackBy = actor]

RollbackPromotion(x, actor) ==
    /\ Unlocked(x)
    /\ HasStatus(x, {"promoted"}) /\ experiments[x].promoted
    /\ experiments' = [experiments EXCEPT ![x] = RolledBack(@, actor)]
    /\ stage' = [stage EXCEPT ![Baseline] = "champion",
                              ![experiments[x].challenger] = "shadow"]
    /\ UNCHANGED <<predictions, outcome, run, evaluator, aborts>>

-----------------------------------------------------------------------------
\* What the owner does from the console or the CLI to a row that exists.
HumanStep ==
    \E x \in Experiment :
        \/ AbandonExperiment(x)
        \/ \E actor \in Human : PromoteChallenger(x, actor) \/ RollbackPromotion(x, actor)

OpenStep ==
    \E x \in Experiment, c \in Challenger, minimum \in Minimums : OpenExperiment(x, c, minimum)

ForecastStep ==
    \/ BeginForecast
    \/ \E e \in Episode : CommitForecast(e)
    \/ CommitEmptyForecast
    \/ AbortForecast

SettleStep == \E e \in Episode : SettleOutcome(e)

Progress(p) ==
    \/ BeginEvaluation(p)
    \/ \E x \in Experiment : ScoreExperiment(p, x) \/ WriteEvaluation(p, x)
    \/ CommitEvaluation(p)

EvaluationStep == \E p \in Evaluator : Progress(p) \/ AbortEvaluation(p)

Next == HumanStep \/ OpenStep \/ ForecastStep \/ SettleStep \/ EvaluationStep

Spec == Init /\ [][Next]_vars

\* The weekly timer is Persistent, so an evaluation always comes round again,
\* and a process that is not killed runs to its commit.
FairSpec == Spec /\ \A p \in Evaluator : WF_vars(Progress(p))

(***************************************************************************)
(* The same system on days when the owner decides only between             *)
(* evaluations.  Nothing in the code enforces this.                        *)
(***************************************************************************)
Quiet == \A p \in Evaluator : ~active[p]

SerialNext == (Quiet /\ HumanStep) \/ OpenStep \/ ForecastStep \/ SettleStep \/ EvaluationStep

SerialSpec == Init /\ [][SerialNext]_vars

-----------------------------------------------------------------------------
(***************************************************************************)
(* Properties.                                                             *)
(***************************************************************************)

\* Every variable keeps its shape, and what an evaluation has in hand stays
\* consistent: a locked row has been computed, and a row selected exists.
TypeOK ==
    /\ experiments \in [Experiment -> ExperimentRow]
    /\ stage \in [Model -> Stages]
    /\ predictions \in [Experiment -> [Episode -> {"none", "scored", "failed"}]]
    /\ outcome \in [Episode -> {"unforecast", "pending", "resolved", "void_or_push"}]
    /\ run \in [active : BOOLEAN, experiments : SUBSET Experiment]
    /\ active \in [Evaluator -> BOOLEAN]
    /\ todo \in [Evaluator -> SUBSET Experiment]
    /\ measured \in [Evaluator -> [Experiment -> Evaluation \cup {None}]]
    /\ pending \in [Evaluator -> SUBSET Experiment]
    /\ aborts \in 0 .. MaxAborts

\* The markets, and the games, in which experiment x has an answer that did
\* not fail on an episode that resolved.
SettledMarkets(x) ==
    {m \in Market : \E e \in Episode :
        MarketOf[e] = m /\ predictions[x][e] = "scored" /\ outcome[e] = "resolved"}

SettledGames(x) == {g \in Game : \E m \in SettledMarkets(x) : GameOf[m] = g}

\* The tables hold a sample for x that reaches its gate.
GateReached(x) ==
    LET n == Cardinality(SettledMarkets(x))
        g == Cardinality(SettledGames(x))
    IN  n > 0 /\ 10 * n * g >= experiments[x].minimum * (7 * g + 3 * n)

\* A promoted challenger has, in the prediction and outcome tables and not
\* only in a stored verdict, enough independent markets that the effective
\* sample clears its own gate, whatever the promotion raced with
\* (promote_challenger, the verdict gate and the clustering correction).
PromotionIsBackedByData ==
    \A x \in Experiment :
        experiments[x].promoted => GateReached(x)

\* A stored evaluation, or one still on its way to the table, never claims
\* more independent markets than the tables hold: a failed answer, a void or
\* a repeat of the same market is counted by nobody.
EvidenceIsNeverOverstated ==
    \A x \in Experiment :
        LET held == Cardinality(SettledMarkets(x))
        IN  /\ experiments[x].evaluation # None => experiments[x].evaluation.markets <= held
            /\ \A p \in Evaluator : measured[p][x] # None => measured[p][x].markets <= held

\* A promotion stays in the record with its approver, through rollback and
\* through any evaluation that was under way ("leaves the promotion in place
\* as history", migration 025).
PromotionIsHistory ==
    [][\A x \in Experiment : experiments[x].promoted =>
           /\ experiments'[x].promoted
           /\ experiments'[x].approvedBy = experiments[x].approvedBy
           /\ experiments[x].rolledBackBy # None
                  => experiments'[x].rolledBackBy = experiments[x].rolledBackBy]_vars

\* A challenger's answer is written in the step that writes the episode it
\* answers and is never changed: an answer given later would measure the
\* delay (migration 025, point 1).
AnswersArriveWithTheirEpisode ==
    [][\A x \in Experiment, e \in Episode :
           predictions'[x][e] # predictions[x][e] =>
               /\ outcome[e] = "unforecast" /\ outcome'[e] = "pending"
               /\ predictions[x][e] = "none"]_vars

\* A running experiment is eventually scored or closed: the weekly evaluation
\* reaches it even when another evaluation holds its row or dies on the way.
RunningExperimentIsSettled ==
    \A x \in Experiment : HasStatus(x, {"running"}) ~> ~HasStatus(x, {"running"})

\* rollback_promotion: "Rollback is the reason promotion is survivable."  A
\* promoted challenger that was not rolled back is still in the one status
\* rollback accepts.
PromotionCanBeRolledBack ==
    \A x \in Experiment : experiments[x].promoted => HasStatus(x, {"promoted", "rolled_back"})

\* A closed experiment stays closed: abandoned "without a verdict", withdrawn
\* for good, and a promotion is left only by its rollback.
ClosedStaysClosed ==
    [][\A x \in Experiment :
           /\ HasStatus(x, {"abandoned", "rolled_back"})
                  => experiments'[x].status = experiments[x].status
           /\ HasStatus(x, {"promoted"})
                  => experiments'[x].status \in {"promoted", "rolled_back"}]_vars

\* The row of a promotion still shows the evaluation it was approved on.
PromotionShowsItsEvidence ==
    \A x \in Experiment : experiments[x].promoted => ClearsGate(x)

\* "The only thing that moves a version to champion is promote_challenger"
\* (experiments.py:181): a challenger that is champion has a promotion that stands,
\* through the rollback of another of its experiments, a new one of the same
\* challenger, and every evaluation.
ChampionsStandOnAPromotion ==
    \A c \in Challenger : stage[c] = "champion" =>
        \E x \in Experiment : HasStatus(x, {"promoted"}) /\ experiments[x].challenger = c

-----------------------------------------------------------------------------
(***************************************************************************)
(* The promise of PromotionGovernance, read off the tables.                *)
(***************************************************************************)
DecisionAt(status) ==
    CASE status = "absent"                     -> "unopened"
      [] status \in {"running", "evaluated"} -> "open"
      [] status = "promoted"                   -> "approved"
      [] status = "rolled_back"                -> "withdrawn"
      [] status = "abandoned"                  -> "closed"

Governance ==
    INSTANCE PromotionGovernance WITH
        decision   <- [x \in Experiment |-> DecisionAt(experiments[x].status)],
        sufficient <- {x \in Experiment : GateReached(x)},
        approver   <- [x \in Experiment |-> experiments[x].approvedBy]

\* Approvals rest on evidence in the tables and decisions are final: the jobs
\* and calls of experiments.py, when the owner decides between evaluations,
\* implement PromotionGovernance.
ImplementsGovernance == Governance!GovSpec
=============================================================================
