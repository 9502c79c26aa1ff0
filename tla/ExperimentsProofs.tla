--------------------------- MODULE ExperimentsProofs ---------------------------
(***************************************************************************)
(* Theorems about Experiments, for every number of experiments, episodes,  *)
(* markets and evaluators.                                                 *)
(***************************************************************************)
EXTENDS Experiments, SampleShapeProofs, FiniteSetTheorems, TLAPS

\* What evaluate_experiments pairs and dedupes is what the tables hold.
LEMMA PairedIsSettled ==
    ASSUME NEW x
    PROVE  /\ Paired(x) \in SUBSET Episode
           /\ MarketsOf(Paired(x)) = SettledMarkets(x)
           /\ GamesOf(Paired(x)) = SettledGames(x)
<1>1. Paired(x) \in SUBSET Episode
  BY DEF Paired
<1>2. MarketsOf(Paired(x)) = SettledMarkets(x)
  BY ExperimentsAssumption, SampleAssumption DEF MarketsOf, Paired, SettledMarkets
<1>3. SettledMarkets(x) \subseteq Market
  BY DEF SettledMarkets
<1>4. GamesOf(Paired(x)) = SettledGames(x)
  BY <1>2, <1>3, ExperimentsAssumption, SampleAssumption DEF GamesOf, SettledGames
<1> QED
  BY <1>1, <1>2, <1>4

\* A measurement has the shape of an evaluation.
LEMMA MeasureType ==
    ASSUME NEW x, NEW leaning \in Leaning, NEW degraded \in BOOLEAN
    PROVE  Measure(x, leaning, degraded) \in Evaluation
<1>1. Cardinality(MarketsOf(Paired(x))) \in 0 .. Cardinality(Episode)
  BY PairedIsSettled, MarketsAreCounted
<1>2. \A enough : Verdict(enough, degraded, leaning) \in Verdicts
  BY DEF Verdict, Verdicts
<1> QED
  BY <1>1, <1>2 DEF Measure, Evaluation

-----------------------------------------------------------------------------
(***************************************************************************)
(* Types.                                                                  *)
(***************************************************************************)

LEMMA NoRowType == NoRow \in ExperimentRow
BY DEF NoRow, ExperimentRow, Status

\* Each write of a handler leaves a row a row.
LEMMA RowUpdates ==
    ASSUME NEW row \in ExperimentRow
    PROVE  /\ [row EXCEPT !.status = "abandoned"] \in ExperimentRow
           /\ \A actor \in Human :
                 /\ [row EXCEPT !.status = "promoted", !.promoted = TRUE, !.approvedBy = actor]
                        \in ExperimentRow
                 /\ RolledBack(row, actor) \in ExperimentRow
           /\ \A evaluation \in Evaluation \cup {None} : Evaluated(row, evaluation) \in ExperimentRow
BY DEF ExperimentRow, Status, RolledBack, Evaluated

\* The initial tables are well typed.
LEMMA TypeInit == Init => TypeOK
<1> SUFFICES ASSUME Init PROVE TypeOK
  OBVIOUS
<1>1. experiments \in [Experiment -> ExperimentRow]
  BY NoRowType DEF Init
<1>2. aborts \in 0 .. MaxAborts
  BY ExperimentsAssumption, SampleAssumption DEF Init
<1> QED
  BY <1>1, <1>2 DEF Init, TypeOK, Stages

\* Closing an evaluation's transaction keeps its variables typed.
LEMMA EndEvaluationType ==
    ASSUME TypeOK, NEW p \in Evaluator, EndEvaluation(p)
    PROVE  /\ active' \in [Evaluator -> BOOLEAN]
           /\ todo' \in [Evaluator -> SUBSET Experiment]
           /\ measured' \in [Evaluator -> [Experiment -> Evaluation \cup {None}]]
           /\ pending' \in [Evaluator -> SUBSET Experiment]
BY DEF TypeOK, EndEvaluation

\* Every step keeps the tables and the processes well typed.
LEMMA TypeStep == TypeOK /\ [Next]_vars => TypeOK'
<1> SUFFICES ASSUME TypeOK, [Next]_vars PROVE TypeOK'
  OBVIOUS
<1> USE DEF TypeOK
<1>1. ASSUME NEW x \in Experiment, NEW c \in Challenger, NEW minimum \in Minimums,
             OpenExperiment(x, c, minimum)
      PROVE  TypeOK'
  <2>1. Gate(minimum) \in Nat \ {0}
    BY ExperimentsAssumption, SampleAssumption DEF Gate
  <2>2. [NoRow EXCEPT !.status = "running", !.challenger = c, !.minimum = Gate(minimum)]
            \in ExperimentRow
    BY <2>1 DEF NoRow, ExperimentRow, Status
  <2>3. experiments' \in [Experiment -> ExperimentRow]
    BY <1>1, <2>2 DEF OpenExperiment
  <2>4. stage' \in [Model -> Stages]
    BY <1>1 DEF OpenExperiment, Registered, Stages, Model
  <2> QED
    BY <1>1, <2>3, <2>4 DEF OpenExperiment, evaluator
<1>2. ASSUME NEW x \in Experiment, AbandonExperiment(x) PROVE TypeOK'
  <2>1. experiments' \in [Experiment -> ExperimentRow]
    BY <1>2, RowUpdates DEF AbandonExperiment
  <2> QED
    BY <1>2, <2>1 DEF AbandonExperiment, evaluator
<1>3. ASSUME NEW x \in Experiment, NEW actor \in Human, PromoteChallenger(x, actor)
      PROVE  TypeOK'
  <2>1. experiments' \in [Experiment -> ExperimentRow]
    BY <1>3, RowUpdates DEF PromoteChallenger, Promoted
  <2>2. stage' \in [Model -> Stages]
    BY <1>3 DEF PromoteChallenger, Promoted, Stages
  <2> QED
    BY <1>3, <2>1, <2>2 DEF PromoteChallenger, Promoted, evaluator
<1>4. ASSUME NEW x \in Experiment, NEW actor \in Human, RollbackPromotion(x, actor)
      PROVE  TypeOK'
  <2>1. experiments' \in [Experiment -> ExperimentRow]
    BY <1>4, RowUpdates DEF RollbackPromotion
  <2>2. stage' \in [Model -> Stages]
    BY <1>4 DEF RollbackPromotion, Stages
  <2> QED
    BY <1>4, <2>1, <2>2 DEF RollbackPromotion, evaluator
<1>5. ASSUME BeginForecast PROVE TypeOK'
  BY <1>5 DEF BeginForecast, tables, evaluator
<1>6. ASSUME NEW e \in Episode, CommitForecast(e) PROVE TypeOK'
  <2>1. stage' \in [Model -> Stages]
    BY <1>6 DEF CommitForecast, Registered, Stages, Model
  <2>2. predictions' \in [Experiment -> [Episode -> {"none", "scored", "failed"}]]
    BY <1>6 DEF CommitForecast, Answered
  <2> QED
    BY <1>6, <2>1, <2>2 DEF CommitForecast, evaluator
<1>7. ASSUME CommitEmptyForecast PROVE TypeOK'
  BY <1>7 DEF CommitEmptyForecast, Registered, Stages, Model, evaluator
<1>8. ASSUME AbortForecast PROVE TypeOK'
  BY <1>8, ExperimentsAssumption, SampleAssumption DEF AbortForecast, tables, evaluator
<1>9. ASSUME NEW e \in Episode, SettleOutcome(e) PROVE TypeOK'
  BY <1>9 DEF SettleOutcome, evaluator
<1>10. ASSUME NEW p \in Evaluator, BeginEvaluation(p) PROVE TypeOK'
  BY <1>10 DEF BeginEvaluation, OpenRows, tables
<1>11. ASSUME NEW p \in Evaluator, NEW x \in Experiment, ScoreExperiment(p, x) PROVE TypeOK'
  <2>1. measured' \in [Evaluator -> [Experiment -> Evaluation \cup {None}]]
    BY <1>11, MeasureType DEF ScoreExperiment
  <2> QED
    BY <1>11, <2>1 DEF ScoreExperiment, tables
<1>12. ASSUME NEW p \in Evaluator, NEW x \in Experiment, WriteEvaluation(p, x) PROVE TypeOK'
  BY <1>12 DEF WriteEvaluation, tables
<1>13. ASSUME NEW p \in Evaluator, CommitEvaluation(p) PROVE TypeOK'
  <2>1. experiments' \in [Experiment -> ExperimentRow]
    <3>1. ASSUME NEW x \in Experiment, x \in pending[p]
          PROVE  Evaluated(experiments[x], measured[p][x]) \in ExperimentRow
      <4>1. experiments[x] \in ExperimentRow /\ measured[p][x] \in Evaluation \cup {None}
        BY <3>1
      <4> QED
        BY <4>1, RowUpdates
    <3> QED
      BY <1>13, <3>1 DEF CommitEvaluation
  <2> QED
    BY <1>13, <2>1, EndEvaluationType DEF CommitEvaluation
<1>14. ASSUME NEW p \in Evaluator, AbortEvaluation(p) PROVE TypeOK'
  BY <1>14, EndEvaluationType, ExperimentsAssumption, SampleAssumption DEF AbortEvaluation, tables
<1>15. CASE UNCHANGED vars
  BY <1>15 DEF vars, tables, evaluator
<1> QED
  BY <1>1, <1>2, <1>3, <1>4, <1>5, <1>6, <1>7, <1>8, <1>9, <1>10, <1>11, <1>12, <1>13, <1>14,
     <1>15
  DEF Next, HumanStep, OpenStep, ForecastStep, SettleStep, EvaluationStep, Progress

\* The tables and the processes over them are well typed in every state.
THEOREM ExperimentsTyped == Spec => []TypeOK
BY TypeInit, TypeStep, PTL DEF Spec

-----------------------------------------------------------------------------
(***************************************************************************)
(* Evidence.  The tables only ever gain evidence, a measurement claims no  *)
(* more than they held when it was taken, and every verdict and promotion  *)
(* descends from a measurement.                                            *)
(***************************************************************************)

\* An evaluation of x, stored or in flight, claims no more than the tables hold.
Backed(x, evaluation) ==
    evaluation # None =>
        /\ evaluation.markets <= Cardinality(SettledMarkets(x))
        /\ evaluation.verdict # "insufficient_sample" => GateReached(x)

\* Nothing is known of a row that was not opened.
UnopenedInv ==
    \A x \in Experiment : HasStatus(x, {"absent"}) =>
        /\ experiments[x].evaluation = None /\ ~experiments[x].promoted
        /\ \A p \in Evaluator : x \notin todo[p] /\ x \notin pending[p] /\ measured[p][x] = None

EvidenceInv ==
    \A x \in Experiment :
        /\ Backed(x, experiments[x].evaluation)
        /\ \A p \in Evaluator : Backed(x, measured[p][x])
        /\ experiments[x].promoted => GateReached(x)

IInv == TypeOK /\ UnopenedInv /\ EvidenceInv

\* Any set of markets that episodes fall on is finite, and so are its games.
LEMMA EpisodeMarketsFinite ==
    ASSUME NEW markets \in SUBSET MarketsOf(Episode)
    PROVE  /\ IsFiniteSet(markets) /\ Cardinality(markets) \in Nat
BY MarketsAreCounted, FS_Subset, FS_CardinalityType

LEMMA EpisodeGamesFinite ==
    ASSUME NEW games \in SUBSET GamesOf(Episode)
    PROVE  /\ IsFiniteSet(games) /\ Cardinality(games) \in Nat
BY GamesAreFinite, FS_Subset, FS_CardinalityType

LEMMA SettledSetsFinite ==
    ASSUME NEW x
    PROVE  /\ SettledMarkets(x) \in SUBSET MarketsOf(Episode)
           /\ SettledGames(x) \in SUBSET GamesOf(Episode)
           /\ SettledMarkets(x)' \in SUBSET MarketsOf(Episode)
           /\ SettledGames(x)' \in SUBSET GamesOf(Episode)
BY DEF SettledMarkets, SettledGames, MarketsOf, GamesOf

\* No step takes a settled answer away.
LEMMA EvidenceGrows ==
    ASSUME TypeOK, [Next]_vars, NEW x \in Experiment
    PROVE  /\ SettledMarkets(x) \subseteq SettledMarkets(x)'
           /\ SettledGames(x) \subseteq SettledGames(x)'
<1> DEFINE settled(e) == predictions[x][e] = "scored" /\ outcome[e] = "resolved"
<1>1. ASSUME NEW e \in Episode, settled(e) PROVE settled(e)'
  <2>1. CASE UNCHANGED <<predictions, outcome>>
    BY <1>1, <2>1
  <2>2. ASSUME NEW d \in Episode, CommitForecast(d) PROVE settled(e)'
    <3>1. d # e /\ outcome'[e] = outcome[e]
      BY <1>1, <2>2 DEF CommitForecast, TypeOK
    <3>2. predictions'[x][e] = predictions[x][e]
      BY <2>2, <3>1 DEF CommitForecast, Answered, TypeOK
    <3> QED
      BY <1>1, <3>1, <3>2
  <2>3. ASSUME NEW d \in Episode, SettleOutcome(d) PROVE settled(e)'
    BY <1>1, <2>3 DEF SettleOutcome, TypeOK
  <2> QED
    BY <2>1, <2>2, <2>3
    DEF Next, HumanStep, OpenStep, ForecastStep, SettleStep, EvaluationStep, Progress, vars,
        tables, OpenExperiment, AbandonExperiment, PromoteChallenger, Promoted,
        RollbackPromotion, BeginForecast, CommitEmptyForecast, AbortForecast, BeginEvaluation,
        ScoreExperiment, WriteEvaluation, CommitEvaluation, AbortEvaluation
<1>2. SettledMarkets(x) \subseteq SettledMarkets(x)'
  BY <1>1 DEF SettledMarkets
<1>3. SettledGames(x) \subseteq SettledGames(x)'
  BY <1>2 DEF SettledGames
<1> QED
  BY <1>2, <1>3

\* An opened row keeps the gate it was opened with.
LEMMA GateIsKept ==
    ASSUME TypeOK, [Next]_vars, NEW x \in Experiment, ~HasStatus(x, {"absent"})
    PROVE  experiments'[x].minimum = experiments[x].minimum
<1>1. CASE UNCHANGED experiments
  BY <1>1
<1>2. ASSUME NEW y \in Experiment, NEW c \in Challenger, NEW minimum \in Minimums,
             OpenExperiment(y, c, minimum)
      PROVE  experiments'[x].minimum = experiments[x].minimum
  BY <1>2 DEF OpenExperiment, TypeOK
<1>3. ASSUME NEW y \in Experiment, AbandonExperiment(y)
      PROVE  experiments'[x].minimum = experiments[x].minimum
  BY <1>3 DEF AbandonExperiment, TypeOK, ExperimentRow
<1>4. ASSUME NEW y \in Experiment, NEW actor \in Human, PromoteChallenger(y, actor)
      PROVE  experiments'[x].minimum = experiments[x].minimum
  BY <1>4 DEF PromoteChallenger, Promoted, TypeOK, ExperimentRow
<1>5. ASSUME NEW y \in Experiment, NEW actor \in Human, RollbackPromotion(y, actor)
      PROVE  experiments'[x].minimum = experiments[x].minimum
  BY <1>5 DEF RollbackPromotion, RolledBack, TypeOK, ExperimentRow
<1>6. ASSUME NEW p \in Evaluator, CommitEvaluation(p)
      PROVE  experiments'[x].minimum = experiments[x].minimum
  <2>1. experiments[x] \in ExperimentRow
    BY DEF TypeOK
  <2>2. experiments'[x] \in {experiments[x], Evaluated(experiments[x], measured[p][x])}
    BY <1>6 DEF CommitEvaluation
  <2> QED
    BY <2>1, <2>2 DEF Evaluated, ExperimentRow
<1> QED
  BY <1>1, <1>2, <1>3, <1>4, <1>5, <1>6
  DEF Next, HumanStep, OpenStep, ForecastStep, SettleStep, EvaluationStep, Progress, vars,
      tables, BeginForecast, CommitForecast, CommitEmptyForecast, AbortForecast, SettleOutcome,
      BeginEvaluation, ScoreExperiment, WriteEvaluation, AbortEvaluation

\* So what was backed stays backed, and a gate once reached stays reached.
LEMMA BackingPersists ==
    ASSUME TypeOK, TypeOK', [Next]_vars, NEW x \in Experiment, ~HasStatus(x, {"absent"})
    PROVE  /\ GateReached(x) => GateReached(x)'
           /\ Cardinality(SettledMarkets(x)) <= Cardinality(SettledMarkets(x)')
           /\ \A evaluation \in Evaluation \cup {None} :
                  Backed(x, evaluation) => Backed(x, evaluation)'
<1> DEFINE n1 == Cardinality(SettledMarkets(x))
           g1 == Cardinality(SettledGames(x))
           n2 == Cardinality(SettledMarkets(x)')
           g2 == Cardinality(SettledGames(x)')
<1>1. /\ n1 \in Nat /\ g1 \in Nat /\ n2 \in Nat /\ g2 \in Nat
      /\ n1 <= n2 /\ g1 <= g2
  <2>1. /\ SettledMarkets(x) \in SUBSET (SettledMarkets(x)')
        /\ SettledGames(x) \in SUBSET (SettledGames(x)')
    BY EvidenceGrows
  <2>2. /\ IsFiniteSet(SettledMarkets(x)') /\ IsFiniteSet(SettledGames(x)')
        /\ n1 \in Nat /\ g1 \in Nat /\ n2 \in Nat /\ g2 \in Nat
    BY SettledSetsFinite, EpisodeMarketsFinite, EpisodeGamesFinite
  <2> QED
    BY <2>1, <2>2, FS_Subset
<1>2. experiments[x].minimum \in Nat \ {0}
  BY DEF TypeOK, ExperimentRow
<1>3. GateReached(x) => GateReached(x)'
  BY <1>1, <1>2, GateIsKept, GateIsMonotone DEF GateReached
<1>4. ASSUME NEW evaluation \in Evaluation \cup {None}, Backed(x, evaluation)
      PROVE  Backed(x, evaluation)'
  <2>1. evaluation # None => evaluation.markets \in Nat
    <3>1. Cardinality(Episode) \in Nat
      BY ExperimentsAssumption, SampleAssumption, FS_CardinalityType
    <3> QED
      BY <3>1 DEF Evaluation
  <2> QED
    BY <1>1, <1>3, <1>4, <2>1 DEF Backed
<1> QED
  BY <1>1, <1>3, <1>4

\* A measurement is backed when it is taken.
LEMMA MeasureIsBacked ==
    ASSUME TypeOK, NEW x \in Experiment, NEW leaning \in Leaning, NEW degraded \in BOOLEAN
    PROVE  Backed(x, Measure(x, leaning, degraded))
<1> DEFINE n == Cardinality(SettledMarkets(x))
           g == Cardinality(SettledGames(x))
           m == Measure(x, leaning, degraded)
<1>1. m.markets = n /\ n \in Nat
  BY PairedIsSettled, SettledSetsFinite, EpisodeMarketsFinite DEF Measure
<1>2. m.verdict = Verdict(EffectiveReaches(n, g, experiments[x].minimum), degraded, leaning)
  BY PairedIsSettled DEF Measure
<1>3. m.verdict # "insufficient_sample" => EffectiveReaches(n, g, experiments[x].minimum)
  BY <1>2 DEF Verdict
<1> QED
  BY <1>1, <1>3 DEF Backed, GateReached, EffectiveReaches

\* A promotion reads a verdict that a measurement gave.
LEMMA GateNeedsEvidence ==
    ASSUME NEW x \in Experiment, Backed(x, experiments[x].evaluation), ClearsGate(x)
    PROVE  GateReached(x)
BY DEF Backed, ClearsGate

LEMMA EvidenceInit == Init => UnopenedInv /\ EvidenceInv
BY DEF Init, UnopenedInv, EvidenceInv, Backed, NoRow, HasStatus

\* Nothing becomes known of an unopened row.
LEMMA UnopenedStep == IInv /\ [Next]_vars => UnopenedInv'
<1> SUFFICES ASSUME TypeOK, UnopenedInv, [Next]_vars,
                    NEW x \in Experiment, HasStatus(x, {"absent"})'
             PROVE  /\ experiments'[x].evaluation = None /\ ~experiments'[x].promoted
                    /\ \A p \in Evaluator :
                          x \notin todo'[p] /\ x \notin pending'[p] /\ measured'[p][x] = None
  BY DEF IInv, UnopenedInv
<1> DEFINE Goal == /\ experiments'[x].evaluation = None /\ ~experiments'[x].promoted
                   /\ \A p \in Evaluator :
                         x \notin todo'[p] /\ x \notin pending'[p] /\ measured'[p][x] = None
<1> USE DEF UnopenedInv, HasStatus
<1>1. CASE UNCHANGED <<experiments, evaluator>>
  BY <1>1 DEF evaluator
<1>2. ASSUME NEW y \in Experiment, NEW c \in Challenger, NEW minimum \in Minimums,
             OpenExperiment(y, c, minimum)
      PROVE  Goal
  BY <1>2 DEF OpenExperiment, NoRow, TypeOK, evaluator
<1>3. ASSUME NEW y \in Experiment, AbandonExperiment(y) PROVE Goal
  BY <1>3 DEF AbandonExperiment, TypeOK, ExperimentRow, evaluator
<1>4. ASSUME NEW y \in Experiment, NEW actor \in Human, PromoteChallenger(y, actor) PROVE Goal
  BY <1>4 DEF PromoteChallenger, Promoted, TypeOK, ExperimentRow, evaluator
<1>5. ASSUME NEW y \in Experiment, NEW actor \in Human, RollbackPromotion(y, actor) PROVE Goal
  BY <1>5 DEF RollbackPromotion, RolledBack, TypeOK, ExperimentRow, evaluator
<1>6. ASSUME NEW p \in Evaluator, BeginEvaluation(p) PROVE Goal
  BY <1>6 DEF BeginEvaluation, OpenRows, TypeOK, tables
<1>7. ASSUME NEW p \in Evaluator, NEW y \in Experiment, ScoreExperiment(p, y) PROVE Goal
  BY <1>7 DEF ScoreExperiment, TypeOK, tables
<1>8. ASSUME NEW p \in Evaluator, NEW y \in Experiment, WriteEvaluation(p, y) PROVE Goal
  BY <1>8 DEF WriteEvaluation, Computed, TypeOK, tables
<1>9. ASSUME NEW p \in Evaluator, CommitEvaluation(p) PROVE Goal
  <2>1. experiments'[x] = experiments[x]
    <3>1. experiments[x] \in ExperimentRow
      BY DEF TypeOK
    <3>2. experiments'[x] \in {experiments[x], Evaluated(experiments[x], measured[p][x])}
      BY <1>9 DEF CommitEvaluation
    <3> QED
      BY <3>1, <3>2 DEF Evaluated, ExperimentRow
  <2> QED
    BY <1>9, <2>1 DEF CommitEvaluation, EndEvaluation, TypeOK
<1>10. ASSUME NEW p \in Evaluator, AbortEvaluation(p) PROVE Goal
  BY <1>10 DEF AbortEvaluation, EndEvaluation, TypeOK, tables
<1> QED
  BY <1>1, <1>2, <1>3, <1>4, <1>5, <1>6, <1>7, <1>8, <1>9, <1>10
  DEF Next, HumanStep, OpenStep, ForecastStep, SettleStep, EvaluationStep, Progress, vars,
      tables, BeginForecast, CommitForecast, CommitEmptyForecast, AbortForecast, SettleOutcome

\* What a step leaves in an experiment's row or in an evaluation's hand.
LEMMA EvidenceSources ==
    ASSUME TypeOK, UnopenedInv, [Next]_vars, NEW x \in Experiment
    PROVE  /\ \/ experiments'[x].evaluation = experiments[x].evaluation
              \/ experiments'[x].evaluation = None
              \/ \E p \in Evaluator : experiments'[x].evaluation = measured[p][x]
           /\ experiments'[x].promoted => experiments[x].promoted \/ ClearsGate(x)
           /\ \A p \in Evaluator :
                 \/ measured'[p][x] = measured[p][x]
                 \/ measured'[p][x] = None
                 \/ /\ x \in todo[p] /\ UNCHANGED tables
                    /\ \E leaning \in Leaning, degraded \in BOOLEAN :
                          measured'[p][x] = Measure(x, leaning, degraded)
<1> DEFINE Row == /\ \/ experiments'[x].evaluation = experiments[x].evaluation
                     \/ experiments'[x].evaluation = None
                     \/ \E p \in Evaluator : experiments'[x].evaluation = measured[p][x]
                  /\ experiments'[x].promoted => experiments[x].promoted \/ ClearsGate(x)
           Hand == \A p \in Evaluator :
                      \/ measured'[p][x] = measured[p][x]
                      \/ measured'[p][x] = None
                      \/ /\ x \in todo[p] /\ UNCHANGED tables
                         /\ \E leaning \in Leaning, degraded \in BOOLEAN :
                               measured'[p][x] = Measure(x, leaning, degraded)
<1>1. CASE UNCHANGED <<experiments, measured>>
  BY <1>1
<1>2. ASSUME NEW y \in Experiment, NEW c \in Challenger, NEW minimum \in Minimums,
             OpenExperiment(y, c, minimum)
      PROVE  Row /\ Hand
  BY <1>2 DEF OpenExperiment, NoRow, TypeOK, evaluator
<1>3. ASSUME NEW y \in Experiment, AbandonExperiment(y) PROVE Row /\ Hand
  BY <1>3 DEF AbandonExperiment, TypeOK, ExperimentRow, evaluator
<1>4. ASSUME NEW y \in Experiment, NEW actor \in Human, PromoteChallenger(y, actor)
      PROVE  Row /\ Hand
  <2>1. x # y => experiments'[x] = experiments[x]
    BY <1>4 DEF PromoteChallenger, Promoted, TypeOK
  <2>2. x = y => experiments'[x].evaluation = experiments[x].evaluation /\ ClearsGate(x)
    BY <1>4 DEF PromoteChallenger, Promoted, TypeOK, ExperimentRow
  <2> QED
    BY <1>4, <2>1, <2>2 DEF PromoteChallenger, Promoted, evaluator
<1>5. ASSUME NEW y \in Experiment, NEW actor \in Human, RollbackPromotion(y, actor)
      PROVE  Row /\ Hand
  BY <1>5 DEF RollbackPromotion, RolledBack, TypeOK, ExperimentRow, evaluator
<1>6. ASSUME NEW p \in Evaluator, NEW y \in Experiment, ScoreExperiment(p, y)
      PROVE  Row /\ Hand
  <2>1. Row
    BY <1>6 DEF ScoreExperiment, tables
  <2>2. x # y => Hand
    BY <1>6 DEF ScoreExperiment, TypeOK
  <2>3. x = y => Hand
    BY <1>6 DEF ScoreExperiment, TypeOK
  <2> QED
    BY <2>1, <2>2, <2>3
<1>7. ASSUME NEW p \in Evaluator, CommitEvaluation(p) PROVE Row /\ Hand
  <2>1. experiments'[x] \in {experiments[x], Evaluated(experiments[x], measured[p][x])}
    BY <1>7 DEF CommitEvaluation
  <2>2. experiments[x] \in ExperimentRow
    BY DEF TypeOK
  <2>3. Row
    BY <2>1, <2>2 DEF Evaluated, ExperimentRow
  <2>4. Hand
    BY <1>7 DEF CommitEvaluation, EndEvaluation, TypeOK
  <2> QED
    BY <2>3, <2>4
<1>8. ASSUME NEW p \in Evaluator, AbortEvaluation(p) PROVE Row /\ Hand
  BY <1>8 DEF AbortEvaluation, EndEvaluation, TypeOK, tables
<1> QED
  BY <1>1, <1>2, <1>3, <1>4, <1>5, <1>6, <1>7, <1>8
  DEF Next, HumanStep, OpenStep, ForecastStep, SettleStep, EvaluationStep, Progress, vars,
      tables, evaluator, BeginForecast, CommitForecast, CommitEmptyForecast, AbortForecast,
      SettleOutcome, BeginEvaluation, WriteEvaluation

LEMMA EvidenceStep == IInv /\ TypeOK' /\ [Next]_vars => EvidenceInv'
<1> SUFFICES ASSUME TypeOK, UnopenedInv, EvidenceInv, TypeOK', [Next]_vars, NEW x \in Experiment
             PROVE  /\ Backed(x, experiments[x].evaluation)'
                    /\ \A p \in Evaluator : Backed(x, measured[p][x])'
                    /\ experiments'[x].promoted => GateReached(x)'
  BY DEF IInv, EvidenceInv
<1>1. CASE HasStatus(x, {"absent"})
  <2>1. ~ClearsGate(x)
    BY <1>1 DEF ClearsGate, UnopenedInv
  <2>2. /\ experiments'[x].evaluation = None /\ ~experiments'[x].promoted
        /\ \A p \in Evaluator : measured'[p][x] = None
    BY <1>1, <2>1, EvidenceSources DEF UnopenedInv
  <2> QED
    BY <2>2 DEF Backed
<1>2. CASE ~HasStatus(x, {"absent"})
  <2>1. /\ GateReached(x) => GateReached(x)'
        /\ \A evaluation \in Evaluation \cup {None} :
               Backed(x, evaluation) => Backed(x, evaluation)'
    BY <1>2, BackingPersists
  <2>2. /\ experiments[x].evaluation \in Evaluation \cup {None}
        /\ \A p \in Evaluator : measured[p][x] \in Evaluation \cup {None}
    BY DEF TypeOK, ExperimentRow
  <2>3. Backed(x, experiments[x].evaluation)'
    BY <2>1, <2>2, EvidenceSources DEF EvidenceInv, Backed
  <2>4. ASSUME NEW p \in Evaluator PROVE Backed(x, measured[p][x])'
    <3>1. CASE measured'[p][x] = measured[p][x]
      BY <2>1, <2>2, <3>1 DEF EvidenceInv, Backed
    <3>2. CASE measured'[p][x] = None
      BY <3>2 DEF Backed
    <3>3. ASSUME NEW leaning \in Leaning, NEW degraded \in BOOLEAN,
                 measured'[p][x] = Measure(x, leaning, degraded)
          PROVE  Backed(x, measured[p][x])'
      <4>1. Measure(x, leaning, degraded) \in Evaluation \cup {None}
        BY MeasureType
      <4>2. Backed(x, Measure(x, leaning, degraded))
        BY MeasureIsBacked
      <4> DEFINE m == Measure(x, leaning, degraded)
      <4>3. PICK held \in Evaluation \cup {None} : held = m
        BY <4>1
      <4>4. Backed(x, held)'
        BY <2>1, <4>2, <4>3
      <4> QED
        BY <3>3, <4>3, <4>4 DEF Backed
    <3> QED
      BY <3>1, <3>2, <3>3, EvidenceSources
  <2>5. experiments'[x].promoted => GateReached(x)'
    BY <2>1, EvidenceSources, GateNeedsEvidence DEF EvidenceInv
  <2> QED
    BY <2>3, <2>4, <2>5
<1> QED
  BY <1>1, <1>2

\* The strengthened invariant holds in every state.
THEOREM ExperimentsInductive == Spec => []IInv
<1>1. Init => IInv
  BY TypeInit, EvidenceInit DEF IInv
<1>2. IInv /\ [Next]_vars => IInv'
  BY TypeStep, UnopenedStep, EvidenceStep DEF IInv
<1> QED
  BY <1>1, <1>2, PTL DEF Spec

\* Whatever races an approval ran, the tables hold the evidence for it.
THEOREM PromotionBacked == Spec => []PromotionIsBackedByData
<1>1. IInv => PromotionIsBackedByData
  BY DEF IInv, EvidenceInv, PromotionIsBackedByData
<1> QED
  BY <1>1, ExperimentsInductive, PTL

\* No stored or pending evaluation overstates the tables.
THEOREM EvidenceNotOverstated == Spec => []EvidenceIsNeverOverstated
<1>1. IInv => EvidenceIsNeverOverstated
  BY DEF IInv, EvidenceInv, Backed, EvidenceIsNeverOverstated
<1> QED
  BY <1>1, ExperimentsInductive, PTL

-----------------------------------------------------------------------------
(***************************************************************************)
(* The promotion record.                                                   *)
(***************************************************************************)

\* A row that was rolled back was promoted, and is past being promoted again.
RecordInv ==
    \A x \in Experiment :
        experiments[x].rolledBackBy # None =>
            experiments[x].promoted /\ ~HasStatus(x, {"promoted"})

\* What each handler writes into a row it may write.
LEMMA RecordSteps ==
    ASSUME TypeOK, UnopenedInv, RecordInv, [Next]_vars, NEW x \in Experiment
    PROVE  /\ experiments[x].promoted =>
                  /\ experiments'[x].promoted
                  /\ experiments'[x].approvedBy = experiments[x].approvedBy
           /\ experiments[x].rolledBackBy # None
                  => experiments'[x].rolledBackBy = experiments[x].rolledBackBy
           /\ experiments'[x].rolledBackBy # None =>
                  experiments'[x].promoted /\ experiments'[x].status # "promoted"
<1> DEFINE Goal ==
       /\ experiments[x].promoted =>
             /\ experiments'[x].promoted
             /\ experiments'[x].approvedBy = experiments[x].approvedBy
       /\ experiments[x].rolledBackBy # None
             => experiments'[x].rolledBackBy = experiments[x].rolledBackBy
       /\ experiments'[x].rolledBackBy # None =>
             experiments'[x].promoted /\ experiments'[x].status # "promoted"
<1> USE DEF HasStatus
<1>0. experiments[x] \in ExperimentRow
  BY DEF TypeOK
<1>1. ASSUME experiments'[x] = experiments[x] PROVE Goal
  BY <1>1 DEF RecordInv
<1>2. ASSUME NEW c \in Challenger, NEW minimum \in Minimums, OpenExperiment(x, c, minimum)
      PROVE  Goal
  <2>1. experiments[x].rolledBackBy = None /\ ~experiments[x].promoted
    BY <1>2 DEF OpenExperiment, UnopenedInv, RecordInv
  <2>2. experiments'[x] = [NoRow EXCEPT !.status = "running", !.challenger = c,
                                        !.minimum = Gate(minimum)]
    BY <1>2 DEF OpenExperiment, TypeOK
  <2> QED
    BY <2>1, <2>2 DEF NoRow
<1>3. ASSUME AbandonExperiment(x) PROVE Goal
  <2>1. experiments'[x] = [experiments[x] EXCEPT !.status = "abandoned"]
    BY <1>3 DEF AbandonExperiment, TypeOK
  <2> QED
    BY <1>0, <2>1 DEF RecordInv, ExperimentRow
<1>4. ASSUME NEW actor \in Human, PromoteChallenger(x, actor) PROVE Goal
  <2>1. experiments'[x] = [experiments[x] EXCEPT !.status = "promoted", !.promoted = TRUE,
                                                 !.approvedBy = actor]
    BY <1>4 DEF PromoteChallenger, Promoted, TypeOK
  <2>2. ~experiments[x].promoted /\ experiments[x].rolledBackBy = None
    BY <1>4 DEF PromoteChallenger, RecordInv
  <2> QED
    BY <1>0, <2>1, <2>2 DEF ExperimentRow
<1>5. ASSUME NEW actor \in Human, RollbackPromotion(x, actor) PROVE Goal
  <2>1. experiments'[x] = RolledBack(experiments[x], actor)
    BY <1>5 DEF RollbackPromotion, TypeOK
  <2>2. experiments[x].promoted /\ experiments[x].rolledBackBy = None
    BY <1>5 DEF RollbackPromotion, RecordInv
  <2> QED
    BY <1>0, <2>1, <2>2 DEF RolledBack, ExperimentRow
<1>6. ASSUME NEW p \in Evaluator, CommitEvaluation(p) PROVE Goal
  <2>1. experiments'[x] \in {experiments[x], Evaluated(experiments[x], measured[p][x])}
    BY <1>6 DEF CommitEvaluation
  <2> QED
    BY <1>0, <1>1, <2>1 DEF Evaluated, ExperimentRow, RecordInv
<1>7. ASSUME NEW y \in Experiment, y # x,
             \/ \E c \in Challenger, minimum \in Minimums : OpenExperiment(y, c, minimum)
             \/ AbandonExperiment(y)
             \/ \E actor \in Human : PromoteChallenger(y, actor) \/ RollbackPromotion(y, actor)
      PROVE  experiments'[x] = experiments[x]
  BY <1>7 DEF OpenExperiment, AbandonExperiment, PromoteChallenger, Promoted, RollbackPromotion,
              TypeOK
<1>8. CASE UNCHANGED experiments
  BY <1>1, <1>8
<1> QED
  BY <1>1, <1>2, <1>3, <1>4, <1>5, <1>6, <1>7, <1>8
  DEF Next, HumanStep, OpenStep, ForecastStep, SettleStep, EvaluationStep, Progress, vars,
      tables, BeginForecast, CommitForecast, CommitEmptyForecast, AbortForecast, SettleOutcome,
      BeginEvaluation, ScoreExperiment, WriteEvaluation, AbortEvaluation

\* A promotion, its approver and its rollback are never erased, not even by
\* an evaluation that read the row before the promotion.
THEOREM PromotionRecorded == Spec => PromotionIsHistory
<1>1. Init => RecordInv
  BY DEF Init, RecordInv, NoRow
<1>2. IInv /\ RecordInv /\ [Next]_vars => RecordInv'
  BY RecordSteps DEF IInv, RecordInv, HasStatus
<1>3. IInv /\ RecordInv /\ [Next]_vars =>
         \A x \in Experiment : experiments[x].promoted =>
             /\ experiments'[x].promoted
             /\ experiments'[x].approvedBy = experiments[x].approvedBy
             /\ experiments[x].rolledBackBy # None
                    => experiments'[x].rolledBackBy = experiments[x].rolledBackBy
  BY RecordSteps DEF IInv
<1> QED
  BY <1>1, <1>2, <1>3, ExperimentsInductive, PTL DEF Spec, PromotionIsHistory

-----------------------------------------------------------------------------
(***************************************************************************)
(* Refinement.  When the owner decides between evaluations, an evaluation  *)
(* holds only rows that are open, so its blind UPDATE undoes no decision.  *)
(***************************************************************************)

IsOpen(x) == HasStatus(x, {"running", "evaluated"})

\* Evaluations in progress hold open rows, idle ones hold nothing.
HandsInv ==
    \A p \in Evaluator, x \in Experiment :
        (x \in todo[p] \/ x \in pending[p] \/ measured[p][x] # None) => active[p] /\ IsOpen(x)

\* Promotion and status agree, and an unopened row has no approver, no answer
\* and no place in a forecast run.
LedgerInv ==
    \A x \in Experiment :
        /\ experiments[x].promoted <=> HasStatus(x, {"promoted", "rolled_back"})
        /\ HasStatus(x, {"absent"}) =>
              /\ experiments[x].approvedBy = None
              /\ x \notin run.experiments
              /\ \A e \in Episode : predictions[x][e] = "none"

SerialInv == IInv /\ HandsInv /\ LedgerInv

LEMMA SerialStepIsStep == [SerialNext]_vars => [Next]_vars
BY DEF SerialNext, Next

\* A commit writes only rows that were, and so stay, open.
LEMMA CommitKeepsDecisions ==
    ASSUME TypeOK, HandsInv, NEW p \in Evaluator, CommitEvaluation(p), NEW x \in Experiment
    PROVE  /\ experiments'[x].approvedBy = experiments[x].approvedBy
           /\ experiments'[x].promoted = experiments[x].promoted
           /\ experiments'[x].minimum = experiments[x].minimum
           /\ \/ experiments'[x].status = experiments[x].status
              \/ IsOpen(x) /\ experiments'[x].status = "evaluated"
<1>1. experiments[x] \in ExperimentRow
  BY DEF TypeOK
<1>2. \/ experiments'[x] = experiments[x]
      \/ x \in pending[p] /\ experiments'[x] = Evaluated(experiments[x], measured[p][x])
  BY DEF CommitEvaluation
<1> QED
  BY <1>1, <1>2 DEF Evaluated, ExperimentRow, HandsInv

LEMMA SerialInit == Init => HandsInv /\ LedgerInv
BY DEF Init, HandsInv, LedgerInv, NoRow, HasStatus

LEMMA HandsStep == IInv /\ HandsInv /\ [SerialNext]_vars => HandsInv'
<1> SUFFICES ASSUME TypeOK, HandsInv, [SerialNext]_vars
             PROVE  HandsInv'
  BY DEF IInv
<1> USE DEF HandsInv, IsOpen, HasStatus
<1>1. CASE UNCHANGED <<experiments, evaluator>>
  BY <1>1 DEF evaluator
<1>2. ASSUME NEW y \in Experiment, NEW c \in Challenger, NEW minimum \in Minimums,
             OpenExperiment(y, c, minimum)
      PROVE  HandsInv'
  BY <1>2 DEF OpenExperiment, TypeOK, evaluator
<1>3. CASE Quiet /\ HumanStep
  <2>1. UNCHANGED evaluator
    BY <1>3 DEF HumanStep, AbandonExperiment, PromoteChallenger, Promoted, RollbackPromotion
  <2> QED
    BY <1>3, <2>1 DEF Quiet, evaluator
<1>4. ASSUME NEW p \in Evaluator, BeginEvaluation(p) PROVE HandsInv'
  BY <1>4 DEF BeginEvaluation, OpenRows, TypeOK, tables
<1>5. ASSUME NEW p \in Evaluator, NEW y \in Experiment, ScoreExperiment(p, y) PROVE HandsInv'
  BY <1>5 DEF ScoreExperiment, TypeOK, tables
<1>6. ASSUME NEW p \in Evaluator, NEW y \in Experiment, WriteEvaluation(p, y) PROVE HandsInv'
  BY <1>6 DEF WriteEvaluation, Computed, TypeOK, tables
<1>7. ASSUME NEW p \in Evaluator, CommitEvaluation(p) PROVE HandsInv'
  <2>1. \A x \in Experiment : IsOpen(x) => IsOpen(x)'
    BY <1>7, CommitKeepsDecisions
  <2>2. \A q \in Evaluator \ {p} :
           /\ active'[q] = active[q] /\ todo'[q] = todo[q] /\ pending'[q] = pending[q]
           /\ measured'[q] = measured[q]
    BY <1>7 DEF CommitEvaluation, EndEvaluation, TypeOK
  <2>3. todo'[p] = {} /\ pending'[p] = {} /\ \A x \in Experiment : measured'[p][x] = None
    BY <1>7 DEF CommitEvaluation, EndEvaluation, TypeOK
  <2> QED
    BY <2>1, <2>2, <2>3
<1>8. ASSUME NEW p \in Evaluator, AbortEvaluation(p) PROVE HandsInv'
  BY <1>8 DEF AbortEvaluation, EndEvaluation, TypeOK, tables
<1> QED
  BY <1>1, <1>2, <1>3, <1>4, <1>5, <1>6, <1>7, <1>8
  DEF SerialNext, OpenStep, ForecastStep, SettleStep, EvaluationStep, Progress, vars, tables,
      BeginForecast, CommitForecast, CommitEmptyForecast, AbortForecast, SettleOutcome

LEMMA LedgerStep == IInv /\ HandsInv /\ LedgerInv /\ [SerialNext]_vars => LedgerInv'
<1> SUFFICES ASSUME TypeOK, HandsInv, LedgerInv, [SerialNext]_vars
             PROVE  LedgerInv'
  BY DEF IInv
<1> USE DEF LedgerInv, HasStatus
<1>1. CASE UNCHANGED <<experiments, predictions, run>>
  BY <1>1
<1>2. ASSUME NEW y \in Experiment, NEW c \in Challenger, NEW minimum \in Minimums,
             OpenExperiment(y, c, minimum)
      PROVE  LedgerInv'
  BY <1>2 DEF OpenExperiment, NoRow, TypeOK
<1>3. ASSUME NEW y \in Experiment, AbandonExperiment(y) PROVE LedgerInv'
  <2>1. experiments[y] \in ExperimentRow
    BY DEF TypeOK
  <2>2. /\ experiments'[y] = [experiments[y] EXCEPT !.status = "abandoned"]
        /\ \A x \in Experiment \ {y} : experiments'[x] = experiments[x]
    BY <1>3 DEF AbandonExperiment, TypeOK
  <2>3. experiments[y].status = "running" /\ UNCHANGED <<predictions, run>>
    BY <1>3 DEF AbandonExperiment
  <2> QED
    BY <2>1, <2>2, <2>3 DEF ExperimentRow
<1>4. ASSUME NEW y \in Experiment, NEW actor \in Human, PromoteChallenger(y, actor)
      PROVE  LedgerInv'
  <2>1. experiments[y] \in ExperimentRow
    BY DEF TypeOK
  <2>2. /\ experiments'[y] = [experiments[y] EXCEPT !.status = "promoted", !.promoted = TRUE,
                                                    !.approvedBy = actor]
        /\ \A x \in Experiment \ {y} : experiments'[x] = experiments[x]
    BY <1>4 DEF PromoteChallenger, Promoted, TypeOK
  <2>3. UNCHANGED <<predictions, run>>
    BY <1>4 DEF PromoteChallenger, Promoted
  <2>4. experiments'[y].promoted = TRUE /\ experiments'[y].status = "promoted"
    BY <2>1, <2>2 DEF ExperimentRow
  <2> QED
    BY <2>2, <2>3, <2>4
<1>5. ASSUME NEW y \in Experiment, NEW actor \in Human, RollbackPromotion(y, actor)
      PROVE  LedgerInv'
  <2>1. experiments[y] \in ExperimentRow
    BY DEF TypeOK
  <2>2. /\ experiments'[y] = RolledBack(experiments[y], actor)
        /\ \A x \in Experiment \ {y} : experiments'[x] = experiments[x]
    BY <1>5 DEF RollbackPromotion, TypeOK
  <2>3. experiments[y].promoted /\ UNCHANGED <<predictions, run>>
    BY <1>5 DEF RollbackPromotion
  <2>4. experiments'[y].promoted /\ experiments'[y].status = "rolled_back"
    BY <2>1, <2>2, <2>3 DEF RolledBack, ExperimentRow
  <2> QED
    BY <2>2, <2>3, <2>4
<1>6. ASSUME BeginForecast PROVE LedgerInv'
  BY <1>6 DEF BeginForecast, tables
<1>7. ASSUME NEW e \in Episode, CommitForecast(e) PROVE LedgerInv'
  <2>1. \A x \in Experiment : x \notin run.experiments => predictions'[x] = predictions[x]
    BY <1>7 DEF CommitForecast, Answered, TypeOK
  <2>2. run'.experiments = {} /\ UNCHANGED experiments
    BY <1>7 DEF CommitForecast
  <2>3. \A x \in Experiment :
           HasStatus(x, {"absent"}) => \A d \in Episode : predictions'[x][d] = "none"
    BY <2>1
  <2> QED
    BY <2>2, <2>3
<1>8. CASE CommitEmptyForecast \/ AbortForecast
  BY <1>8 DEF CommitEmptyForecast, AbortForecast, tables
<1>9. ASSUME NEW p \in Evaluator, CommitEvaluation(p) PROVE LedgerInv'
  <2>1. UNCHANGED <<predictions, run>>
    BY <1>9 DEF CommitEvaluation
  <2>2. ASSUME NEW x \in Experiment
        PROVE  /\ experiments'[x].approvedBy = experiments[x].approvedBy
               /\ experiments'[x].promoted = experiments[x].promoted
               /\ \/ experiments'[x].status = experiments[x].status
                  \/ /\ experiments[x].status \in {"running", "evaluated"}
                     /\ experiments'[x].status = "evaluated"
    BY <1>9, CommitKeepsDecisions DEF IsOpen
  <2> QED
    BY <2>1, <2>2, ZenonT(60)
<1> QED
  BY <1>1, <1>2, <1>3, <1>4, <1>5, <1>6, <1>7, <1>8, <1>9
  DEF SerialNext, HumanStep, OpenStep, ForecastStep, SettleStep, EvaluationStep, Progress, vars,
      tables, SettleOutcome, BeginEvaluation, ScoreExperiment, WriteEvaluation, AbortEvaluation

LEMMA SerialInductive == SerialSpec => []SerialInv
<1>1. Init => SerialInv
  BY TypeInit, EvidenceInit, SerialInit DEF SerialInv, IInv
<1>2. SerialInv /\ [SerialNext]_vars => SerialInv'
  <2> SUFFICES ASSUME SerialInv, [SerialNext]_vars PROVE SerialInv'
    OBVIOUS
  <2>1. [Next]_vars
    BY SerialStepIsStep
  <2>2. IInv'
    BY <2>1, TypeStep, UnopenedStep, EvidenceStep DEF SerialInv, IInv
  <2> QED
    BY <2>2, HandsStep, LedgerStep DEF SerialInv
<1> QED
  BY <1>1, <1>2, PTL DEF SerialSpec

\* An unopened row has no sample.
LEMMA UnopenedHasNoSample ==
    ASSUME LedgerInv, NEW x \in Experiment, HasStatus(x, {"absent"})
    PROVE  ~GateReached(x)
<1>1. SettledMarkets(x) = {}
  BY DEF LedgerInv, SettledMarkets
<1> QED
  BY <1>1, FS_EmptySet DEF GateReached

\* Evidence is gathered, never lost, and only for opened rows.
LEMMA SampleGrows ==
    ASSUME SerialInv, SerialInv', [Next]_vars
    PROVE  /\ {x \in Experiment : GateReached(x)} \subseteq {x \in Experiment : GateReached(x)}'
           /\ \A x \in Experiment : GateReached(x)' => experiments'[x].status # "absent"
<1>1. ASSUME NEW x \in Experiment, GateReached(x) PROVE GateReached(x)'
  BY <1>1, UnopenedHasNoSample, BackingPersists DEF SerialInv, IInv
<1>2. ASSUME NEW x \in Experiment, experiments'[x].status = "absent" PROVE ~GateReached(x)'
  <2>1. SettledMarkets(x)' = {}
    BY <1>2 DEF SerialInv, LedgerInv, HasStatus, SettledMarkets
  <2> QED
    BY <2>1, FS_EmptySet DEF GateReached
<1> QED
  BY <1>1, <1>2

\* A step that leaves the tables a sample reads, and the gates, as they were
\* leaves every sample where it was.
LEMMA SampleKept ==
    ASSUME TypeOK, UNCHANGED <<predictions, outcome>>,
           NEW x \in Experiment, experiments'[x].minimum = experiments[x].minimum
    PROVE  GateReached(x)' <=> GateReached(x)
<1>1. SettledMarkets(x)' = SettledMarkets(x)
  BY DEF SettledMarkets
<1>2. SettledGames(x)' = SettledGames(x)
  BY <1>1 DEF SettledGames
<1> QED
  BY <1>1, <1>2 DEF GateReached

\* Where a decision stands, by status.
LEMMA DecisionValues ==
    /\ DecisionAt("absent") = "unopened"
    /\ DecisionAt("running") = "open" /\ DecisionAt("evaluated") = "open"
    /\ DecisionAt("promoted") = "approved"
    /\ DecisionAt("rolled_back") = "withdrawn"
    /\ DecisionAt("abandoned") = "closed"
BY DEF DecisionAt

\* A handler that writes one row moves one decision.
LEMMA DecisionMoves ==
    ASSUME NEW x \in Experiment, NEW from, NEW to,
           \A y \in Experiment \ {x} : experiments'[y] = experiments[y],
           DecisionAt(experiments[x].status) = from,
           DecisionAt(experiments'[x].status) = to
    PROVE  Governance!Decide(x, from, to)
<1> DEFINE decision == [y \in Experiment |-> DecisionAt(experiments[y].status)]
<1>1. decision[x] = from
  OBVIOUS
<1>2. decision' = [decision EXCEPT ![x] = to]
  OBVIOUS
<1> QED
  BY <1>1, <1>2 DEF Governance!Decide

\* Every step of the serial system is a step of PromotionGovernance, or none.
LEMMA GovernanceStep ==
    SerialInv /\ SerialInv' /\ [SerialNext]_vars => [Governance!GovNext]_(Governance!govVars)
<1> SUFFICES ASSUME SerialInv, SerialInv', [SerialNext]_vars
             PROVE  [Governance!GovNext]_(Governance!govVars)
  OBVIOUS
<1> DEFINE decision   == [x \in Experiment |-> DecisionAt(experiments[x].status)]
           sufficient == {x \in Experiment : GateReached(x)}
           approver   == [x \in Experiment |-> experiments[x].approvedBy]
<1>0. TypeOK /\ [Next]_vars
  BY SerialStepIsStep DEF SerialInv, IInv
<1>1. /\ sufficient \subseteq sufficient'
      /\ \A x \in Experiment : GateReached(x)' => experiments'[x].status # "absent"
  BY <1>0, SampleGrows
<1>2. ASSUME UNCHANGED experiments PROVE [Governance!GovNext]_(Governance!govVars)
  <2>1. UNCHANGED <<decision, approver>>
    BY <1>2
  <2>2. sufficient' \subseteq {x \in Experiment : decision[x] # "unopened"}
    <3>1. \A x \in Experiment : experiments[x].status \in Status
      BY <1>0 DEF TypeOK, ExperimentRow
    <3> QED
      BY <1>1, <1>2, <3>1 DEF DecisionAt, Status
  <2>3. Governance!Gather
    BY <1>1, <2>1, <2>2 DEF Governance!Gather
  <2> QED
    BY <2>3 DEF Governance!GovNext
<1>3. ASSUME NEW x \in Experiment, NEW c \in Challenger, NEW minimum \in Minimums,
             OpenExperiment(x, c, minimum)
      PROVE  Governance!Open(x)
  <2>1. /\ experiments[x].status = "absent" /\ experiments[x].approvedBy = None
        /\ UNCHANGED <<predictions, outcome>>
    BY <1>3 DEF OpenExperiment, HasStatus, SerialInv, LedgerInv
  <2>2. /\ experiments'[x].status = "running" /\ experiments'[x].approvedBy = None
        /\ \A y \in Experiment \ {x} : experiments'[y] = experiments[y]
    BY <1>0, <1>3 DEF OpenExperiment, NoRow, TypeOK
  <2>3. Governance!Decide(x, "unopened", "open")
    BY <2>1, <2>2, DecisionMoves, DecisionValues
  <2>4. approver' = approver
    BY <2>1, <2>2
  <2>5. SettledMarkets(x)' = {}
    BY <2>1 DEF SerialInv, LedgerInv, HasStatus, SettledMarkets
  <2>6. ~GateReached(x) /\ ~GateReached(x)'
    BY <2>1, <2>5, UnopenedHasNoSample, FS_EmptySet DEF SerialInv, HasStatus, GateReached
  <2>7. sufficient' = sufficient
    BY <1>0, <2>1, <2>2, <2>6, SampleKept
  <2> QED
    BY <2>3, <2>4, <2>7 DEF Governance!Open
<1>4. ASSUME NEW x \in Experiment, AbandonExperiment(x) PROVE Governance!Close(x)
  <2>0. experiments[x] \in ExperimentRow
    BY <1>0 DEF TypeOK
  <2>1. experiments[x].status = "running" /\ UNCHANGED <<predictions, outcome>>
    BY <1>4 DEF AbandonExperiment, HasStatus
  <2>2. /\ experiments'[x] = [experiments[x] EXCEPT !.status = "abandoned"]
        /\ \A y \in Experiment \ {x} : experiments'[y] = experiments[y]
    BY <1>0, <1>4 DEF AbandonExperiment, TypeOK
  <2>3. /\ experiments'[x].status = "abandoned"
        /\ experiments'[x].approvedBy = experiments[x].approvedBy
        /\ experiments'[x].minimum = experiments[x].minimum
    BY <2>0, <2>2 DEF ExperimentRow
  <2>4. Governance!Decide(x, "open", "closed")
    BY <2>1, <2>2, <2>3, DecisionMoves, DecisionValues
  <2>5. approver' = approver /\ sufficient' = sufficient
    BY <1>0, <2>1, <2>2, <2>3, SampleKept
  <2> QED
    BY <2>4, <2>5 DEF Governance!Close
<1>5. ASSUME NEW x \in Experiment, NEW actor \in Human, PromoteChallenger(x, actor)
      PROVE  Governance!Approve(x, actor)
  <2>0. experiments[x] \in ExperimentRow
    BY <1>0 DEF TypeOK
  <2>1. experiments[x].status = "evaluated" /\ UNCHANGED <<predictions, outcome>> /\ ClearsGate(x)
    BY <1>5 DEF PromoteChallenger, Promoted, HasStatus
  <2>2. /\ experiments'[x] = [experiments[x] EXCEPT !.status = "promoted", !.promoted = TRUE,
                                                    !.approvedBy = actor]
        /\ \A y \in Experiment \ {x} : experiments'[y] = experiments[y]
    BY <1>0, <1>5 DEF PromoteChallenger, Promoted, TypeOK
  <2>3. /\ experiments'[x].status = "promoted"
        /\ experiments'[x].approvedBy = actor
        /\ experiments'[x].minimum = experiments[x].minimum
    BY <2>0, <2>2 DEF ExperimentRow
  <2>4. Governance!Decide(x, "open", "approved")
    BY <2>1, <2>2, <2>3, DecisionMoves, DecisionValues
  <2>5. approver' = [approver EXCEPT ![x] = actor]
    BY <2>2, <2>3
  <2>6. sufficient' = sufficient
    BY <1>0, <2>1, <2>2, <2>3, SampleKept
  <2>7. x \in sufficient
    BY <2>1, GateNeedsEvidence DEF SerialInv, IInv, EvidenceInv
  <2> QED
    BY <2>4, <2>5, <2>6, <2>7 DEF Governance!Approve
<1>6. ASSUME NEW x \in Experiment, NEW actor \in Human, RollbackPromotion(x, actor)
      PROVE  Governance!Withdraw(x)
  <2>0. experiments[x] \in ExperimentRow
    BY <1>0 DEF TypeOK
  <2>1. experiments[x].status = "promoted" /\ UNCHANGED <<predictions, outcome>>
    BY <1>6 DEF RollbackPromotion, HasStatus
  <2>2. /\ experiments'[x] = RolledBack(experiments[x], actor)
        /\ \A y \in Experiment \ {x} : experiments'[y] = experiments[y]
    BY <1>0, <1>6 DEF RollbackPromotion, TypeOK
  <2>3. /\ experiments'[x].status = "rolled_back"
        /\ experiments'[x].approvedBy = experiments[x].approvedBy
        /\ experiments'[x].minimum = experiments[x].minimum
    BY <2>0, <2>2 DEF RolledBack, ExperimentRow
  <2>4. Governance!Decide(x, "approved", "withdrawn")
    BY <2>1, <2>2, <2>3, DecisionMoves, DecisionValues
  <2>5. approver' = approver /\ sufficient' = sufficient
    BY <1>0, <2>1, <2>2, <2>3, SampleKept
  <2> QED
    BY <2>4, <2>5 DEF Governance!Withdraw
<1>7. ASSUME NEW p \in Evaluator, CommitEvaluation(p) PROVE UNCHANGED Governance!govVars
  <2>1. UNCHANGED <<predictions, outcome>>
    BY <1>7 DEF CommitEvaluation
  <2>2. \A x \in Experiment :
           /\ experiments'[x].approvedBy = experiments[x].approvedBy
           /\ experiments'[x].minimum = experiments[x].minimum
           /\ \/ experiments'[x].status = experiments[x].status
              \/ IsOpen(x) /\ experiments'[x].status = "evaluated"
    BY <1>0, <1>7, CommitKeepsDecisions DEF SerialInv
  <2>3. decision' = decision
    BY <2>2, DecisionValues DEF IsOpen, HasStatus
  <2>4. approver' = approver /\ sufficient' = sufficient
    BY <1>0, <2>1, <2>2, SampleKept
  <2> QED
    BY <2>3, <2>4 DEF Governance!govVars
<1> QED
  BY <1>2, <1>3, <1>4, <1>5, <1>6, <1>7
  DEF Governance!GovNext, SerialNext, HumanStep, OpenStep, ForecastStep, SettleStep,
      EvaluationStep, Progress, vars, tables, BeginForecast, CommitForecast, CommitEmptyForecast,
      AbortForecast, SettleOutcome, BeginEvaluation, ScoreExperiment, WriteEvaluation,
      AbortEvaluation

\* The experiments table, decided on between evaluations, keeps the promise of
\* PromotionGovernance.
THEOREM SerialImplementsGovernance == SerialSpec => ImplementsGovernance
<1>1. Init => Governance!GovInit
  <2> SUFFICES ASSUME Init PROVE Governance!GovInit
    OBVIOUS
  <2>1. LedgerInv
    BY SerialInit
  <2>2. {x \in Experiment : GateReached(x)} = {}
    BY <2>1, UnopenedHasNoSample DEF Init, NoRow, HasStatus
  <2> QED
    BY <2>2 DEF Init, NoRow, Governance!GovInit, DecisionAt
<1> QED
  BY <1>1, GovernanceStep, SerialInductive, PTL
  DEF SerialSpec, ImplementsGovernance, Governance!GovSpec

\* Decided on between evaluations, a promotion can always be rolled back.
THEOREM SerialPromotionCanBeRolledBack == SerialSpec => []PromotionCanBeRolledBack
<1>1. SerialInv => PromotionCanBeRolledBack
  BY DEF SerialInv, LedgerInv, PromotionCanBeRolledBack
<1> QED
  BY <1>1, SerialInductive, PTL

\* Only an owner's promotion makes a row promoted, on the evaluation the row shows;
\* no evaluation writes to a row that is not open.
LEMMA EvidenceStaysShown ==
    SerialInv /\ PromotionShowsItsEvidence /\ [SerialNext]_vars => PromotionShowsItsEvidence'
<1> SUFFICES ASSUME SerialInv, PromotionShowsItsEvidence, [SerialNext]_vars,
                    NEW x \in Experiment, experiments'[x].promoted
             PROVE  ClearsGate(x)'
  BY DEF PromotionShowsItsEvidence
<1>0. experiments \in [Experiment -> ExperimentRow]
  BY DEF SerialInv, IInv, TypeOK
<1>1. CASE experiments'[x] = experiments[x]
  BY <1>1 DEF PromotionShowsItsEvidence, ClearsGate
<1>2. ASSUME NEW y \in Experiment, NEW c \in Challenger, NEW minimum \in Minimums,
             OpenExperiment(y, c, minimum)
      PROVE  ClearsGate(x)'
  <2>1. y # x
    BY <1>0, <1>2 DEF OpenExperiment, NoRow
  <2> QED
    BY <1>0, <1>1, <1>2, <2>1 DEF OpenExperiment
<1>3. ASSUME NEW y \in Experiment, AbandonExperiment(y) PROVE ClearsGate(x)'
  <2>1. experiments[y].status = "running" /\ ~experiments[y].promoted
    BY <1>3 DEF AbandonExperiment, HasStatus, SerialInv, LedgerInv
  <2>2. experiments' = [experiments EXCEPT ![y].status = "abandoned"]
    BY <1>3 DEF AbandonExperiment
  <2>3. y # x
    BY <1>0, <2>1, <2>2 DEF ExperimentRow
  <2> QED
    BY <1>0, <1>1, <2>2, <2>3
<1>4. ASSUME NEW y \in Experiment, NEW actor \in Human, PromoteChallenger(y, actor)
      PROVE  ClearsGate(x)'
  <2>1. /\ experiments'[y] = [experiments[y] EXCEPT !.status = "promoted", !.promoted = TRUE,
                                                    !.approvedBy = actor]
        /\ \A z \in Experiment \ {y} : experiments'[z] = experiments[z]
    BY <1>0, <1>4 DEF PromoteChallenger, Promoted
  <2>2. CASE x = y
    <3>1. /\ experiments'[x].evaluation = experiments[x].evaluation
          /\ experiments'[x].minimum = experiments[x].minimum
      <4>1. /\ experiments[x] \in ExperimentRow
            /\ experiments'[x] = [experiments[x] EXCEPT !.status = "promoted", !.promoted = TRUE,
                                                        !.approvedBy = actor]
        BY <1>0, <2>1, <2>2
      <4> QED
        BY <4>1 DEF ExperimentRow
    <3>2. ClearsGate(x)
      BY <1>4, <2>2 DEF PromoteChallenger
    <3> QED
      BY <3>1, <3>2 DEF ClearsGate
  <2> QED
    BY <1>1, <2>1, <2>2
<1>5. ASSUME NEW y \in Experiment, NEW actor \in Human, RollbackPromotion(y, actor)
      PROVE  ClearsGate(x)'
  <2>1. /\ experiments'[y] = RolledBack(experiments[y], actor) /\ experiments[y].promoted
        /\ \A z \in Experiment \ {y} : experiments'[z] = experiments[z]
    BY <1>0, <1>5 DEF RollbackPromotion
  <2>2. CASE x = y
    <3>1. /\ experiments'[x].evaluation = experiments[x].evaluation
          /\ experiments'[x].minimum = experiments[x].minimum
      <4>1. experiments[x] \in ExperimentRow /\ experiments'[x] = RolledBack(experiments[x], actor)
        BY <1>0, <2>1, <2>2
      <4> QED
        BY <4>1 DEF RolledBack, ExperimentRow
    <3>2. ClearsGate(x)
      BY <2>1, <2>2 DEF PromotionShowsItsEvidence
    <3> QED
      BY <3>1, <3>2 DEF ClearsGate
  <2> QED
    BY <1>1, <2>1, <2>2
<1>6. ASSUME NEW p \in Evaluator, CommitEvaluation(p) PROVE ClearsGate(x)'
  <2>1. /\ experiments[x].promoted
        /\ x \in pending[p] => IsOpen(x)
    BY <1>6, CommitKeepsDecisions DEF SerialInv, IInv, HandsInv
  <2>2. ~IsOpen(x)
    BY <2>1 DEF IsOpen, HasStatus, SerialInv, LedgerInv
  <2> QED
    BY <1>1, <1>6, <2>1, <2>2 DEF CommitEvaluation
<1>7. CASE UNCHANGED experiments
  BY <1>1, <1>7
<1> QED
  BY <1>2, <1>3, <1>4, <1>5, <1>6, <1>7
  DEF SerialNext, HumanStep, OpenStep, ForecastStep, SettleStep, EvaluationStep, Progress, vars,
      tables, BeginForecast, CommitForecast, CommitEmptyForecast, AbortForecast, SettleOutcome,
      BeginEvaluation, ScoreExperiment, WriteEvaluation, AbortEvaluation

\* Decided on between evaluations, a promoted row goes on showing the evaluation it
\* was approved on: a verdict that clears its gate, through rollback and every
\* later evaluation.
THEOREM SerialPromotionShowsItsEvidence == SerialSpec => []PromotionShowsItsEvidence
<1>1. Init => PromotionShowsItsEvidence
  BY DEF Init, NoRow, PromotionShowsItsEvidence
<1> QED
  BY <1>1, EvidenceStaysShown, SerialInductive, PTL DEF SerialSpec

\* A promotion of c that stands.
Stands(x, c) == HasStatus(x, {"promoted"}) /\ experiments[x].challenger = c

LEMMA ChampionsStand ==
    ASSUME SerialInv, ChampionsStandOnAPromotion, [SerialNext]_vars,
           NEW c \in Challenger, stage'[c] = "champion"
    PROVE  \E x \in Experiment : Stands(x, c)'
<1>0. /\ stage \in [Model -> Stages] /\ c \in Model /\ c # Baseline
      /\ experiments = [x \in Experiment |-> experiments[x]]
      /\ \A x \in Experiment : experiments[x] \in ExperimentRow
  BY ExperimentsAssumption DEF SerialInv, IInv, TypeOK, Model
<1>1. ASSUME stage[c] = "champion",
             \A x \in Experiment : Stands(x, c) => experiments'[x] = experiments[x]
      PROVE  \E x \in Experiment : Stands(x, c)'
  <2>1. PICK x \in Experiment : Stands(x, c)
    BY <1>1 DEF ChampionsStandOnAPromotion, Stands
  <2> QED
    BY <1>1, <2>1 DEF Stands, HasStatus
<1>2. CASE UNCHANGED <<experiments, stage>>
  BY <1>1, <1>2
<1>3. ASSUME NEW y \in Experiment, NEW d \in Challenger, NEW minimum \in Minimums,
             OpenExperiment(y, d, minimum)
      PROVE  \E x \in Experiment : Stands(x, c)'
  <2>1. stage[c] = "champion"
    <3>1. stage' = [stage EXCEPT ![d] = Registered(d, "shadow")]
      BY <1>3 DEF OpenExperiment
    <3> QED
      BY <1>0, <3>1 DEF Registered
  <2>2. \A x \in Experiment : Stands(x, c) => experiments'[x] = experiments[x]
    BY <1>0, <1>3 DEF OpenExperiment, Stands, HasStatus
  <2> QED
    BY <1>1, <2>1, <2>2
<1>4. ASSUME NEW y \in Experiment, AbandonExperiment(y)
      PROVE  \E x \in Experiment : Stands(x, c)'
  <2>1. \A x \in Experiment : Stands(x, c) => experiments'[x] = experiments[x]
    BY <1>0, <1>4 DEF AbandonExperiment, Stands, HasStatus
  <2>2. stage' = stage
    BY <1>4 DEF AbandonExperiment
  <2> QED
    BY <1>1, <2>1, <2>2
<1>5. ASSUME NEW y \in Experiment, NEW actor \in Human, PromoteChallenger(y, actor)
      PROVE  \E x \in Experiment : Stands(x, c)'
  <2>1. /\ experiments'[y] = [experiments[y] EXCEPT !.status = "promoted", !.promoted = TRUE,
                                                    !.approvedBy = actor]
        /\ \A z \in Experiment \ {y} : experiments'[z] = experiments[z]
        /\ stage' = [stage EXCEPT ![Baseline] = "deprecated",
                                  ![experiments[y].challenger] = "champion"]
        /\ experiments[y].status = "evaluated"
    BY <1>0, <1>5 DEF PromoteChallenger, Promoted, HasStatus
  <2>2. CASE experiments[y].challenger = c
    <3>1. experiments'[y].status = "promoted" /\ experiments'[y].challenger = c
      <4>1. experiments[y] \in ExperimentRow
        BY <1>0
      <4> QED
        BY <2>1, <2>2, <4>1 DEF ExperimentRow
    <3> QED
      BY <3>1 DEF Stands, HasStatus
  <2>3. CASE experiments[y].challenger # c
    <3>1. stage[c] = "champion"
      BY <1>0, <2>1, <2>3
    <3>2. \A x \in Experiment : Stands(x, c) => experiments'[x] = experiments[x]
      BY <2>1 DEF Stands, HasStatus
    <3> QED
      BY <1>1, <3>1, <3>2
  <2> QED
    BY <2>2, <2>3
<1>6. ASSUME NEW y \in Experiment, NEW actor \in Human, RollbackPromotion(y, actor)
      PROVE  \E x \in Experiment : Stands(x, c)'
  <2>1. /\ \A z \in Experiment \ {y} : experiments'[z] = experiments[z]
        /\ stage' = [stage EXCEPT ![Baseline] = "champion",
                                  ![experiments[y].challenger] = "shadow"]
    BY <1>0, <1>6 DEF RollbackPromotion
  <2>2. experiments[y].challenger # c /\ stage[c] = "champion"
    BY <1>0, <2>1
  <2>3. \A x \in Experiment : Stands(x, c) => experiments'[x] = experiments[x]
    BY <2>1, <2>2 DEF Stands
  <2> QED
    BY <1>1, <2>2, <2>3
<1>7. ASSUME NEW p \in Evaluator, CommitEvaluation(p)
      PROVE  \E x \in Experiment : Stands(x, c)'
  <2>1. \A x \in Experiment : Stands(x, c) => experiments'[x] = experiments[x]
    <3> TAKE x \in Experiment
    <3>1. x \in pending[p] => IsOpen(x)
      BY <1>7 DEF SerialInv, HandsInv
    <3> QED
      BY <1>7, <3>1 DEF Stands, IsOpen, HasStatus, CommitEvaluation
  <2>2. stage' = stage
    BY <1>7 DEF CommitEvaluation
  <2> QED
    BY <1>1, <2>1, <2>2
<1>8. CASE experiments' = experiments /\ stage' = [stage EXCEPT ![Baseline] = Registered(Baseline, "champion")]
  <2>1. stage[c] = "champion"
    BY <1>0, <1>8
  <2> QED
    BY <1>1, <1>8, <2>1
<1> QED
  BY <1>2, <1>3, <1>4, <1>5, <1>6, <1>7, <1>8
  DEF SerialNext, HumanStep, OpenStep, ForecastStep, SettleStep, EvaluationStep, Progress, vars,
      tables, BeginForecast, CommitForecast, CommitEmptyForecast, AbortForecast, SettleOutcome,
      BeginEvaluation, ScoreExperiment, WriteEvaluation, AbortEvaluation

\* When the owner decides between evaluations, no version but the one the forecast
\* run registers is champion without a promotion that stands, for any number of
\* challengers, each with any number of experiments (ensure_challenger_version).
THEOREM SerialChampionsStandOnAPromotion == SerialSpec => []ChampionsStandOnAPromotion
<1>1. Init => ChampionsStandOnAPromotion
  BY DEF Init, Model, ChampionsStandOnAPromotion
<1>2. SerialInv /\ ChampionsStandOnAPromotion /\ [SerialNext]_vars => ChampionsStandOnAPromotion'
  BY ChampionsStand DEF ChampionsStandOnAPromotion, Stands
<1> QED
  BY <1>1, <1>2, SerialInductive, PTL DEF SerialSpec

-----------------------------------------------------------------------------
(***************************************************************************)
(* What is closed, and what was answered, is not touched again.            *)
(***************************************************************************)

LEMMA ClosedStep ==
    ASSUME TypeOK, HandsInv, [SerialNext]_vars, NEW x \in Experiment
    PROVE  /\ HasStatus(x, {"abandoned", "rolled_back"})
                  => experiments'[x].status = experiments[x].status
           /\ HasStatus(x, {"promoted"})
                  => experiments'[x].status \in {"promoted", "rolled_back"}
<1> USE DEF HasStatus
<1>1. CASE UNCHANGED experiments
  BY <1>1
<1>2. ASSUME NEW y \in Experiment, experiments[y].status \notin {"abandoned", "rolled_back", "promoted"},
             \A z \in Experiment \ {y} : experiments'[z] = experiments[z]
      PROVE  /\ HasStatus(x, {"abandoned", "rolled_back"})
                    => experiments'[x].status = experiments[x].status
             /\ HasStatus(x, {"promoted"})
                    => experiments'[x].status \in {"promoted", "rolled_back"}
  BY <1>2
<1>3. ASSUME NEW y \in Experiment, NEW c \in Challenger, NEW minimum \in Minimums,
             OpenExperiment(y, c, minimum)
      PROVE  /\ experiments[y].status \notin {"abandoned", "rolled_back", "promoted"}
             /\ \A z \in Experiment \ {y} : experiments'[z] = experiments[z]
  BY <1>3 DEF OpenExperiment, TypeOK
<1>4. ASSUME NEW y \in Experiment, AbandonExperiment(y)
      PROVE  /\ experiments[y].status \notin {"abandoned", "rolled_back", "promoted"}
             /\ \A z \in Experiment \ {y} : experiments'[z] = experiments[z]
  BY <1>4 DEF AbandonExperiment, TypeOK
<1>5. ASSUME NEW y \in Experiment, NEW actor \in Human, PromoteChallenger(y, actor)
      PROVE  /\ experiments[y].status \notin {"abandoned", "rolled_back", "promoted"}
             /\ \A z \in Experiment \ {y} : experiments'[z] = experiments[z]
  BY <1>5 DEF PromoteChallenger, Promoted, TypeOK
<1>6. ASSUME NEW y \in Experiment, NEW actor \in Human, RollbackPromotion(y, actor)
      PROVE  /\ HasStatus(x, {"abandoned", "rolled_back"})
                    => experiments'[x].status = experiments[x].status
             /\ HasStatus(x, {"promoted"})
                    => experiments'[x].status \in {"promoted", "rolled_back"}
  <2>1. experiments[y] \in ExperimentRow
    BY DEF TypeOK
  <2>2. /\ experiments'[y] = RolledBack(experiments[y], actor)
        /\ \A z \in Experiment \ {y} : experiments'[z] = experiments[z]
        /\ experiments[y].status = "promoted"
    BY <1>6 DEF RollbackPromotion, TypeOK
  <2>3. experiments'[y].status = "rolled_back"
    BY <2>1, <2>2 DEF RolledBack, ExperimentRow
  <2> QED
    BY <2>2, <2>3
<1>7. ASSUME NEW p \in Evaluator, CommitEvaluation(p)
      PROVE  /\ HasStatus(x, {"abandoned", "rolled_back"})
                    => experiments'[x].status = experiments[x].status
             /\ HasStatus(x, {"promoted"})
                    => experiments'[x].status \in {"promoted", "rolled_back"}
  BY <1>7, CommitKeepsDecisions DEF IsOpen
<1> QED
  BY <1>1, <1>2, <1>3, <1>4, <1>5, <1>6, <1>7
  DEF SerialNext, HumanStep, OpenStep, ForecastStep, SettleStep, EvaluationStep, Progress, vars,
      tables, BeginForecast, CommitForecast, CommitEmptyForecast, AbortForecast, SettleOutcome,
      BeginEvaluation, ScoreExperiment, WriteEvaluation, AbortEvaluation

\* When the owner decides between evaluations, what was abandoned or rolled back
\* stays so and a promotion is left only by its rollback: the evaluation's UPDATE,
\* which looks at no status, reopens nothing (evaluate_experiments).
THEOREM SerialClosedStaysClosed == SerialSpec => ClosedStaysClosed
<1>1. SerialInv /\ [SerialNext]_vars =>
        [\A x \in Experiment :
           /\ HasStatus(x, {"abandoned", "rolled_back"})
                  => experiments'[x].status = experiments[x].status
           /\ HasStatus(x, {"promoted"})
                  => experiments'[x].status \in {"promoted", "rolled_back"}]_vars
  BY ClosedStep DEF SerialInv, IInv
<1> QED
  BY <1>1, SerialInductive, PTL DEF SerialSpec, ClosedStaysClosed

\* An episode that is not forecast has no answer.
AnswersInv ==
    \A x \in Experiment, e \in Episode : outcome[e] = "unforecast" => predictions[x][e] = "none"

LEMMA AnswersStep ==
    ASSUME TypeOK, AnswersInv, [Next]_vars, NEW x \in Experiment, NEW e \in Episode
    PROVE  /\ outcome'[e] = "unforecast" => predictions'[x][e] = "none"
           /\ predictions'[x][e] # predictions[x][e] =>
                /\ outcome[e] = "unforecast" /\ outcome'[e] = "pending"
                /\ predictions[x][e] = "none"
<1>1. CASE UNCHANGED <<predictions, outcome>>
  BY <1>1 DEF AnswersInv
<1>2. ASSUME NEW d \in Episode, CommitForecast(d)
      PROVE  /\ outcome'[e] = "unforecast" => predictions'[x][e] = "none"
             /\ predictions'[x][e] # predictions[x][e] =>
                  /\ outcome[e] = "unforecast" /\ outcome'[e] = "pending"
                  /\ predictions[x][e] = "none"
  <2>1. outcome[d] = "unforecast" /\ outcome' = [outcome EXCEPT ![d] = "pending"]
    BY <1>2 DEF CommitForecast
  <2>2. e # d => predictions'[x][e] = predictions[x][e] /\ outcome'[e] = outcome[e]
    BY <1>2, <2>1 DEF CommitForecast, Answered, TypeOK
  <2>3. outcome'[d] = "pending"
    BY <2>1 DEF TypeOK
  <2> QED
    BY <2>1, <2>2, <2>3 DEF AnswersInv
<1>3. ASSUME NEW d \in Episode, SettleOutcome(d)
      PROVE  /\ outcome'[e] = "unforecast" => predictions'[x][e] = "none"
             /\ predictions'[x][e] = predictions[x][e]
  <2>1. predictions' = predictions /\ (outcome'[e] = "unforecast" => outcome[e] = "unforecast")
    BY <1>3 DEF SettleOutcome, TypeOK
  <2> QED
    BY <2>1 DEF AnswersInv
<1> QED
  BY <1>1, <1>2, <1>3
  DEF Next, HumanStep, OpenStep, ForecastStep, SettleStep, EvaluationStep, Progress, vars, tables,
      OpenExperiment, AbandonExperiment, PromoteChallenger, Promoted, RollbackPromotion,
      BeginForecast, CommitEmptyForecast, AbortForecast, BeginEvaluation, ScoreExperiment,
      WriteEvaluation, CommitEvaluation, AbortEvaluation

\* A challenger's answer is written with the episode it answers, once, whatever the
\* owner and the evaluations do meanwhile (migration 025, point 1): nobody answers
\* an episode that was decided without him.
THEOREM AnswersAreNeverLate == Spec => AnswersArriveWithTheirEpisode
<1>1. Init => AnswersInv
  BY DEF Init, AnswersInv
<1>2. IInv /\ AnswersInv /\ [Next]_vars => AnswersInv'
  BY AnswersStep DEF IInv, AnswersInv
<1>3. IInv /\ AnswersInv /\ [Next]_vars =>
        [\A x \in Experiment, e \in Episode :
           predictions'[x][e] # predictions[x][e] =>
               /\ outcome[e] = "unforecast" /\ outcome'[e] = "pending"
               /\ predictions[x][e] = "none"]_vars
  BY AnswersStep DEF IInv
<1> QED
  BY <1>1, <1>2, <1>3, ExperimentsInductive, PTL DEF Spec, AnswersArriveWithTheirEpisode

=============================================================================
