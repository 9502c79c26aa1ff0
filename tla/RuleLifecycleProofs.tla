-------------------------- MODULE RuleLifecycleProofs --------------------------
(***************************************************************************)
(* Theorems about RuleLifecycle, for every number of rules, episodes,      *)
(* categories and jobs at work.                                            *)
(*                                                                         *)
(* The invariant follows a verdict from the rows that support it to the    *)
(* status it causes: evidence in the tables never shrinks (StepKeepsOutcomes), *)
(* a verdict in a job's hands is founded on it and its row is locked       *)
(* (HandsInv), and so is every status in the table (LedgerInv).            *)
(***************************************************************************)
EXTENDS RuleLifecycle, SampleShapeProofs, FiniteSetTheorems, TLAPS

\* At most one transaction holds a rule.
LockInv ==
    \A p, q \in Process : \A r \in Rule :
        p # q /\ job[p].written[r] # None => job[q].written[r] = None

\* A write on its way to rule r is one its command makes, to a row that is
\* still as the command requires it, and the tables support it.
Founded(p, r) ==
    LET w == job[p].written[r]
    IN  \/ Running(p, "propose-rules") /\ w = "inserted" /\ rules[r].status = "absent"
        \/ /\ Running(p, "backtest-rules") /\ w \in Verdicts /\ rules[r].status = "proposed"
           /\ w = "helpful" => RecordSuffices(r)
        \/ /\ Running(p, "review-rules") /\ w \in Verdicts /\ rules[r].status = "active"
           /\ w = "harmful" => LiveRecordSuffices(r)

WritesInv ==
    \A p \in Process : \A r \in Rule : job[p].written[r] # None => Founded(p, r)

JudgedBy(p) ==
    /\ job[p].record \subseteq Resolved
    /\ \A r \in Rule :
          /\ job[p].judged[r] # None => Running(p, "review-rules")
          /\ job[p].judged[r] = "harmful" => LiveRecordSuffices(r)

JudgedInv == \A p \in Process : JudgedBy(p)

HandsInv == LockInv /\ WritesInv /\ JudgedInv

\* What a row's status says of its other columns and of the tables.
LedgerAt(r) ==
    /\ rules[r].backtest = "helpful" => RecordSuffices(r)
    /\ rules[r].status \in {"backtested", "active", "suspended", "retired"}
          => rules[r].backtest = "helpful"
    /\ rules[r].status \in {"active", "suspended", "retired"} <=> rules[r].approvedBy # None
    /\ rules[r].retiredBy # None => rules[r].status = "retired"
    /\ rules[r].status = "suspended" => LiveRecordSuffices(r)

LedgerInv == \A r \in Rule : LedgerAt(r)

\* Firings are committed with the board they belong to.
FiringsOnRecord ==
    \A r \in Rule, e \in Episode : firings[r][e] # "none" => outcome[e] # "unforecast"

IInv == TypeOK /\ HandsInv /\ LedgerInv /\ FiringsOnRecord /\ ForecastsHeedSignedRules

-----------------------------------------------------------------------------
(***************************************************************************)
(* What each kind of step leaves alone.                                    *)
(***************************************************************************)

\* A job touches neither the forecasts nor their outcomes.
LEMMA JobsKeepForecasts ==
    ASSUME NEW p \in Process, JobStep(p) \/ AbortJob(p)
    PROVE  UNCHANGED <<firings, outcome, attributed, run>>
<1>1. ASSUME Fail(p) PROVE UNCHANGED <<firings, outcome, attributed, run>>
  BY <1>1 DEF Fail, tables
<1>2. ASSUME ProposeStep(p) PROVE UNCHANGED <<firings, outcome, attributed, run>>
  <2>1. CASE BeginPropose(p)
    BY <2>1 DEF BeginPropose, tables
  <2>2. CASE CommitPropose(p)
    BY <2>2 DEF CommitPropose
  <2>3. ASSUME NEW c \in Category, ProposeCatalogue(p, c)
        PROVE  UNCHANGED <<firings, outcome, attributed, run>>
    BY <2>3, <1>1 DEF ProposeCatalogue, tables
  <2>4. ASSUME NEW c \in Category, DeclineDraft(p, c)
        PROVE  UNCHANGED <<firings, outcome, attributed, run>>
    BY <2>4 DEF DeclineDraft, tables
  <2>5. ASSUME NEW c \in Category, StoreDraft(p, c)
        PROVE  UNCHANGED <<firings, outcome, attributed, run>>
    BY <2>5, <1>1 DEF StoreDraft
  <2> QED
    BY <1>2, <2>1, <2>2, <2>3, <2>4, <2>5 DEF ProposeStep
<1>3. ASSUME BacktestStep(p) PROVE UNCHANGED <<firings, outcome, attributed, run>>
  <2>1. CASE BeginBacktest(p)
    BY <2>1 DEF BeginBacktest, tables
  <2>2. CASE CommitBacktest(p)
    BY <2>2 DEF CommitBacktest
  <2>3. ASSUME NEW r \in Rule, RecordBacktest(p, r)
        PROVE  UNCHANGED <<firings, outcome, attributed, run>>
    BY <2>3 DEF RecordBacktest, tables
  <2> QED
    BY <1>3, <2>1, <2>2, <2>3 DEF BacktestStep
<1>4. ASSUME ReviewStep(p) PROVE UNCHANGED <<firings, outcome, attributed, run>>
  <2>1. CASE BeginReview(p)
    BY <2>1 DEF BeginReview, tables
  <2>2. CASE CommitReview(p)
    BY <2>2 DEF CommitReview
  <2>3. ASSUME NEW r \in Rule, AssessFirings(p, r)
        PROVE  UNCHANGED <<firings, outcome, attributed, run>>
    BY <2>3 DEF AssessFirings, tables
  <2>4. ASSUME NEW r \in Rule, WriteReview(p, r)
        PROVE  UNCHANGED <<firings, outcome, attributed, run>>
    BY <2>4 DEF WriteReview, tables
  <2> QED
    BY <1>4, <2>1, <2>2, <2>3, <2>4 DEF ReviewStep
<1>5. ASSUME AbortJob(p) PROVE UNCHANGED <<firings, outcome, attributed, run>>
  BY <1>1, <1>5 DEF AbortJob
<1> QED
  BY <1>2, <1>3, <1>4, <1>5 DEF JobStep

\* Nor does a human, a research run or the timer.
LEMMA CallsKeepForecasts ==
    ASSUME StartUnit \/ HumanStep \/ \E r \in Rule : AgentProposes(r)
    PROVE  UNCHANGED <<firings, outcome, attributed, run, job>>
BY DEF StartUnit, HumanStep, AgentProposes, ApproveRule, RetireRule, tables

\* Forecasts and their settlement touch neither a rule nor a job.
LEMMA ForecastsKeepRules ==
    ASSUME ForecastStep \/ OutcomeStep
    PROVE  UNCHANGED <<rules, hypotheses, job>>
BY DEF ForecastStep, OutcomeStep, BeginForecast, AbortForecast, CommitForecast, AttributeErrors,
       SettleOutcome, tables

-----------------------------------------------------------------------------
(***************************************************************************)
(* Evidence.                                                               *)
(***************************************************************************)

\* No step takes back an outcome, or a firing of an episode that is on record.
LEMMA StepKeepsOutcomes ==
    ASSUME TypeOK, [Next]_vars
    PROVE  /\ \A e \in Episode : outcome[e] \in {"hit", "miss"} => outcome'[e] = outcome[e]
           /\ \A r \in Rule, e \in Episode :
                 outcome[e] # "unforecast" => firings'[r][e] = firings[r][e]
<1>1. CASE UNCHANGED <<outcome, firings>>
  BY <1>1
<1>2. ASSUME NEW board \in SUBSET Episode, CommitForecast(board)
      PROVE  /\ \A e \in Episode : outcome[e] \in {"hit", "miss"} => outcome'[e] = outcome[e]
             /\ \A r \in Rule, e \in Episode :
                   outcome[e] # "unforecast" => firings'[r][e] = firings[r][e]
  BY <1>2 DEF CommitForecast
<1>3. ASSUME NEW d \in Episode, SettleOutcome(d)
      PROVE  /\ \A e \in Episode : outcome[e] \in {"hit", "miss"} => outcome'[e] = outcome[e]
             /\ \A r \in Rule, e \in Episode :
                   outcome[e] # "unforecast" => firings'[r][e] = firings[r][e]
  BY <1>3 DEF SettleOutcome, TypeOK
<1>4. ASSUME ForecastStep \/ OutcomeStep
      PROVE  UNCHANGED <<outcome, firings>>
                \/ (\E board \in SUBSET Episode : CommitForecast(board))
                \/ (\E d \in Episode : SettleOutcome(d))
  BY <1>4 DEF ForecastStep, OutcomeStep, BeginForecast, AbortForecast, AttributeErrors, tables
<1>5. ASSUME UNCHANGED vars PROVE UNCHANGED <<outcome, firings>>
  BY <1>5 DEF vars, tables
<1> QED
  BY <1>1, <1>2, <1>3, <1>4, <1>5, JobsKeepForecasts, CallsKeepForecasts DEF Next

\* The replayed record of a rule, as the backtest counts it.
LEMMA RecordIsCounted ==
    ASSUME NEW r \in Rule
    PROVE  RecordSuffices(r) <=> Cardinality(MarketsOf(Replays[r] \cap Resolved)) >= MinimumFired
<1>1. Replays[r] \subseteq Episode
  BY RulesAssumption
<1>2. MarketsOf(Replays[r] \cap Resolved) =
          {m \in Market : \E e \in Replays[r] : MarketOf[e] = m /\ outcome[e] \in {"hit", "miss"}}
  BY <1>1, SampleAssumption DEF MarketsOf, Resolved
<1> QED
  BY <1>2 DEF RecordSuffices

\* The live firings of a rule, as the review counts them.
LEMMA LiveRecordIsCounted ==
    ASSUME NEW r \in Rule
    PROVE  LiveRecordSuffices(r) <=> LiveSampleSuffices(r)
<1> DEFINE fired == {e \in Episode : firings[r][e] = "live" /\ outcome[e] \in {"hit", "miss"}}
<1>1. fired = LiveRows(r)
  BY DEF LiveRows, Resolved
<1>2. {MarketOf[e] : e \in fired} = MarketsOf(LiveRows(r))
  BY <1>1 DEF MarketsOf
<1>3. {GameOf[MarketOf[e]] : e \in fired} = GamesOf(LiveRows(r))
  BY <1>1 DEF MarketsOf, GamesOf
<1> QED
  BY <1>2, <1>3 DEF LiveRecordSuffices, LiveSampleSuffices, EffectiveReaches

\* Enough of a record stays enough.
LEMMA EvidencePersists ==
    ASSUME TypeOK, [Next]_vars
    PROVE  /\ Resolved \subseteq Resolved'
           /\ \A r \in Rule : RecordSuffices(r) => RecordSuffices(r)'
           /\ \A r \in Rule : LiveRecordSuffices(r) => LiveRecordSuffices(r)'
<1>1. Resolved \subseteq Resolved'
  BY StepKeepsOutcomes DEF Resolved
<1>2. ASSUME NEW r \in Rule, RecordSuffices(r) PROVE RecordSuffices(r)'
  <2> DEFINE before == {m \in Market : \E e \in Replays[r] :
                            MarketOf[e] = m /\ outcome[e] \in {"hit", "miss"}}
             after  == {m \in Market : \E e \in Replays[r] :
                            MarketOf[e] = m /\ outcome'[e] \in {"hit", "miss"}}
  <2>1. Replays[r] \subseteq Episode
    BY RulesAssumption
  <2>2. before \subseteq after
    BY <2>1, StepKeepsOutcomes
  <2>3. after \subseteq MarketsOf(Episode)
    BY <2>1 DEF MarketsOf
  <2>4. /\ IsFiniteSet(after) /\ Cardinality(before) \in Nat /\ Cardinality(after) \in Nat
        /\ Cardinality(before) <= Cardinality(after)
    BY <2>2, <2>3, MarketsAreCounted, FS_Subset, FS_CardinalityType
  <2>5. Cardinality(before) >= MinimumFired /\ MinimumFired \in Nat
    BY <1>2, RulesAssumption DEF RecordSuffices
  <2>6. Cardinality(after) >= MinimumFired
    <3> HIDE DEF before, after
    <3> QED
      BY <2>4, <2>5, SMT
  <2> QED
    BY <2>6 DEF RecordSuffices
<1>3. ASSUME NEW r \in Rule, LiveRecordSuffices(r) PROVE LiveRecordSuffices(r)'
  <2> DEFINE before == {e \in Episode : firings[r][e] = "live" /\ outcome[e] \in {"hit", "miss"}}
             after  == {e \in Episode : firings'[r][e] = "live" /\ outcome'[e] \in {"hit", "miss"}}
  <2>1. before \subseteq after
    BY StepKeepsOutcomes
  <2>2. /\ {MarketOf[e] : e \in before} = MarketsOf(before)
        /\ {GameOf[MarketOf[e]] : e \in before} = GamesOf(before)
        /\ {MarketOf[e] : e \in after} = MarketsOf(after)
        /\ {GameOf[MarketOf[e]] : e \in after} = GamesOf(after)
    BY DEF MarketsOf, GamesOf
  <2>3. EffectiveReaches(Cardinality(MarketsOf(before)), Cardinality(GamesOf(before)), MinimumLive)
    BY <1>3, <2>2 DEF LiveRecordSuffices, EffectiveReaches
  <2>4. MinimumLive \in Nat \ {0}
    BY RulesAssumption
  <2>5. EffectiveReaches(Cardinality(MarketsOf(after)), Cardinality(GamesOf(after)), MinimumLive)
    <3>1. before \in SUBSET Episode /\ after \in SUBSET Episode
      OBVIOUS
    <3> HIDE DEF before, after
    <3> QED
      BY <2>1, <2>3, <2>4, <3>1, MoreEvidenceIsEnough
  <2> QED
    BY <2>2, <2>5 DEF LiveRecordSuffices, EffectiveReaches
<1> QED
  BY <1>1, <1>2, <1>3

-----------------------------------------------------------------------------
(***************************************************************************)
(* Types.                                                                  *)
(***************************************************************************)

LEMMA IdleJobType == IdleJob \in Job
BY DEF IdleJob, Job

LEMMA NoRuleType == NoRule \in RuleRow
BY DEF NoRule, RuleRow, Status

\* Each write leaves a row a row.
LEMMA RowUpdates ==
    ASSUME NEW row \in RuleRow
    PROVE  /\ Proposed(row) \in RuleRow
           /\ \A verdict \in Verdicts :
                 Backtested(row, verdict) \in RuleRow /\ Reviewed(row, verdict) \in RuleRow
           /\ \A human \in Human :
                 /\ Activated(row, human) \in RuleRow
                 /\ [row EXCEPT !.status = "retired", !.retiredBy = human] \in RuleRow
<1>1. Proposed(row) \in RuleRow
  BY DEF Proposed, RuleRow, Status
<1>2. ASSUME NEW verdict \in Verdicts
      PROVE  Backtested(row, verdict) \in RuleRow /\ Reviewed(row, verdict) \in RuleRow
  <2>1. Backtested(row, verdict) \in RuleRow
    <3> DEFINE status == CASE verdict = "helpful" -> "backtested"
                           [] verdict = "harmful" -> "rejected"
                           [] OTHER               -> "proposed"
    <3>1. status \in Status
      BY DEF Status
    <3>2. Backtested(row, verdict) = [row EXCEPT !.backtest = verdict, !.status = status]
      BY DEF Backtested
    <3> HIDE DEF status
    <3> QED
      BY <3>1, <3>2 DEF RuleRow
  <2>2. Reviewed(row, verdict) \in RuleRow
    BY DEF Reviewed, RuleRow, Status
  <2> QED
    BY <2>1, <2>2
<1>3. ASSUME NEW human \in Human
      PROVE  /\ Activated(row, human) \in RuleRow
             /\ [row EXCEPT !.status = "retired", !.retiredBy = human] \in RuleRow
  BY DEF Activated, RuleRow, Status
<1> QED
  BY <1>1, <1>2, <1>3

\* The verdicts are words of the vocabulary.
LEMMA VerdictTypes ==
    ASSUME NEW r \in Rule, NEW record
    PROVE  Judge(r, record) \subseteq Verdicts /\ JudgeLive(r) \subseteq Verdicts
<1>1. KindOf[r] \in Kinds
  BY RulesAssumption
<1>2. Judge(r, record) \subseteq Verdicts
  BY <1>1 DEF Judge, Verdicts, Kinds
<1>3. JudgeLive(r) \subseteq Verdicts
  BY <1>1 DEF JudgeLive, Verdicts, Kinds
<1> QED
  BY <1>2, <1>3

\* The fields of a job.
LEMMA JobFields ==
    ASSUME NEW j \in Job
    PROVE  /\ j.command \in Commands \cup {"none"}
           /\ j.due \in SUBSET Category /\ j.created \in SUBSET Category
           /\ j.known \in SUBSET Rule /\ j.knownHypotheses \in SUBSET Category
           /\ j.record \in SUBSET Episode /\ j.todo \in SUBSET Rule
           /\ j.judged \in [Rule -> Verdicts \cup {None}]
           /\ j.written \in [Rule -> Verdicts \cup {"inserted", None}]
BY DEF Job

\* A failing job rolls back to nothing.
LEMMA FailType ==
    ASSUME TypeOK, NEW p \in Process, Fail(p)
    PROVE  job' \in [Process -> Job] /\ unit' \in Commands \cup {"idle"} /\ UNCHANGED tables
BY IdleJobType DEF TypeOK, Fail, Ended

LEMMA ProposeType ==
    ASSUME TypeOK, NEW p \in Process, ProposeStep(p)
    PROVE  /\ rules' \in [Rule -> RuleRow]
           /\ hypotheses' \in [Category -> Nat]
           /\ job' \in [Process -> Job]
           /\ unit' \in Commands \cup {"idle"}
           /\ UNCHANGED aborts
<1> USE DEF TypeOK
<1> job[p] \in Job
  OBVIOUS
<1>1. CASE BeginPropose(p)
  <2>1. DueCategories \in SUBSET Category
    BY DEF DueCategories
  <2>2. [IdleJob EXCEPT !.command = "propose-rules", !.due = DueCategories,
                        !.known = {r \in Rule : ~HasStatus(r, {"absent"})},
                        !.knownHypotheses = {c \in Category : hypotheses[c] > 0}] \in Job
    BY <2>1, IdleJobType DEF Job, Commands
  <2> QED
    BY <1>1, <2>2 DEF BeginPropose, tables
<1>2. CASE CommitPropose(p)
  <2>1. rules' \in [Rule -> RuleRow]
    BY <1>2, RowUpdates DEF CommitPropose
  <2>2. hypotheses' \in [Category -> Nat]
    BY <1>2 DEF CommitPropose
  <2> QED
    BY <1>2, <2>1, <2>2, IdleJobType DEF CommitPropose, Ended, Commands
<1>3. ASSUME NEW c \in Category, ProposeCatalogue(p, c), ~Fail(p)
      PROVE  /\ job' \in [Process -> Job]
             /\ UNCHANGED <<rules, hypotheses, unit, aborts>>
  <2> DEFINE new == Catalogue[c] \ job[p].known
             written == [r \in Rule |-> IF r \in new THEN "inserted" ELSE job[p].written[r]]
             mine == [job[p] EXCEPT !.due = @ \ {c}, !.known = @ \cup new,
                                    !.created = @ \cup Hypothesised(p, c), !.written = written]
  <2>1. job' = [job EXCEPT ![p] = mine] /\ UNCHANGED <<rules, hypotheses, unit, aborts>>
    BY <1>3 DEF ProposeCatalogue, tables
  <2>2. new \subseteq Rule /\ Hypothesised(p, c) \subseteq Category
    BY RulesAssumption DEF Hypothesised
  <2>3. written \in [Rule -> Verdicts \cup {"inserted", None}]
    BY JobFields
  <2>4. mine \in Job
    <3> HIDE DEF new, written
    <3> QED
      BY <2>2, <2>3 DEF Job
  <2> QED
    BY <2>1, <2>4
<1>4. ASSUME NEW c \in Category, DeclineDraft(p, c) PROVE job' \in [Process -> Job]
  <2>1. Hypothesised(p, c) \subseteq Category
    BY DEF Hypothesised
  <2>2. [job[p] EXCEPT !.due = @ \ {c}, !.created = @ \cup Hypothesised(p, c)] \in Job
    BY <2>1 DEF Job
  <2> QED
    BY <1>4, <2>2 DEF DeclineDraft
<1>5. ASSUME NEW c \in Category, ProposeCatalogue(p, c) \/ DeclineDraft(p, c) \/ StoreDraft(p, c)
      PROVE  /\ rules' \in [Rule -> RuleRow] /\ hypotheses' \in [Category -> Nat]
             /\ job' \in [Process -> Job] /\ unit' \in Commands \cup {"idle"}
             /\ UNCHANGED aborts
  <2>1. CASE Fail(p)
    BY <1>5, <2>1, FailType DEF ProposeCatalogue, DeclineDraft, StoreDraft, tables
  <2>2. CASE ~Fail(p)
    BY <1>3, <1>4, <1>5, <2>2 DEF DeclineDraft, StoreDraft, tables
  <2> QED
    BY <2>1, <2>2
<1> QED
  BY <1>1, <1>2, <1>5 DEF ProposeStep, BeginPropose, tables

LEMMA BacktestType ==
    ASSUME TypeOK, WritesInv, NEW p \in Process, BacktestStep(p)
    PROVE  /\ rules' \in [Rule -> RuleRow]
           /\ job' \in [Process -> Job]
           /\ unit' \in Commands \cup {"idle"}
           /\ UNCHANGED <<hypotheses, aborts>>
<1> USE DEF TypeOK
<1> job[p] \in Job
  OBVIOUS
<1>1. CASE BeginBacktest(p)
  <2>1. [IdleJob EXCEPT !.command = "backtest-rules", !.record = Resolved, !.todo = Awaiting] \in Job
    BY IdleJobType DEF Job, Commands, Resolved, Awaiting
  <2> QED
    BY <1>1, <2>1 DEF BeginBacktest, tables
<1>2. CASE CommitBacktest(p)
  <2>1. \A r \in Rule : job[p].written[r] # None => job[p].written[r] \in Verdicts
    BY <1>2 DEF CommitBacktest, WritesInv, Founded, Running
  <2>2. rules' \in [Rule -> RuleRow]
    BY <1>2, <2>1, RowUpdates DEF CommitBacktest
  <2> QED
    BY <1>2, <2>2, IdleJobType DEF CommitBacktest, Ended, Commands
<1>3. ASSUME NEW r \in Rule, RecordBacktest(p, r) PROVE job' \in [Process -> Job]
  <2>1. PICK verdict \in Judge(r, job[p].record) :
            job' = [job EXCEPT ![p].todo = @ \ {r},
                ![p].written[r] = IF HasStatus(r, {"proposed"}) THEN verdict ELSE @]
    BY <1>3 DEF RecordBacktest
  <2>2. verdict \in Verdicts
    BY VerdictTypes
  <2> DEFINE written == [job[p].written EXCEPT
                             ![r] = IF HasStatus(r, {"proposed"}) THEN verdict ELSE @]
  <2>3. written \in [Rule -> Verdicts \cup {"inserted", None}]
    BY <2>2, JobFields
  <2>4. [job[p] EXCEPT !.todo = @ \ {r}, !.written = written] \in Job
    <3> HIDE DEF written
    <3> QED
      BY <2>3 DEF Job
  <2>5. job' = [job EXCEPT ![p] = [job[p] EXCEPT !.todo = @ \ {r}, !.written = written]]
    BY <2>1, JobFields DEF Job
  <2> QED
    BY <2>4, <2>5
<1> QED
  BY <1>1, <1>2, <1>3 DEF BacktestStep, BeginBacktest, RecordBacktest, CommitBacktest, tables

LEMMA ReviewType ==
    ASSUME TypeOK, WritesInv, NEW p \in Process, ReviewStep(p)
    PROVE  /\ rules' \in [Rule -> RuleRow]
           /\ job' \in [Process -> Job]
           /\ unit' \in Commands \cup {"idle"}
           /\ UNCHANGED <<hypotheses, aborts>>
<1> USE DEF TypeOK
<1> job[p] \in Job
  OBVIOUS
<1>1. CASE BeginReview(p)
  <2>1. [IdleJob EXCEPT !.command = "review-rules", !.todo = {r \in Rule : HasStatus(r, {"active"})}]
            \in Job
    BY IdleJobType DEF Job, Commands
  <2> QED
    BY <1>1, <2>1 DEF BeginReview, tables
<1>2. CASE CommitReview(p)
  <2>1. \A r \in Rule : job[p].written[r] # None => job[p].written[r] \in Verdicts
    BY <1>2 DEF CommitReview, WritesInv, Founded, Running
  <2>2. rules' \in [Rule -> RuleRow]
    BY <1>2, <2>1, RowUpdates DEF CommitReview
  <2> QED
    BY <1>2, <2>2, IdleJobType DEF CommitReview, Ended, Commands
<1>3. ASSUME NEW r \in Rule, AssessFirings(p, r) PROVE job' \in [Process -> Job]
  <2>1. PICK verdict \in JudgeLive(r) :
            job' = [job EXCEPT ![p].todo = @ \ {r}, ![p].judged[r] = verdict]
    BY <1>3 DEF AssessFirings
  <2>2. [job[p].judged EXCEPT ![r] = verdict] \in [Rule -> Verdicts \cup {None}]
    BY VerdictTypes, JobFields
  <2>3. [job[p] EXCEPT !.todo = @ \ {r}, !.judged = [job[p].judged EXCEPT ![r] = verdict]] \in Job
    BY <2>2 DEF Job
  <2>4. job' = [job EXCEPT ![p] = [job[p] EXCEPT !.todo = @ \ {r},
                                      !.judged = [job[p].judged EXCEPT ![r] = verdict]]]
    BY <2>1, JobFields DEF Job
  <2> QED
    BY <2>3, <2>4
<1>4. ASSUME NEW r \in Rule, WriteReview(p, r) PROVE job' \in [Process -> Job]
  <2> DEFINE w == IF HasStatus(r, {"active"}) THEN job[p].judged[r] ELSE job[p].written[r]
             written == [job[p].written EXCEPT ![r] = w]
             judged == [job[p].judged EXCEPT ![r] = None]
  <2>1. /\ written \in [Rule -> Verdicts \cup {"inserted", None}]
        /\ judged \in [Rule -> Verdicts \cup {None}]
    BY JobFields
  <2>2. [job[p] EXCEPT !.written = written, !.judged = judged] \in Job
    <3> HIDE DEF written, judged
    <3> QED
      BY <2>1 DEF Job
  <2>3. job' = [job EXCEPT ![p] = [job[p] EXCEPT !.written = written, !.judged = judged]]
    BY <1>4, JobFields DEF WriteReview, Job
  <2> QED
    BY <2>2, <2>3
<1> QED
  BY <1>1, <1>2, <1>3, <1>4
  DEF ReviewStep, BeginReview, AssessFirings, WriteReview, CommitReview, tables

\* The initial state is well typed.
LEMMA TypeInit == Init => TypeOK
<1> SUFFICES ASSUME Init PROVE TypeOK
  OBVIOUS
<1>1. rules \in [Rule -> RuleRow] /\ job \in [Process -> Job]
  BY NoRuleType, IdleJobType DEF Init
<1>2. aborts \in 0 .. MaxAborts
  BY RulesAssumption DEF Init
<1> QED
  BY <1>1, <1>2 DEF Init, TypeOK

\* Every step keeps the tables, the run and the jobs well typed.
LEMMA TypeStep == TypeOK /\ WritesInv /\ [Next]_vars => TypeOK'
<1> SUFFICES ASSUME TypeOK, WritesInv, [Next]_vars PROVE TypeOK'
  OBVIOUS
<1> USE DEF TypeOK
<1>1. ASSUME NEW p \in Process, JobStep(p) PROVE TypeOK'
  BY <1>1, ProposeType, BacktestType, ReviewType, JobsKeepForecasts DEF JobStep
<1>2. ASSUME NEW p \in Process, AbortJob(p) PROVE TypeOK'
  <2>1. aborts' \in 0 .. MaxAborts
    BY <1>2, RulesAssumption DEF AbortJob
  <2> QED
    BY <1>2, <2>1, FailType DEF AbortJob, Fail, tables
<1>3. CASE StartUnit
  BY <1>3 DEF StartUnit, Commands, tables
<1>4. ASSUME NEW r \in Rule, AgentProposes(r) PROVE TypeOK'
  BY <1>4, RowUpdates DEF AgentProposes
<1>5. CASE HumanStep
  <2>1. ASSUME NEW r \in Rule, NEW human \in Human, ApproveRule(r, human) PROVE TypeOK'
    BY <2>1, RowUpdates DEF ApproveRule
  <2>2. ASSUME NEW r \in Rule, NEW human \in Human, RetireRule(r, human) PROVE TypeOK'
    <3>1. rules' \in [Rule -> RuleRow]
      <4>1. rules' = [rules EXCEPT
                ![r] = [rules[r] EXCEPT !.status = "retired", !.retiredBy = human]]
        BY <2>2 DEF RetireRule, RuleRow
      <4> QED
        BY <4>1, RowUpdates
    <3> QED
      BY <2>2, <3>1 DEF RetireRule
  <2> QED
    BY <1>5, <2>1, <2>2 DEF HumanStep
<1>6. CASE ForecastStep
  <2>1. CASE BeginForecast
    BY <2>1 DEF BeginForecast, tables
  <2>2. CASE AbortForecast
    <3>1. aborts' \in 0 .. MaxAborts
      BY <2>2, RulesAssumption DEF AbortForecast
    <3> QED
      BY <2>2, <3>1 DEF AbortForecast, EndForecast, tables
  <2>3. ASSUME NEW board \in SUBSET Episode, CommitForecast(board) PROVE TypeOK'
    <3>1. outcome' \in [Episode -> {"unforecast", "pending", "hit", "miss", "void_or_push"}]
      BY <2>3 DEF CommitForecast
    <3>2. firings' \in [Rule -> [Episode -> {"none", "shadow", "live"}]]
      BY <2>3 DEF CommitForecast, Fired
    <3> QED
      BY <2>3, <3>1, <3>2 DEF CommitForecast, EndForecast
  <2> QED
    BY <1>6, <2>1, <2>2, <2>3 DEF ForecastStep
<1>7. CASE OutcomeStep
  <2>1. CASE AttributeErrors
    BY <2>1 DEF AttributeErrors, Resolved
  <2>2. ASSUME NEW e \in Episode, SettleOutcome(e) PROVE TypeOK'
    BY <2>2 DEF SettleOutcome
  <2> QED
    BY <1>7, <2>1, <2>2 DEF OutcomeStep
<1>8. CASE UNCHANGED vars
  BY <1>8 DEF vars, tables
<1> QED
  BY <1>1, <1>2, <1>3, <1>4, <1>5, <1>6, <1>7, <1>8 DEF Next

-----------------------------------------------------------------------------
(***************************************************************************)
(* How a row moves.  Every later result rests on this list.                *)
(***************************************************************************)
Move(r) ==
    \/ rules'[r] = rules[r]
    \/ rules[r].status = "absent" /\ rules'[r] = Proposed(rules[r])
    \/ /\ rules[r].status = "proposed"
       /\ \E verdict \in Verdicts : /\ rules'[r] = Backtested(rules[r], verdict)
                                    /\ verdict = "helpful" => RecordSuffices(r)
    \/ /\ rules[r].status = "active"
       /\ \E verdict \in Verdicts : /\ rules'[r] = Reviewed(rules[r], verdict)
                                    /\ verdict = "harmful" => LiveRecordSuffices(r)
    \/ /\ MayApprove(r)
       /\ \E human \in Human : rules'[r] = Activated(rules[r], human)
    \/ /\ rules[r].status = "active"
       /\ \E human \in Human :
             rules'[r] = [rules[r] EXCEPT !.status = "retired", !.retiredBy = human]

\* A rule moves along the list, and while it moves no job holds it afterwards.
LEMMA RulesMove ==
    ASSUME TypeOK, HandsInv, [Next]_vars, NEW r \in Rule
    PROVE  /\ Move(r)
           /\ rules'[r] # rules[r] =>
                 \A p \in Process : job[p].written[r] # None => job'[p] = IdleJob
<1> USE DEF HandsInv
<1>1. ASSUME UNCHANGED rules
      PROVE  Move(r) /\ rules'[r] = rules[r]
  BY <1>1 DEF Move
<1>2. ASSUME NEW s \in Rule, AgentProposes(s)
      PROVE  Move(r) /\ (rules'[r] # rules[r] => Free(r))
  <2>1. CASE r = s
    BY <1>2, <2>1 DEF AgentProposes, HasStatus, Move, TypeOK
  <2>2. CASE r # s
    BY <1>2, <2>2 DEF AgentProposes, Move, TypeOK
  <2> QED
    BY <2>1, <2>2
<1>3. ASSUME NEW s \in Rule, NEW human \in Human, ApproveRule(s, human)
      PROVE  Move(r) /\ (rules'[r] # rules[r] => Free(r))
  <2>1. CASE r = s
    <3>1. MayApprove(r) /\ Free(r) /\ rules'[r] = Activated(rules[r], human)
      BY <1>3, <2>1 DEF ApproveRule, TypeOK
    <3> QED
      BY <3>1 DEF Move
  <2>2. CASE r # s
    BY <1>3, <2>2 DEF ApproveRule, Move, TypeOK
  <2> QED
    BY <2>1, <2>2
<1>4. ASSUME NEW s \in Rule, NEW human \in Human, RetireRule(s, human)
      PROVE  Move(r) /\ (rules'[r] # rules[r] => Free(r))
  <2>1. CASE r = s
    <3>1. rules[r] \in RuleRow
      BY DEF TypeOK
    <3>2. /\ rules[r].status = "active" /\ Free(r)
          /\ rules'[r] = [rules[r] EXCEPT !.status = "retired", !.retiredBy = human]
      BY <1>4, <2>1, <3>1 DEF RetireRule, HasStatus, TypeOK, RuleRow
    <3> QED
      BY <3>2 DEF Move
  <2>2. CASE r # s
    BY <1>4, <2>2 DEF RetireRule, Move, TypeOK
  <2> QED
    BY <2>1, <2>2
<1>5. ASSUME NEW p \in Process, CommitPropose(p) \/ CommitBacktest(p) \/ CommitReview(p)
      PROVE  /\ Move(r)
             /\ rules'[r] # rules[r] => job[p].written[r] # None
             /\ job'[p] = IdleJob
  <2>1. job'[p] = IdleJob
    BY <1>5 DEF CommitPropose, CommitBacktest, CommitReview, TypeOK
  <2>2. job[p].written[r] # None => Founded(p, r)
    BY DEF WritesInv
  <2>3. CASE CommitPropose(p)
    <3>1. rules'[r] = IF job[p].written[r] # None THEN Proposed(rules[r]) ELSE rules[r]
      BY <2>3 DEF CommitPropose
    <3>2. job[p].written[r] # None => rules[r].status = "absent"
      BY <2>2, <2>3 DEF CommitPropose, Founded, Running
    <3> QED
      BY <2>1, <3>1, <3>2 DEF Move
  <2>4. CASE CommitBacktest(p)
    <3>1. rules'[r] = IF job[p].written[r] # None THEN Backtested(rules[r], job[p].written[r])
                      ELSE rules[r]
      BY <2>4 DEF CommitBacktest
    <3>2. job[p].written[r] # None =>
              /\ rules[r].status = "proposed" /\ job[p].written[r] \in Verdicts
              /\ job[p].written[r] = "helpful" => RecordSuffices(r)
      BY <2>2, <2>4 DEF CommitBacktest, Founded, Running
    <3> QED
      BY <2>1, <3>1, <3>2 DEF Move
  <2>5. CASE CommitReview(p)
    <3>1. rules'[r] = IF job[p].written[r] # None THEN Reviewed(rules[r], job[p].written[r])
                      ELSE rules[r]
      BY <2>5 DEF CommitReview
    <3>2. job[p].written[r] # None =>
              /\ rules[r].status = "active" /\ job[p].written[r] \in Verdicts
              /\ job[p].written[r] = "harmful" => LiveRecordSuffices(r)
      BY <2>2, <2>5 DEF CommitReview, Founded, Running
    <3> QED
      BY <2>1, <3>1, <3>2 DEF Move
  <2> QED
    BY <1>5, <2>3, <2>4, <2>5
<1>6. ASSUME NEW p \in Process, JobStep(p) \/ AbortJob(p)
      PROVE  UNCHANGED rules \/ CommitPropose(p) \/ CommitBacktest(p) \/ CommitReview(p)
  <2>1. CASE AbortJob(p)
    BY <2>1 DEF AbortJob, Fail, tables
  <2>2. CASE ProposeStep(p)
    BY <2>2 DEF ProposeStep, BeginPropose, ProposeCatalogue, DeclineDraft, StoreDraft, Fail, tables
  <2>3. CASE BacktestStep(p)
    BY <2>3 DEF BacktestStep, BeginBacktest, RecordBacktest, tables
  <2>4. CASE ReviewStep(p)
    BY <2>4 DEF ReviewStep, BeginReview, AssessFirings, WriteReview, tables
  <2> QED
    BY <1>6, <2>1, <2>2, <2>3, <2>4 DEF JobStep
<1>7. ASSUME NEW p \in Process, JobStep(p) \/ AbortJob(p)
      PROVE  /\ Move(r)
             /\ rules'[r] # rules[r] =>
                   \A q \in Process : job[q].written[r] # None => job'[q] = IdleJob
  <2>1. CASE UNCHANGED rules
    BY <1>1, <2>1
  <2>2. CASE CommitPropose(p) \/ CommitBacktest(p) \/ CommitReview(p)
    BY <1>5, <2>2 DEF LockInv
  <2> QED
    BY <1>6, <1>7, <2>1, <2>2
<1>8. CASE StartUnit \/ ForecastStep \/ OutcomeStep \/ UNCHANGED vars
  BY <1>1, <1>8, ForecastsKeepRules DEF StartUnit, vars, tables
<1> QED
  BY <1>2, <1>3, <1>4, <1>7, <1>8 DEF Next, HumanStep, Free

-----------------------------------------------------------------------------
(***************************************************************************)
(* The table keeps what its statuses say.                                  *)
(***************************************************************************)
LEMMA LedgerStep ==
    ASSUME TypeOK, HandsInv, LedgerInv, [Next]_vars
    PROVE  /\ LedgerInv'
           /\ \A r \in Rule :
                 /\ May(rules[r].status, rules'[r].status)
                 /\ rules[r].approvedBy # None =>
                       /\ rules'[r].approvedBy = rules[r].approvedBy
                       /\ rules'[r].backtest = rules[r].backtest
                       /\ rules[r].retiredBy # None => rules'[r].retiredBy = rules[r].retiredBy
<1> SUFFICES ASSUME NEW r \in Rule
    PROVE  /\ LedgerAt(r)'
           /\ May(rules[r].status, rules'[r].status)
           /\ rules[r].approvedBy # None =>
                 /\ rules'[r].approvedBy = rules[r].approvedBy
                 /\ rules'[r].backtest = rules[r].backtest
                 /\ rules[r].retiredBy # None => rules'[r].retiredBy = rules[r].retiredBy
  BY DEF LedgerInv
<1> DEFINE Kept == /\ LedgerAt(r)'
                   /\ May(rules[r].status, rules'[r].status)
                   /\ rules[r].approvedBy # None =>
                         /\ rules'[r].approvedBy = rules[r].approvedBy
                         /\ rules'[r].backtest = rules[r].backtest
                         /\ rules[r].retiredBy # None => rules'[r].retiredBy = rules[r].retiredBy
<1>1. rules[r] \in RuleRow /\ LedgerAt(r) /\ Move(r)
  BY RulesMove DEF TypeOK, LedgerInv
<1>2. RecordSuffices(r) => RecordSuffices(r)'
  BY EvidencePersists
<1>3. LiveRecordSuffices(r) => LiveRecordSuffices(r)'
  BY EvidencePersists
<1> USE <1>1, <1>2, <1>3 DEF LedgerAt, May, RuleRow
<1>4. CASE rules'[r] = rules[r]
  BY <1>4
<1>5. CASE rules[r].status = "absent" /\ rules'[r] = Proposed(rules[r])
  BY <1>5 DEF Proposed
<1>6. ASSUME rules[r].status = "proposed", NEW verdict \in Verdicts,
             rules'[r] = Backtested(rules[r], verdict), verdict = "helpful" => RecordSuffices(r)
      PROVE  Kept
  <2>1. CASE verdict = "helpful"
    <3>1. rules'[r] = [rules[r] EXCEPT !.backtest = "helpful", !.status = "backtested"]
      BY <1>6, <2>1 DEF Backtested
    <3> QED
      BY <1>6, <2>1, <3>1
  <2>2. CASE verdict = "harmful"
    <3>1. rules'[r] = [rules[r] EXCEPT !.backtest = "harmful", !.status = "rejected"]
      BY <1>6, <2>2 DEF Backtested
    <3> QED
      BY <1>6, <3>1
  <2>3. CASE verdict = "inconclusive"
    <3>1. rules'[r] = [rules[r] EXCEPT !.backtest = "inconclusive", !.status = "proposed"]
      BY <1>6, <2>3 DEF Backtested
    <3> QED
      BY <1>6, <3>1
  <2> QED
    BY <2>1, <2>2, <2>3 DEF Verdicts
<1>7. ASSUME rules[r].status = "active", NEW verdict \in Verdicts,
             rules'[r] = Reviewed(rules[r], verdict), verdict = "harmful" => LiveRecordSuffices(r)
      PROVE  Kept
  BY <1>7 DEF Reviewed
<1>8. ASSUME MayApprove(r), NEW human \in Human, rules'[r] = Activated(rules[r], human)
      PROVE  Kept
  BY <1>8, RulesAssumption DEF MayApprove, HasStatus, Activated
<1>9. ASSUME rules[r].status = "active", NEW human \in Human,
             rules'[r] = [rules[r] EXCEPT !.status = "retired", !.retiredBy = human]
      PROVE  Kept
  BY <1>9
<1> QED
  BY <1>4, <1>5, <1>6, <1>7, <1>8, <1>9 DEF Move

\* A forecast run takes its live rules from the table and fires no others.
LEMMA ForecastsStep ==
    ASSUME TypeOK, HandsInv, LedgerInv, ForecastsHeedSignedRules, [Next]_vars
    PROVE  ForecastsHeedSignedRules'
<1>1. \A r \in Rule : rules[r].approvedBy # None => rules'[r].approvedBy # None
  BY LedgerStep
<1>2. ASSUME UNCHANGED <<firings, run>> PROVE ForecastsHeedSignedRules'
  BY <1>1, <1>2 DEF ForecastsHeedSignedRules
<1>3. CASE BeginForecast
  <2>1. ASSUME NEW r \in Rule, r \in run'.live PROVE rules[r].approvedBy # None
    BY <1>3, <2>1 DEF BeginForecast, HasStatus, LedgerInv, LedgerAt
  <2>2. UNCHANGED firings
    BY <1>3 DEF BeginForecast, tables
  <2> QED
    BY <1>1, <2>1, <2>2 DEF ForecastsHeedSignedRules
<1>4. CASE AbortForecast
  BY <1>1, <1>4 DEF AbortForecast, EndForecast, ForecastsHeedSignedRules, tables
<1>5. ASSUME NEW board \in SUBSET Episode, CommitForecast(board)
      PROVE  ForecastsHeedSignedRules'
  <2>1. run'.live = {}
    BY <1>5 DEF CommitForecast, EndForecast
  <2>2. ASSUME NEW r \in Rule, NEW e \in Episode, firings'[r][e] = "live"
        PROVE  firings[r][e] = "live" \/ r \in run.live
    BY <1>5, <2>2 DEF CommitForecast, Fired
  <2> QED
    BY <1>1, <2>1, <2>2 DEF ForecastsHeedSignedRules
<1>6. CASE OutcomeStep
  BY <1>2, <1>6 DEF OutcomeStep, AttributeErrors, SettleOutcome
<1>7. CASE UNCHANGED vars
  BY <1>2, <1>7 DEF vars, tables
<1> QED
  BY <1>2, <1>3, <1>4, <1>5, <1>6, <1>7, JobsKeepForecasts, CallsKeepForecasts
  DEF Next, ForecastStep

\* A firing arrives with its episode, and episodes stay.
LEMMA FiringsStep ==
    ASSUME TypeOK, FiringsOnRecord, [Next]_vars
    PROVE  FiringsOnRecord'
<1>1. ASSUME UNCHANGED <<firings, outcome>> PROVE FiringsOnRecord'
  BY <1>1 DEF FiringsOnRecord
<1>2. ASSUME NEW board \in SUBSET Episode, CommitForecast(board)
      PROVE  FiringsOnRecord'
  BY <1>2 DEF CommitForecast, FiringsOnRecord
<1>3. ASSUME NEW d \in Episode, SettleOutcome(d)
      PROVE  FiringsOnRecord'
  BY <1>3 DEF SettleOutcome, FiringsOnRecord, TypeOK
<1>4. ASSUME ForecastStep \/ OutcomeStep
      PROVE  UNCHANGED <<outcome, firings>>
                \/ (\E board \in SUBSET Episode : CommitForecast(board))
                \/ (\E d \in Episode : SettleOutcome(d))
  BY <1>4 DEF ForecastStep, OutcomeStep, BeginForecast, AbortForecast, AttributeErrors, tables
<1>5. ASSUME UNCHANGED vars PROVE UNCHANGED <<outcome, firings>>
  BY <1>5 DEF vars, tables
<1> QED
  BY <1>1, <1>2, <1>3, <1>4, <1>5, JobsKeepForecasts, CallsKeepForecasts DEF Next

-----------------------------------------------------------------------------
(***************************************************************************)
(* What a job holds stays founded.                                         *)
(***************************************************************************)

\* A job's step is its own.
LEMMA OthersKeep ==
    ASSUME TypeOK, NEW p \in Process, JobStep(p) \/ AbortJob(p), NEW q \in Process, q # p
    PROVE  job'[q] = job[q]
<1> USE DEF TypeOK
<1>1. CASE Fail(p)
  BY <1>1 DEF Fail
<1>2. CASE ProposeStep(p) /\ ~Fail(p)
  BY <1>2 DEF ProposeStep, BeginPropose, CommitPropose, ProposeCatalogue, DeclineDraft, StoreDraft
<1>3. CASE BacktestStep(p)
  BY <1>3 DEF BacktestStep, BeginBacktest, RecordBacktest, CommitBacktest
<1>4. CASE ReviewStep(p)
  BY <1>4 DEF ReviewStep, BeginReview, AssessFirings, WriteReview, CommitReview
<1> QED
  BY <1>1, <1>2, <1>3, <1>4 DEF JobStep, AbortJob

\* A write that was founded and is still held is founded after the step: its
\* row cannot have moved, and its evidence can only have grown.
LEMMA HeldWritesPersist ==
    ASSUME TypeOK, HandsInv, [Next]_vars, NEW q \in Process, NEW r \in Rule,
           job[q].written[r] # None, job'[q].written[r] = job[q].written[r],
           job'[q].command = job[q].command
    PROVE  Founded(q, r)'
<1>1. Founded(q, r)
  BY DEF HandsInv, WritesInv
<1>2. job'[q] # IdleJob
  BY DEF IdleJob
<1>3. rules'[r] = rules[r]
  BY <1>2, RulesMove
<1>4. RecordSuffices(r) => RecordSuffices(r)'
  BY EvidencePersists
<1>5. LiveRecordSuffices(r) => LiveRecordSuffices(r)'
  BY EvidencePersists
<1> QED
  BY <1>1, <1>3, <1>4, <1>5 DEF Founded, Running

\* What a job judged and read stays true of the tables.
LEMMA JudgedPersists ==
    ASSUME TypeOK, HandsInv, [Next]_vars, NEW q \in Process,
           job'[q].record = job[q].record, job'[q].command = job[q].command,
           \A r \in Rule : job'[q].judged[r] \in {job[q].judged[r], None}
    PROVE  JudgedBy(q)'
<1>1. Resolved \subseteq Resolved'
  BY EvidencePersists
<1>2. ASSUME NEW r \in Rule, LiveRecordSuffices(r) PROVE LiveRecordSuffices(r)'
  BY <1>2, EvidencePersists
<1>3. None # "harmful"
  BY RulesAssumption
<1> QED
  BY <1>1, <1>2, <1>3 DEF HandsInv, JudgedInv, JudgedBy, Running

\* The job that steps: what it writes was free, and is founded like the rest.
OwnHands(p) ==
    /\ \A r \in Rule : job'[p].written[r] # None =>
          Founded(p, r)' /\ (job[p].written[r] # None \/ Unlocked(p, r))
    /\ JudgedBy(p)'

LEMMA EmptyHands ==
    ASSUME NEW p \in Process, job'[p].record \subseteq Resolved',
           job'[p].written = [r \in Rule |-> None], job'[p].judged = [r \in Rule |-> None]
    PROVE  OwnHands(p)
BY RulesAssumption DEF OwnHands, JudgedBy

LEMMA ProposeHands ==
    ASSUME TypeOK, HandsInv, [Next]_vars, NEW p \in Process, ProposeStep(p)
    PROVE  OwnHands(p)
<1> USE DEF TypeOK
<1> job[p] \in Job
  OBVIOUS
<1>1. ASSUME job'[p] = IdleJob PROVE OwnHands(p)
  BY <1>1, EmptyHands DEF IdleJob
<1>2. CASE BeginPropose(p)
  <2>1. /\ job'[p].record = {}
        /\ job'[p].written = [r \in Rule |-> None] /\ job'[p].judged = [r \in Rule |-> None]
    BY <1>2 DEF BeginPropose, IdleJob
  <2> QED
    BY <2>1, EmptyHands
<1>3. CASE CommitPropose(p)
  BY <1>1, <1>3 DEF CommitPropose
<1>4. ASSUME NEW c \in Category, ProposeCatalogue(p, c)
      PROVE  OwnHands(p)
  <2> DEFINE new == Catalogue[c] \ job[p].known
  <2>1. CASE \E r \in new : ~HasStatus(r, {"absent"})
    BY <1>1, <1>4, <2>1 DEF ProposeCatalogue, Fail
  <2>2. CASE ~\E r \in new : ~HasStatus(r, {"absent"})
    <3>1. /\ job'[p].record = job[p].record /\ job'[p].judged = job[p].judged
          /\ job'[p].command = job[p].command /\ job[p].command = "propose-rules"
          /\ job'[p].written = [r \in Rule |-> IF r \in new THEN "inserted" ELSE job[p].written[r]]
          /\ UNCHANGED rules
      BY <1>4, <2>2 DEF ProposeCatalogue, Running, Job, tables
    <3>2. JudgedBy(p)'
      BY <3>1, JudgedPersists
    <3>3. ASSUME NEW r \in Rule, r \in new
          PROVE  Founded(p, r)' /\ Unlocked(p, r)
      BY <1>4, <2>2, <3>1, <3>3 DEF ProposeCatalogue, Founded, Running, HasStatus
    <3>4. ASSUME NEW r \in Rule, r \notin new, job'[p].written[r] # None
          PROVE  Founded(p, r)' /\ job[p].written[r] # None
      BY <3>1, <3>4, HeldWritesPersist
    <3> QED
      BY <3>2, <3>3, <3>4 DEF OwnHands
  <2> QED
    BY <2>1, <2>2
<1>5. ASSUME NEW c \in Category, DeclineDraft(p, c)
      PROVE  OwnHands(p)
  <2>1. /\ job'[p].record = job[p].record /\ job'[p].judged = job[p].judged
        /\ job'[p].command = job[p].command /\ job'[p].written = job[p].written
    BY <1>5 DEF DeclineDraft, Job
  <2> QED
    BY <2>1, JudgedPersists, HeldWritesPersist DEF OwnHands
<1>6. ASSUME NEW c \in Category, StoreDraft(p, c)
      PROVE  OwnHands(p)
  BY <1>1, <1>6 DEF StoreDraft, Fail
<1> QED
  BY <1>2, <1>3, <1>4, <1>5, <1>6 DEF ProposeStep

\* A helpful backtest counted markets that are in the table.
LEMMA HelpfulIsFounded ==
    ASSUME TypeOK, NEW r \in Rule, NEW record \in SUBSET Resolved, "helpful" \in Judge(r, record)
    PROVE  RecordSuffices(r)
<1> DEFINE before == MarketsOf(Replays[r] \cap record)
           after  == MarketsOf(Replays[r] \cap Resolved)
<1>1. Cardinality(before) >= MinimumFired
  <2>1. Judge(r, record) = {"inconclusive"} \/ ~(Cardinality(before) < MinimumFired)
    BY DEF Judge
  <2>2. Replays[r] \cap record \in SUBSET Episode
    BY DEF Resolved
  <2>3. Cardinality(before) \in Nat /\ MinimumFired \in Nat
    BY <2>2, MarketsAreCounted, RulesAssumption
  <2> HIDE DEF before
  <2> QED
    BY <2>1, <2>3
<1>2. /\ before \subseteq after
      /\ IsFiniteSet(after) /\ Cardinality(before) \in Nat /\ Cardinality(after) \in Nat
  <2>1. Replays[r] \cap record \in SUBSET Episode /\ Replays[r] \cap Resolved \in SUBSET Episode
    BY DEF Resolved
  <2>2. before \subseteq after
    BY DEF MarketsOf
  <2> QED
    BY <2>1, <2>2, MarketsAreCounted
<1>3. Cardinality(before) <= Cardinality(after)
  BY <1>2, FS_Subset
<1>4. Cardinality(after) >= MinimumFired
  <2>1. MinimumFired \in Nat
    BY RulesAssumption
  <2> HIDE DEF before, after
  <2> QED
    BY <1>1, <1>2, <1>3, <2>1
<1> QED
  BY <1>4, RecordIsCounted

LEMMA BacktestHands ==
    ASSUME TypeOK, HandsInv, [Next]_vars, NEW p \in Process, BacktestStep(p)
    PROVE  OwnHands(p)
<1> USE DEF TypeOK
<1> job[p] \in Job
  OBVIOUS
<1>1. CASE BeginBacktest(p)
  <2>1. /\ job'[p].record = Resolved
        /\ job'[p].written = [r \in Rule |-> None] /\ job'[p].judged = [r \in Rule |-> None]
    BY <1>1 DEF BeginBacktest, IdleJob
  <2> QED
    BY <2>1, EmptyHands, EvidencePersists
<1>2. CASE CommitBacktest(p)
  BY <1>2, EmptyHands DEF CommitBacktest, IdleJob
<1>3. ASSUME NEW s \in Rule, RecordBacktest(p, s)
      PROVE  OwnHands(p)
  <2>1. PICK verdict \in Judge(s, job[p].record) :
            job' = [job EXCEPT ![p].todo = @ \ {s},
                              ![p].written[s] = IF HasStatus(s, {"proposed"}) THEN verdict ELSE @]
    BY <1>3 DEF RecordBacktest
  <2>2. /\ job'[p].record = job[p].record /\ job'[p].judged = job[p].judged
        /\ job'[p].command = job[p].command /\ job[p].command = "backtest-rules"
        /\ job'[p].written =
              [job[p].written EXCEPT ![s] = IF HasStatus(s, {"proposed"}) THEN verdict ELSE @]
        /\ UNCHANGED rules
    BY <1>3, <2>1 DEF RecordBacktest, Running, Job, tables
  <2>3. JudgedBy(p)'
    BY <2>2, JudgedPersists
  <2>4. verdict \in Verdicts
    BY VerdictTypes
  <2>5. verdict = "helpful" => RecordSuffices(s)'
    <3>1. job[p].record \in SUBSET Resolved
      BY DEF HandsInv, JudgedInv, JudgedBy
    <3> QED
      BY <3>1, HelpfulIsFounded, EvidencePersists
  <2>6. ASSUME NEW r \in Rule, job'[p].written[r] # None
        PROVE  Founded(p, r)' /\ (job[p].written[r] # None \/ Unlocked(p, r))
    <3>1. CASE r = s /\ HasStatus(s, {"proposed"})
      <4>1. job'[p].written[r] = verdict /\ rules'[r].status = "proposed"
        BY <2>2, <3>1 DEF HasStatus, Job
      <4> QED
        BY <1>3, <2>2, <2>4, <2>5, <3>1, <4>1 DEF RecordBacktest, Founded, Running
    <3>2. CASE ~(r = s /\ HasStatus(s, {"proposed"}))
      <4>1. job'[p].written[r] = job[p].written[r]
        BY <2>2, <3>2 DEF Job
      <4> QED
        BY <2>2, <2>6, <4>1, HeldWritesPersist
    <3> QED
      BY <3>1, <3>2
  <2> QED
    BY <2>3, <2>6 DEF OwnHands
<1> QED
  BY <1>1, <1>2, <1>3 DEF BacktestStep

LEMMA ReviewHands ==
    ASSUME TypeOK, HandsInv, [Next]_vars, NEW p \in Process, ReviewStep(p)
    PROVE  OwnHands(p)
<1> USE DEF TypeOK
<1> job[p] \in Job
  OBVIOUS
<1>1. CASE BeginReview(p)
  <2>1. /\ job'[p].record = {}
        /\ job'[p].written = [r \in Rule |-> None] /\ job'[p].judged = [r \in Rule |-> None]
    BY <1>1 DEF BeginReview, IdleJob
  <2> QED
    BY <2>1, EmptyHands
<1>2. CASE CommitReview(p)
  BY <1>2, EmptyHands DEF CommitReview, IdleJob
<1>3. ASSUME NEW s \in Rule, AssessFirings(p, s)
      PROVE  OwnHands(p)
  <2>1. PICK verdict \in JudgeLive(s) :
            job' = [job EXCEPT ![p].todo = @ \ {s}, ![p].judged[s] = verdict]
    BY <1>3 DEF AssessFirings
  <2>2. /\ job'[p].record = job[p].record /\ job'[p].written = job[p].written
        /\ job'[p].command = job[p].command /\ job[p].command = "review-rules"
        /\ job'[p].judged = [job[p].judged EXCEPT ![s] = verdict]
    BY <1>3, <2>1 DEF AssessFirings, Running, Job
  <2>3. ASSUME NEW r \in Rule, job'[p].written[r] # None
        PROVE  Founded(p, r)' /\ job[p].written[r] # None
    BY <2>2, <2>3, HeldWritesPersist
  <2>4. verdict = "harmful" => LiveRecordSuffices(s)'
    <3>1. ~LiveSampleSuffices(s) => JudgeLive(s) = {"inconclusive"}
      BY DEF JudgeLive
    <3> QED
      BY <3>1, LiveRecordIsCounted, EvidencePersists
  <2>5. JudgedBy(p)'
    <3>1. job'[p].record \subseteq Resolved'
      BY <2>2, EvidencePersists DEF HandsInv, JudgedInv, JudgedBy
    <3>2. ASSUME NEW r \in Rule, job'[p].judged[r] = "harmful"
          PROVE  LiveRecordSuffices(r)'
      <4>1. CASE r = s
        BY <2>2, <2>4, <3>2, <4>1 DEF Job
      <4>2. CASE r # s
        <5>1. job[p].judged[r] = "harmful"
          BY <2>2, <3>2, <4>2 DEF Job
        <5> QED
          BY <5>1, EvidencePersists DEF HandsInv, JudgedInv, JudgedBy
      <4> QED
        BY <4>1, <4>2
    <3> QED
      BY <2>2, <3>1, <3>2 DEF JudgedBy, Running
  <2> QED
    BY <2>3, <2>5 DEF OwnHands
<1>4. ASSUME NEW s \in Rule, WriteReview(p, s)
      PROVE  OwnHands(p)
  <2>1. /\ job'[p].record = job[p].record
        /\ job'[p].command = job[p].command
        /\ job'[p].judged = [job[p].judged EXCEPT ![s] = None]
        /\ job'[p].written =
              [job[p].written EXCEPT ![s] = IF HasStatus(s, {"active"}) THEN job[p].judged[s] ELSE @]
        /\ UNCHANGED rules
    BY <1>4 DEF WriteReview, Job, tables
  <2>2. job[p].command = "review-rules" /\ Unlocked(p, s) /\ job[p].judged[s] \in Verdicts
    BY <1>4 DEF WriteReview, Running, Job
  <2>3. JudgedBy(p)'
    BY <2>1, JudgedPersists DEF Job
  <2>4. job[p].judged[s] = "harmful" => LiveRecordSuffices(s)'
    BY EvidencePersists DEF HandsInv, JudgedInv, JudgedBy
  <2>5. ASSUME NEW r \in Rule, job'[p].written[r] # None
        PROVE  Founded(p, r)' /\ (job[p].written[r] # None \/ Unlocked(p, r))
    <3>1. CASE r = s /\ HasStatus(s, {"active"})
      <4>1. job'[p].written[r] = job[p].judged[s] /\ rules'[r].status = "active"
        BY <2>1, <3>1 DEF HasStatus, Job
      <4> QED
        BY <2>1, <2>2, <2>4, <3>1, <4>1 DEF Founded, Running
    <3>2. CASE ~(r = s /\ HasStatus(s, {"active"}))
      <4>1. job'[p].written[r] = job[p].written[r]
        BY <2>1, <3>2 DEF Job
      <4> QED
        BY <2>1, <2>5, <4>1, HeldWritesPersist
    <3> QED
      BY <3>1, <3>2
  <2> QED
    BY <2>3, <2>5 DEF OwnHands
<1> QED
  BY <1>1, <1>2, <1>3, <1>4 DEF ReviewStep

\* Whoever steps, every job's hands are founded afterwards.
LEMMA HandsStep ==
    ASSUME TypeOK, HandsInv, [Next]_vars
    PROVE  HandsInv'
<1>1. ASSUME UNCHANGED job PROVE HandsInv'
  <2>1. LockInv'
    BY <1>1 DEF HandsInv, LockInv
  <2>2. WritesInv'
    BY <1>1, HeldWritesPersist DEF WritesInv
  <2>3. JudgedInv'
    BY <1>1, JudgedPersists DEF JudgedInv
  <2> QED
    BY <2>1, <2>2, <2>3 DEF HandsInv
<1>2. ASSUME NEW p \in Process, JobStep(p) \/ AbortJob(p)
      PROVE  HandsInv'
  <2>1. OwnHands(p)
    <3>1. CASE AbortJob(p)
      BY <3>1, EmptyHands DEF AbortJob, Fail, IdleJob, TypeOK
    <3> QED
      BY <1>2, <3>1, ProposeHands, BacktestHands, ReviewHands DEF JobStep
  <2>2. \A q \in Process : q # p => job'[q] = job[q]
    BY <1>2, OthersKeep
  <2>3. LockInv'
    BY <2>1, <2>2 DEF OwnHands, HandsInv, LockInv, Unlocked
  <2>4. WritesInv'
    BY <2>1, <2>2, HeldWritesPersist DEF OwnHands, WritesInv
  <2>5. JudgedInv'
    BY <2>1, <2>2, JudgedPersists DEF OwnHands, JudgedInv
  <2> QED
    BY <2>3, <2>4, <2>5 DEF HandsInv
<1>3. CASE UNCHANGED vars
  BY <1>1, <1>3 DEF vars
<1> QED
  BY <1>1, <1>2, <1>3, CallsKeepForecasts, ForecastsKeepRules DEF Next

-----------------------------------------------------------------------------
(***************************************************************************)
(* The theorems.                                                           *)
(***************************************************************************)
LEMMA InitIsInductive == Init => IInv
<1> SUFFICES ASSUME Init PROVE IInv
  OBVIOUS
<1> USE DEF Init
<1>1. TypeOK
  BY IdleJobType, NoRuleType, RulesAssumption DEF TypeOK
<1>2. HandsInv
  <2>1. \A p \in Process : job[p].record = {} /\ \A r \in Rule :
            job[p].written[r] = None /\ job[p].judged[r] = None
    BY DEF IdleJob
  <2> QED
    BY <2>1, RulesAssumption DEF HandsInv, LockInv, WritesInv, JudgedInv, JudgedBy
<1>3. LedgerInv
  <2>1. \A r \in Rule : rules[r] = NoRule
    OBVIOUS
  <2> QED
    BY <2>1, RulesAssumption DEF LedgerInv, LedgerAt, NoRule
<1>4. ForecastsHeedSignedRules
  BY DEF ForecastsHeedSignedRules
<1>5. FiringsOnRecord
  BY DEF FiringsOnRecord
<1> QED
  BY <1>1, <1>2, <1>3, <1>4, <1>5 DEF IInv

LEMMA StepIsInductive ==
    ASSUME IInv, [Next]_vars
    PROVE  IInv'
BY TypeStep, HandsStep, LedgerStep, FiringsStep, ForecastsStep DEF IInv, HandsInv

\* The inductive invariant: a verdict in a job's hands is founded on the
\* tables and its row is locked, and so is every status in the table.
THEOREM RulesInductive == Spec => []IInv
BY InitIsInductive, StepIsInductive, PTL DEF Spec

\* Every table, snapshot and job of the rule lifecycle keeps its shape.
THEOREM RulesTyped == Spec => []TypeOK
<1>1. IInv => TypeOK
  BY DEF IInv
<1> QED
  BY <1>1, RulesInductive, PTL

\* Whatever jobs and calls interleave, a rule that affects forecasts, or ever
\* did, was signed for by a human on a helpful backtest that the tables bear
\* out (migration 022, approve_rule).
THEOREM AuthorityEarned == Spec => []AuthorityIsEarned
<1>1. IInv => AuthorityIsEarned
  <2> SUFFICES ASSUME IInv, NEW r \in Rule, HasStatus(r, {"active", "suspended", "retired"})
               PROVE  /\ rules[r].approvedBy \in Human
                      /\ rules[r].backtest = "helpful"
                      /\ RecordSuffices(r)
    BY DEF AuthorityIsEarned
  <2>1. rules[r] \in RuleRow /\ LedgerAt(r)
    BY DEF IInv, TypeOK, LedgerInv
  <2> QED
    BY <2>1 DEF LedgerAt, HasStatus, RuleRow
<1> QED
  BY <1>1, RulesInductive, PTL

\* A forecast on record was changed by signed rules only, and no run still
\* going will do otherwise, however long ago it loaded its rules.
THEOREM SignedRulesHeeded == Spec => []ForecastsHeedSignedRules
<1>1. IInv => ForecastsHeedSignedRules
  BY DEF IInv
<1> QED
  BY <1>1, RulesInductive, PTL

\* A rule is suspended only on its own resolved live firings, over enough
\* effective markets (review_active_rules).
THEOREM SuspensionMeasured == Spec => []SuspensionIsMeasured
<1>1. IInv => SuspensionIsMeasured
  BY DEF IInv, LedgerInv, LedgerAt, SuspensionIsMeasured, HasStatus
<1> QED
  BY <1>1, RulesInductive, PTL

\* No step of any job or call takes a rule back: rejection, suspension and
\* retirement are final.
THEOREM RulesAdvance == Spec => RulesOnlyAdvance
<1>1. IInv /\ [Next]_vars => [\A r \in Rule : May(rules[r].status, rules'[r].status)]_vars
  BY LedgerStep DEF IInv
<1> QED
  BY <1>1, RulesInductive, PTL DEF Spec, RulesOnlyAdvance

\* The names on a rule, and the verdict it was approved on, outlive every job
\* that was working when they were written.
THEOREM SignaturesKept == Spec => SignaturesStand
<1>1. IInv /\ [Next]_vars =>
          [\A r \in Rule : rules[r].approvedBy # None =>
              /\ rules'[r].approvedBy = rules[r].approvedBy
              /\ rules'[r].backtest = rules[r].backtest
              /\ rules[r].retiredBy # None => rules'[r].retiredBy = rules[r].retiredBy]_vars
  BY LedgerStep DEF IInv
<1> QED
  BY <1>1, RulesInductive, PTL DEF Spec, SignaturesStand

-----------------------------------------------------------------------------
(***************************************************************************)
(* The rule lifecycle implements RuleGovernance.  A step moves one of the  *)
(* rules, the outcomes and the firings: approval signs, any other move of  *)
(* the rules withdraws those that leave "active" (often none), an outcome  *)
(* measures and a committed board influences.                              *)
(***************************************************************************)
Leaving == {r \in Rule : rules[r].status = "active" /\ rules'[r].status # "active"}

\* Only approval signs.
LEMMA OnlyApprovalSigns ==
    ASSUME IInv, [Next]_vars,
           \A r \in Rule, human \in Human : ~ApproveRule(r, human)
    PROVE  \A r \in Rule :
              /\ rules'[r].approvedBy = rules[r].approvedBy
              /\ AuthorityAt(rules'[r].status) =
                    IF r \in Leaving THEN "withdrawn" ELSE AuthorityAt(rules[r].status)
<1> SUFFICES ASSUME NEW r \in Rule
    PROVE  /\ rules'[r].approvedBy = rules[r].approvedBy
           /\ AuthorityAt(rules'[r].status) =
                 IF rules[r].status = "active" /\ rules'[r].status # "active"
                 THEN "withdrawn" ELSE AuthorityAt(rules[r].status)
  BY DEF Leaving
<1> DEFINE Kept == /\ rules'[r].approvedBy = rules[r].approvedBy
                   /\ AuthorityAt(rules'[r].status) =
                         IF rules[r].status = "active" /\ rules'[r].status # "active"
                         THEN "withdrawn" ELSE AuthorityAt(rules[r].status)
<1>1. rules[r] \in RuleRow /\ LedgerAt(r) /\ Move(r)
  BY RulesMove DEF IInv, TypeOK, LedgerInv
<1>2. rules'[r].approvedBy = rules[r].approvedBy
  <2>1. ASSUME rules'[r] = rules[r] PROVE rules'[r].approvedBy = rules[r].approvedBy
    BY <2>1
  <2>2. ASSUME NEW s \in Rule, AgentProposes(s) PROVE rules'[r].approvedBy = rules[r].approvedBy
    BY <1>1, <2>2 DEF AgentProposes, Proposed, IInv, TypeOK, RuleRow
  <2>3. ASSUME NEW s \in Rule, NEW human \in Human, RetireRule(s, human)
        PROVE  rules'[r].approvedBy = rules[r].approvedBy
    BY <1>1, <2>3 DEF RetireRule, IInv, TypeOK, RuleRow
  <2>4. ASSUME NEW p \in Process, JobStep(p) \/ AbortJob(p)
        PROVE  rules'[r].approvedBy = rules[r].approvedBy
    <3>1. CASE AbortJob(p)
      BY <3>1 DEF AbortJob, Fail, tables
    <3>2. CASE ProposeStep(p)
      <4>1. CASE CommitPropose(p)
        BY <1>1, <4>1 DEF CommitPropose, Proposed, RuleRow
      <4> QED
        BY <3>2, <4>1 DEF ProposeStep, BeginPropose, ProposeCatalogue, DeclineDraft, StoreDraft,
                          Fail, tables
    <3>3. CASE BacktestStep(p)
      <4>1. CASE CommitBacktest(p)
        BY <1>1, <4>1 DEF CommitBacktest, Backtested, RuleRow
      <4> QED
        BY <3>3, <4>1 DEF BacktestStep, BeginBacktest, RecordBacktest, tables
    <3>4. CASE ReviewStep(p)
      <4>1. CASE CommitReview(p)
        BY <1>1, <4>1 DEF CommitReview, Reviewed, RuleRow
      <4> QED
        BY <3>4, <4>1 DEF ReviewStep, BeginReview, AssessFirings, WriteReview, tables
    <3> QED
      BY <2>4, <3>1, <3>2, <3>3, <3>4 DEF JobStep
  <2>5. StartUnit \/ ForecastStep \/ OutcomeStep \/ UNCHANGED vars => UNCHANGED rules
    BY ForecastsKeepRules DEF StartUnit, vars, tables
  <2> QED
    BY <2>1, <2>2, <2>3, <2>4, <2>5 DEF Next, HumanStep
<1>3. AuthorityAt(rules'[r].status) =
          IF rules[r].status = "active" /\ rules'[r].status # "active"
          THEN "withdrawn" ELSE AuthorityAt(rules[r].status)
  <2> USE <1>1 DEF RuleRow, AuthorityAt
  <2>1. CASE rules'[r] = rules[r]
    BY <2>1
  <2>2. CASE rules[r].status = "absent" /\ rules'[r] = Proposed(rules[r])
    BY <2>2 DEF Proposed
  <2>3. ASSUME rules[r].status = "proposed", NEW verdict \in Verdicts,
               rules'[r] = Backtested(rules[r], verdict)
        PROVE  AuthorityAt(rules'[r].status) = "inert" /\ AuthorityAt(rules[r].status) = "inert"
    <3>1. rules'[r].status \in {"backtested", "rejected", "proposed"}
      BY <2>3 DEF Backtested, Verdicts
    <3> QED
      BY <2>3, <3>1
  <2>4. ASSUME rules[r].status = "active", NEW verdict \in Verdicts,
               rules'[r] = Reviewed(rules[r], verdict)
        PROVE  rules'[r].status \in {"active", "suspended"}
    BY <2>4 DEF Reviewed
  <2>5. ASSUME MayApprove(r), NEW human \in Human, rules'[r] = Activated(rules[r], human)
        PROVE  FALSE
    BY <1>2, <2>5, RulesAssumption DEF MayApprove, HasStatus, Activated, LedgerAt
  <2>6. ASSUME rules[r].status = "active", NEW human \in Human,
               rules'[r] = [rules[r] EXCEPT !.status = "retired", !.retiredBy = human]
        PROVE  rules'[r].status = "retired"
    BY <2>6
  <2> QED
    BY <2>1, <2>2, <2>3, <2>4, <2>5, <2>6 DEF Move
<1> QED
  BY <1>2, <1>3

\* Every step is a step of RuleGovernance, or none.
LEMMA StepIsGoverned ==
    ASSUME IInv, IInv', [Next]_vars
    PROVE  [Governance!GovNext]_(Governance!ruleGovVars)
<1> DEFINE authority  == [r \in Rule |-> AuthorityAt(rules[r].status)]
           signer     == [r \in Rule |-> rules[r].approvedBy]
           measured   == {r \in Rule : RecordSuffices(r)}
           influenced == {r \in Rule : \E e \in Episode : firings[r][e] = "live"}
<1>1. ASSUME UNCHANGED <<outcome, firings>> PROVE UNCHANGED <<measured, influenced>>
  BY <1>1 DEF RecordSuffices
<1>2. ASSUME UNCHANGED rules PROVE UNCHANGED <<authority, signer>>
  BY <1>2
<1>3. ASSUME NEW r \in Rule, NEW human \in Human, ApproveRule(r, human)
      PROVE  Governance!GovNext
  <2>1. /\ MayApprove(r) /\ rules' = [rules EXCEPT ![r] = Activated(@, human)]
        /\ UNCHANGED <<outcome, firings>> /\ rules \in [Rule -> RuleRow] /\ LedgerAt(r)
    BY <1>3 DEF ApproveRule, IInv, TypeOK, LedgerInv
  <2>2. /\ authority[r] = "inert" /\ r \in measured
        /\ authority' = [authority EXCEPT ![r] = "live"]
        /\ signer' = [signer EXCEPT ![r] = human]
    <3>1. authority[r] = "inert" /\ r \in measured
      BY <2>1 DEF MayApprove, HasStatus, AuthorityAt, LedgerAt
    <3>2. ASSUME NEW s \in Rule
          PROVE  /\ AuthorityAt(rules'[s].status) =
                       IF s = r THEN "live" ELSE AuthorityAt(rules[s].status)
                 /\ rules'[s].approvedBy = IF s = r THEN human ELSE rules[s].approvedBy
      BY <2>1 DEF Activated, AuthorityAt, RuleRow
    <3>3. authority' = [authority EXCEPT ![r] = "live"]
      BY <3>2
    <3>4. signer' = [signer EXCEPT ![r] = human]
      BY <3>2
    <3> QED
      BY <3>1, <3>3, <3>4
  <2>3. UNCHANGED <<measured, influenced>>
    BY <1>1, <2>1
  <2>4. Governance!Sign(r, human)
    BY <2>2, <2>3 DEF Governance!Sign
  <2> QED
    BY <2>4 DEF Governance!GovNext
<1>4. ASSUME \A r \in Rule, human \in Human : ~ApproveRule(r, human), UNCHANGED <<outcome, firings>>
      PROVE  Governance!GovNext
  <2>1. \A r \in Leaving : authority[r] = "live"
    BY DEF Leaving, AuthorityAt
  <2>2. authority' = [r \in Rule |-> IF r \in Leaving THEN "withdrawn" ELSE authority[r]]
    BY <1>4, OnlyApprovalSigns
  <2>3. UNCHANGED signer
    BY <1>4, OnlyApprovalSigns
  <2>4. UNCHANGED <<measured, influenced>>
    BY <1>1, <1>4
  <2>5. Governance!Withdraw(Leaving)
    BY <2>1, <2>2, <2>3, <2>4 DEF Governance!Withdraw
  <2>6. Leaving \in SUBSET Rule
    BY DEF Leaving
  <2> QED
    BY <2>5, <2>6 DEF Governance!GovNext
<1>5. ASSUME NEW e \in Episode, SettleOutcome(e)
      PROVE  Governance!GovNext
  <2>1. UNCHANGED <<rules, firings>>
    BY <1>5 DEF SettleOutcome
  <2>2. measured \subseteq measured' /\ measured' \subseteq Rule
    BY EvidencePersists DEF IInv
  <2>3. UNCHANGED influenced
    BY <2>1
  <2>4. Governance!Measure
    BY <1>2, <2>1, <2>2, <2>3 DEF Governance!Measure
  <2> QED
    BY <2>4 DEF Governance!GovNext
<1>6. ASSUME NEW board \in SUBSET Episode, CommitForecast(board)
      PROVE  Governance!GovNext
  <2>1. UNCHANGED rules
    BY <1>6 DEF CommitForecast
  <2>2. UNCHANGED measured
    <3>1. \A e \in Episode : outcome[e] \in {"hit", "miss"} <=> outcome'[e] \in {"hit", "miss"}
      BY <1>6 DEF CommitForecast
    <3>2. ASSUME NEW r \in Rule PROVE RecordSuffices(r) <=> RecordSuffices(r)'
      <4>1. Replays[r] \subseteq Episode
        BY RulesAssumption
      <4>2. {m \in Market : \E e \in Replays[r] : MarketOf[e] = m /\ outcome[e] \in {"hit", "miss"}} =
            {m \in Market : \E e \in Replays[r] : MarketOf[e] = m /\ outcome'[e] \in {"hit", "miss"}}
        BY <3>1, <4>1
      <4> QED
        BY <4>2 DEF RecordSuffices
    <3> QED
      BY <3>2
  <2>3. influenced \subseteq influenced'
    <3>1. \A r \in Rule, e \in Episode : firings[r][e] = "live" => firings'[r][e] = "live"
      BY <1>6 DEF CommitForecast, IInv, FiringsOnRecord
    <3> QED
      BY <3>1
  <2>4. influenced' \subseteq Governance!Signed
    BY <1>2, <2>1 DEF IInv, ForecastsHeedSignedRules, Governance!Signed
  <2>5. Governance!Influence
    BY <1>2, <2>1, <2>2, <2>3, <2>4 DEF Governance!Influence
  <2> QED
    BY <2>5 DEF Governance!GovNext
<1>7. CASE UNCHANGED vars
  BY <1>1, <1>2, <1>7 DEF vars, tables, Governance!ruleGovVars
<1>8. ASSUME ForecastStep \/ OutcomeStep, ~\E board \in SUBSET Episode : CommitForecast(board),
             ~\E e \in Episode : SettleOutcome(e)
      PROVE  UNCHANGED <<rules, outcome, firings>>
  BY <1>8, ForecastsKeepRules
  DEF ForecastStep, OutcomeStep, BeginForecast, AbortForecast, AttributeErrors, tables
<1> QED
  <2>1. CASE UNCHANGED <<outcome, firings>>
    BY <1>3, <1>4, <2>1
  <2>2. CASE ForecastStep \/ OutcomeStep
    BY <1>5, <1>6, <1>8, <2>1, <2>2
  <2> QED
    BY <1>7, <2>1, <2>2, JobsKeepForecasts, CallsKeepForecasts DEF Next

\* The interleaved jobs, calls and forecast runs give a rule authority over
\* forecasts only as RuleGovernance says.
THEOREM LifecycleImplementsGovernance == Spec => ImplementsGovernance
<1>1. Init => Governance!GovInit
  <2> SUFFICES ASSUME Init PROVE Governance!GovInit
    OBVIOUS
  <2>1. \A r \in Rule : rules[r] = NoRule
    BY DEF Init
  <2>2. [r \in Rule |-> AuthorityAt(rules[r].status)] = [r \in Rule |-> "inert"]
    BY <2>1 DEF NoRule, AuthorityAt
  <2>3. [r \in Rule |-> rules[r].approvedBy] = [r \in Rule |-> None]
    BY <2>1 DEF NoRule
  <2>4. {r \in Rule : RecordSuffices(r)} = {}
    <3> SUFFICES ASSUME NEW r \in Rule PROVE ~RecordSuffices(r)
      OBVIOUS
    <3>1. Replays[r] \cap Resolved = {}
      BY DEF Init, Resolved
    <3>2. MarketsOf(Replays[r] \cap Resolved) = {}
      BY <3>1 DEF MarketsOf
    <3>3. Cardinality(MarketsOf(Replays[r] \cap Resolved)) = 0
      BY <3>2, FS_EmptySet
    <3>4. MinimumFired \in Nat \ {0}
      BY RulesAssumption
    <3> QED
      BY <3>3, <3>4, RecordIsCounted
  <2>5. {r \in Rule : \E e \in Episode : firings[r][e] = "live"} = {}
    BY DEF Init
  <2> QED
    BY <2>2, <2>3, <2>4, <2>5 DEF Governance!GovInit
<1> QED
  BY <1>1, StepIsGoverned, RulesInductive, PTL DEF Spec, ImplementsGovernance, Governance!GovSpec
=============================================================================
