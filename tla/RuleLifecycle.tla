----------------------------- MODULE RuleLifecycle -----------------------------
(***************************************************************************)
(* The life of an analyst rule: proposed from measured errors              *)
(* (learning_loop/rule_proposals.py) or by a research run                  *)
(* (research_agents/organization.py), backtested against the settled       *)
(* record (rule_lifecycle.py, rule_backtest.py), approved and retired by a *)
(* named human, fired by the forecast run (forecasting/rules.py,           *)
(* wnba_rules/engine.py), and suspended on its own live firings            *)
(* (rule_review.py).                                                       *)
(*                                                                         *)
(* Each of the three weekly commands is one PostgreSQL transaction that    *)
(* reads, works for seconds or for minutes of model calls, and writes.     *)
(* The weekly systemd unit runs them in order and stops at the first that  *)
(* fails; the same commands can be typed at any moment.                    *)
(***************************************************************************)
EXTENDS Naturals, FiniteSets, SampleShape

CONSTANTS
    Rule,             \* bound: the rule ids anyone proposes
    KindOf,           \* the action of a rule's definition
    Category,         \* error categories
    CategoryOf,       \* the avoidable error an episode shows, or None
    Catalogue,        \* category |-> its CANDIDATE_RULES
    Templates,        \* categories with a hypothesis template
    Drafts,           \* ids the model may answer propose-rules with
    AgentDrafts,      \* ids a research run may propose
    Replays,          \* rule |-> episodes whose stored facts match it
    FiresOn,          \* rule |-> episodes whose live facts match it
    Human,            \* names a caller may type
    Process,          \* bound: jobs at work at the same time
    Weekly,           \* the one the systemd unit runs, or None
    MinimumFailures,  \* 12 in the code
    MinimumFired,     \* 25 in the code
    MinimumLive,      \* 15 in the code
    Breakeven,        \* percent, of a leg of a two-leg power entry
    MaxAborts,        \* bound: transactions that die before their commit
    None              \* SQL NULL

Kinds == {"block", "shrink_toward_even", "flag_for_review", "require_evidence"}

ASSUME RulesAssumption ==
    /\ KindOf \in [Rule -> Kinds]
    /\ CategoryOf \in [Episode -> Category \cup {None}]
    /\ Catalogue \in [Category -> SUBSET Rule]
    /\ Templates \subseteq Category
    /\ Drafts \subseteq Rule /\ AgentDrafts \subseteq Rule
    /\ Replays \in [Rule -> SUBSET Episode]
    /\ FiresOn \in [Rule -> SUBSET Episode]
    /\ MinimumFailures \in Nat \ {0} /\ MinimumFired \in Nat \ {0} /\ MinimumLive \in Nat \ {0}
    /\ Breakeven \in 0 .. 100
    /\ MaxAborts \in Nat
    /\ Weekly \in Process \cup {None}
    /\ None \notin Category \cup Human \cup Process
    /\ None \notin {"helpful", "harmful", "inconclusive", "inserted"}

VARIABLES
    rules,       \* wnba.analyst_rules, by rule_id
    hypotheses,  \* how many wnba.hypotheses rows each category's template has
    firings,     \* wnba.rule_firings, by rule and episode
    outcome,     \* decision_episodes joined to episode_outcomes
    attributed,  \* the episodes of wnba.error_attributions
    run,         \* the forecast run in progress, and the rules it loaded
    job,         \* process |-> the command it is running
    unit,        \* the weekly unit: the command it has reached
    aborts       \* transactions aborted so far

tables == <<rules, hypotheses, firings, outcome, attributed>>
vars   == <<tables, run, job, unit, aborts>>

Verdicts == {"helpful", "harmful", "inconclusive"}
Status   == {"absent", "proposed", "backtested", "active", "suspended", "rejected", "retired"}
Commands == {"propose-rules", "backtest-rules", "review-rules"}

RuleRow ==
    [status : Status, backtest : Verdicts \cup {None}, review : Verdicts \cup {None},
     approvedBy : Human \cup {None}, retiredBy : Human \cup {None}]

NoRule == [status |-> "absent", backtest |-> None, review |-> None,
           approvedBy |-> None, retiredBy |-> None]

HasStatus(r, statuses) == rules[r].status \in statuses

(***************************************************************************)
(* A job keeps what it selected (due, known, record, todo), what it has    *)
(* computed and not written (judged), and the rows it has written and so   *)
(* holds locked until it commits (written, created).                       *)
(***************************************************************************)
Job == [command : Commands \cup {"none"},
        due : SUBSET Category, known : SUBSET Rule, knownHypotheses : SUBSET Category,
        record : SUBSET Episode, todo : SUBSET Rule,
        judged : [Rule -> Verdicts \cup {None}],
        written : [Rule -> Verdicts \cup {"inserted", None}],
        created : SUBSET Category]

IdleJob == [command |-> "none", due |-> {}, known |-> {}, knownHypotheses |-> {},
            record |-> {}, todo |-> {}, judged |-> [r \in Rule |-> None],
            written |-> [r \in Rule |-> None], created |-> {}]

\* No transaction holds row r, or its key, in an uncommitted write.
Free(r) == \A p \in Process : job[p].written[r] = None

\* No other transaction holds row r, or its key, in an uncommitted write.
Unlocked(p, r) == \A q \in Process \ {p} : job[q].written[r] = None

Running(p, command) == job[p].command = command

-----------------------------------------------------------------------------
(***************************************************************************)
(* Evidence.                                                               *)
(***************************************************************************)
\* Mutation: the record is loaded without its WHERE NOT was_voided.
SettledAtAll == {e \in Episode : outcome[e] \in {"hit", "miss", "void_or_push"}}

Resolved == {e \in Episode : outcome[e] \in {"hit", "miss"}}
Hits(rows) == Cardinality({e \in rows : outcome[e] = "hit"})

DueCategories ==
    {c \in Category :
        Cardinality(MarketsOf({e \in attributed : CategoryOf[e] = c})) >= MinimumFailures}

\* _judge over the replayed record.  How a shrink rule moves the mean log loss
\* is data; everything else the verdict depends on is counted.
Judge(r, record) ==
    LET fired   == Replays[r] \cap record
        markets == Cardinality(MarketsOf(fired))
    IN  IF markets < MinimumFired THEN {"inconclusive"}
        ELSE IF 10 * markets > 6 * Cardinality(MarketsOf(record)) THEN {"harmful"}
        ELSE CASE KindOf[r] = "block" ->
                    {IF 100 * Hits(fired) < Breakeven * Cardinality(fired)
                     THEN "helpful" ELSE "harmful"}
               [] KindOf[r] = "shrink_toward_even" -> Verdicts
               [] OTHER -> {"inconclusive"}

\* Mutation: shadow firings count as live ones.
FiredAtAll(r) == {e \in Resolved : firings[r][e] # "none"}

\* The rows the review scores: what the rule really did, on episodes that
\* resolved.
LiveRows(r) == {e \in Resolved : firings[r][e] = "live"}

LiveSampleSuffices(r) ==
    EffectiveReaches(Cardinality(MarketsOf(LiveRows(r))), Cardinality(GamesOf(LiveRows(r))),
                     MinimumLive)

\* judge_live_rule.
JudgeLive(r) ==
    IF ~LiveSampleSuffices(r) THEN {"inconclusive"}
    ELSE CASE KindOf[r] = "block" ->
                {IF 2 * Hits(LiveRows(r)) >= Cardinality(LiveRows(r)) THEN "harmful" ELSE "helpful"}
           [] KindOf[r] = "shrink_toward_even" -> Verdicts
           [] OTHER -> {"inconclusive"}

-----------------------------------------------------------------------------
Init ==
    /\ rules = [r \in Rule |-> NoRule]
    /\ hypotheses = [c \in Category |-> 0]
    /\ firings = [r \in Rule |-> [e \in Episode |-> "none"]]
    /\ outcome = [e \in Episode |-> "unforecast"]
    /\ attributed = {}
    /\ run = [active |-> FALSE, live |-> {}, shadow |-> {}]
    /\ job = [p \in Process |-> IdleJob]
    /\ unit = "idle"
    /\ aborts = 0

(***************************************************************************)
(* The weekly unit starts its first command and moves on as each ends; a   *)
(* command that fails fails the unit until the next Monday.                *)
(***************************************************************************)
StartUnit ==
    /\ unit = "idle" /\ Weekly # None
    /\ unit' = "propose-rules"
    /\ UNCHANGED <<tables, run, job, aborts>>

MayStart(p, command) == Running(p, "none") /\ (p = Weekly => unit = command)

Ended(p, next) == unit' = IF p = Weekly THEN next ELSE unit

\* The transaction rolls back and its process exits non-zero.
Fail(p) ==
    /\ job' = [job EXCEPT ![p] = IdleJob]
    /\ Ended(p, "idle")
    /\ UNCHANGED <<tables, run>>

AbortJob(p) ==
    /\ ~Running(p, "none") /\ aborts < MaxAborts
    /\ Fail(p)
    /\ aborts' = aborts + 1

-----------------------------------------------------------------------------
(***************************************************************************)
(* propose-rules.                                                          *)
(***************************************************************************)
BeginPropose(p) ==
    /\ MayStart(p, "propose-rules")
    /\ job' = [job EXCEPT ![p] =
           [IdleJob EXCEPT !.command = "propose-rules", !.due = DueCategories,
                           !.known = {r \in Rule : ~HasStatus(r, {"absent"})},
                           !.knownHypotheses = {c \in Category : hypotheses[c] > 0}]]
    /\ UNCHANGED <<tables, run, unit, aborts>>

\* The hypothesis of category c, unless its name was known at the start.
Hypothesised(p, c) == {c} \cap (Templates \ job[p].knownHypotheses)

\* The catalogue has rules for c that were unknown at the start: they are
\* inserted, and a key committed since then fails the whole transaction.
ProposeCatalogue(p, c) ==
    LET new == Catalogue[c] \ job[p].known
    IN  /\ Running(p, "propose-rules") /\ c \in job[p].due
        /\ new # {}
        /\ \A r \in new : Unlocked(p, r)
        /\ IF \E r \in new : ~HasStatus(r, {"absent"})
           THEN Fail(p)
           ELSE /\ job' = [job EXCEPT
                      ![p].due = @ \ {c},
                      ![p].known = @ \cup new,
                      ![p].created = @ \cup Hypothesised(p, c),
                      ![p].written = [r \in Rule |-> IF r \in new THEN "inserted" ELSE @[r]]]
                /\ UNCHANGED <<tables, run, unit>>
        /\ UNCHANGED aborts

Exhausted(p, c) ==
    /\ Running(p, "propose-rules") /\ c \in job[p].due
    /\ Catalogue[c] \subseteq job[p].known

\* The catalogue is exhausted, and the model fails, answers with a known id,
\* or answers outside the vocabulary.
DeclineDraft(p, c) ==
    /\ Exhausted(p, c)
    /\ job' = [job EXCEPT ![p].due = @ \ {c},
                          ![p].created = @ \cup Hypothesised(p, c)]
    /\ UNCHANGED <<tables, run, unit, aborts>>

\* The model's draft clears its gates.  The row is written as proposed by
\* 'deepseek' without the evidence, mechanism, confounders, expiry and
\* withdrawal criteria that agent_rules_require_governance_metadata demands,
\* so the INSERT raises.
StoreDraft(p, c) ==
    /\ Exhausted(p, c)
    /\ Drafts \ job[p].known # {}
    /\ Fail(p)
    /\ UNCHANGED aborts

Proposed(row) == [row EXCEPT !.status = "proposed"]

CommitPropose(p) ==
    /\ Running(p, "propose-rules") /\ job[p].due = {}
    /\ rules' = [r \in Rule |->
           IF job[p].written[r] # None THEN Proposed(rules[r]) ELSE rules[r]]
    /\ hypotheses' = [c \in Category |->
           IF c \in job[p].created THEN hypotheses[c] + 1 ELSE hypotheses[c]]
    /\ job' = [job EXCEPT ![p] = IdleJob]
    /\ Ended(p, "backtest-rules")
    /\ UNCHANGED <<firings, outcome, attributed, run, aborts>>

\* A research run stores its draft with the metadata, ON CONFLICT DO NOTHING.
AgentProposes(r) ==
    /\ r \in AgentDrafts
    /\ Free(r)
    /\ HasStatus(r, {"absent"})
    /\ rules' = [rules EXCEPT ![r] = Proposed(@)]
    /\ UNCHANGED <<hypotheses, firings, outcome, attributed, run, job, unit, aborts>>

-----------------------------------------------------------------------------
(***************************************************************************)
(* backtest-rules.                                                         *)
(***************************************************************************)
\* Mutation: a rule that was inconclusive once is not tried again.
AwaitingFirst == {r \in Rule : HasStatus(r, {"proposed"}) /\ rules[r].backtest = None}

Awaiting == {r \in Rule : HasStatus(r, {"proposed"})}

BeginBacktest(p) ==
    /\ MayStart(p, "backtest-rules")
    /\ job' = [job EXCEPT ![p] =
           [IdleJob EXCEPT !.command = "backtest-rules", !.record = Resolved,
                           !.todo = Awaiting]]
    /\ UNCHANGED <<tables, run, unit, aborts>>

\* One rule is replayed over the record loaded at the start, and written
\* only while it is still proposed.
RecordBacktest(p, r) ==
    /\ Running(p, "backtest-rules") /\ r \in job[p].todo
    /\ Unlocked(p, r)
    /\ \E verdict \in Judge(r, job[p].record) :
           job' = [job EXCEPT ![p].todo = @ \ {r},
                             ![p].written[r] = IF HasStatus(r, {"proposed"}) THEN verdict ELSE @]
    /\ UNCHANGED <<tables, run, unit, aborts>>

Backtested(row, verdict) ==
    [row EXCEPT !.backtest = verdict,
                !.status = CASE verdict = "helpful" -> "backtested"
                             [] verdict = "harmful" -> "rejected"
                             [] OTHER               -> "proposed"]

CommitBacktest(p) ==
    /\ Running(p, "backtest-rules") /\ job[p].todo = {}
    /\ rules' = [r \in Rule |->
           IF job[p].written[r] # None THEN Backtested(rules[r], job[p].written[r]) ELSE rules[r]]
    /\ job' = [job EXCEPT ![p] = IdleJob]
    /\ Ended(p, "review-rules")
    /\ UNCHANGED <<hypotheses, firings, outcome, attributed, run, aborts>>

-----------------------------------------------------------------------------
(***************************************************************************)
(* review-rules.  Between a rule's assessment and its UPDATE the job asks  *)
(* the model for an opinion that changes nothing but takes its time.       *)
(***************************************************************************)
BeginReview(p) ==
    /\ MayStart(p, "review-rules")
    /\ job' = [job EXCEPT ![p] =
           [IdleJob EXCEPT !.command = "review-rules",
                           !.todo = {r \in Rule : HasStatus(r, {"active"})}]]
    /\ UNCHANGED <<tables, run, unit, aborts>>

AssessFirings(p, r) ==
    /\ Running(p, "review-rules") /\ r \in job[p].todo
    /\ \A s \in Rule : job[p].judged[s] = None
    /\ \E verdict \in JudgeLive(r) :
           job' = [job EXCEPT ![p].todo = @ \ {r}, ![p].judged[r] = verdict]
    /\ UNCHANGED <<tables, run, unit, aborts>>

WriteReview(p, r) ==
    /\ Running(p, "review-rules") /\ job[p].judged[r] # None
    /\ Unlocked(p, r)
    /\ job' = [job EXCEPT
           ![p].written[r] = IF HasStatus(r, {"active"}) THEN job[p].judged[r] ELSE @,
           ![p].judged[r] = None]
    /\ UNCHANGED <<tables, run, unit, aborts>>

\* Mutation: the verdict is recorded and the status left to a human.
ReviewedOnly(row, verdict) == [row EXCEPT !.review = verdict]

Reviewed(row, verdict) ==
    [row EXCEPT !.review = verdict,
                !.status = IF verdict = "harmful" THEN "suspended" ELSE @]

CommitReview(p) ==
    /\ Running(p, "review-rules") /\ job[p].todo = {}
    /\ \A r \in Rule : job[p].judged[r] = None
    /\ rules' = [r \in Rule |->
           IF job[p].written[r] # None THEN Reviewed(rules[r], job[p].written[r]) ELSE rules[r]]
    /\ job' = [job EXCEPT ![p] = IdleJob]
    /\ Ended(p, "idle")
    /\ UNCHANGED <<hypotheses, firings, outcome, attributed, run, aborts>>

-----------------------------------------------------------------------------
(***************************************************************************)
(* A named human.  Both calls lock the row before they read it.            *)
(***************************************************************************)

\* Mutation: having a backtest on file is enough.
MayApproveUnread(r) == HasStatus(r, {"proposed", "backtested"}) /\ rules[r].backtest # None

MayApprove(r) == HasStatus(r, {"backtested"}) /\ rules[r].backtest = "helpful"

Activated(row, human) == [row EXCEPT !.status = "active", !.approvedBy = human]

ApproveRule(r, human) ==
    /\ Free(r)
    /\ MayApprove(r)
    /\ rules' = [rules EXCEPT ![r] = Activated(@, human)]
    /\ UNCHANGED <<hypotheses, firings, outcome, attributed, run, job, unit, aborts>>

RetireRule(r, human) ==
    /\ Free(r)
    /\ HasStatus(r, {"active"})
    /\ rules' = [rules EXCEPT ![r].status = "retired", ![r].retiredBy = human]
    /\ UNCHANGED <<hypotheses, firings, outcome, attributed, run, job, unit, aborts>>

-----------------------------------------------------------------------------
(***************************************************************************)
(* What feeds the rules: a forecast run reads them once and commits its    *)
(* board with every firing, settlement resolves episodes one game at a     *)
(* time, and the daily evaluation attributes every resolved episode.       *)
(***************************************************************************)
BeginForecast ==
    /\ ~run.active
    /\ run' = [active |-> TRUE,
               live   |-> {r \in Rule : HasStatus(r, {"active"})},
               shadow |-> {r \in Rule : HasStatus(r, {"proposed", "backtested"})}]
    /\ UNCHANGED <<tables, job, unit, aborts>>

EndForecast == run' = [active |-> FALSE, live |-> {}, shadow |-> {}]

\* Mutation: a shadow rule is applied like a live one.
FiredLive(r) == IF r \in run.live \cup run.shadow THEN "live" ELSE "none"

Fired(r) == IF r \in run.live THEN "live" ELSE IF r \in run.shadow THEN "shadow" ELSE "none"

CommitForecast(board) ==
    /\ run.active
    /\ \A e \in board : outcome[e] = "unforecast"
    /\ outcome' = [e \in Episode |-> IF e \in board THEN "pending" ELSE outcome[e]]
    /\ firings' = [r \in Rule |-> [e \in Episode |->
           IF e \in board \cap FiresOn[r] THEN Fired(r) ELSE firings[r][e]]]
    /\ EndForecast
    /\ UNCHANGED <<rules, hypotheses, attributed, job, unit, aborts>>

AbortForecast ==
    /\ run.active /\ aborts < MaxAborts
    /\ EndForecast
    /\ aborts' = aborts + 1
    /\ UNCHANGED <<tables, job, unit>>

SettleOutcome(e) ==
    /\ outcome[e] = "pending"
    /\ \E result \in {"hit", "miss", "void_or_push"} : outcome' = [outcome EXCEPT ![e] = result]
    /\ UNCHANGED <<rules, hypotheses, firings, attributed, run, job, unit, aborts>>

AttributeErrors ==
    /\ Resolved \ attributed # {}
    /\ attributed' = attributed \cup Resolved
    /\ UNCHANGED <<rules, hypotheses, firings, outcome, run, job, unit, aborts>>

-----------------------------------------------------------------------------
ProposeStep(p) ==
    \/ BeginPropose(p) \/ CommitPropose(p)
    \/ \E c \in Category : ProposeCatalogue(p, c) \/ DeclineDraft(p, c) \/ StoreDraft(p, c)

BacktestStep(p) ==
    \/ BeginBacktest(p) \/ CommitBacktest(p)
    \/ \E r \in Rule : RecordBacktest(p, r)

ReviewStep(p) ==
    \/ BeginReview(p) \/ CommitReview(p)
    \/ \E r \in Rule : AssessFirings(p, r) \/ WriteReview(p, r)

JobStep(p) == ProposeStep(p) \/ BacktestStep(p) \/ ReviewStep(p)

HumanStep == \E r \in Rule, human \in Human : ApproveRule(r, human) \/ RetireRule(r, human)

ForecastStep ==
    \/ BeginForecast \/ AbortForecast
    \/ \E board \in SUBSET Episode : CommitForecast(board)

OutcomeStep == AttributeErrors \/ \E e \in Episode : SettleOutcome(e)

Next ==
    \/ StartUnit
    \/ \E p \in Process : JobStep(p) \/ AbortJob(p)
    \/ \E r \in Rule : AgentProposes(r)
    \/ HumanStep \/ ForecastStep \/ OutcomeStep

Spec == Init /\ [][Next]_vars

\* The timer of the weekly unit is Persistent and its commands run one after
\* the other; a command somebody typed runs to its end as well.
FairSpec ==
    /\ Spec
    /\ WF_vars(StartUnit)
    /\ \A p \in Process : WF_vars(JobStep(p) /\ (p = Weekly \/ ~Running(p, "none")))

-----------------------------------------------------------------------------
(***************************************************************************)
(* Properties.                                                             *)
(***************************************************************************)

\* Every table, snapshot and job keeps its shape.
TypeOK ==
    /\ rules \in [Rule -> RuleRow]
    /\ hypotheses \in [Category -> Nat]
    /\ firings \in [Rule -> [Episode -> {"none", "shadow", "live"}]]
    /\ outcome \in [Episode -> {"unforecast", "pending", "hit", "miss", "void_or_push"}]
    /\ attributed \in SUBSET Episode
    /\ run \in [active : BOOLEAN, live : SUBSET Rule, shadow : SUBSET Rule]
    /\ job \in [Process -> Job]
    /\ unit \in Commands \cup {"idle"}
    /\ aborts \in 0 .. MaxAborts

\* The settled record holds enough independent markets that rule r matches.
RecordSuffices(r) ==
    Cardinality({m \in Market : \E e \in Replays[r] :
                    MarketOf[e] = m /\ outcome[e] \in {"hit", "miss"}}) >= MinimumFired

\* A rule that affects forecasts, or ever did, was signed for by a human, on
\* a helpful backtest, and the tables (not only the stored verdict) hold the
\* markets that verdict needs, whatever the approval raced with (migration
\* 022, active_rules_require_a_human and active_rules_require_a_backtest).
AuthorityIsEarned ==
    \A r \in Rule : HasStatus(r, {"active", "suspended", "retired"}) =>
        /\ rules[r].approvedBy \in Human
        /\ rules[r].backtest = "helpful"
        /\ RecordSuffices(r)

\* A forecast on record was changed only by rules a human had signed for,
\* and no run that is still going is about to do otherwise (rules.py and
\* record_firings: a shadow rule is measured and never applied).
ForecastsHeedSignedRules ==
    \A r \in Rule :
        (r \in run.live \/ \E e \in Episode : firings[r][e] = "live") => rules[r].approvedBy # None

\* The firings that resolved carry rule r over the live gate.
LiveRecordSuffices(r) ==
    LET fired == {e \in Episode : firings[r][e] = "live" /\ outcome[e] \in {"hit", "miss"}}
        n     == Cardinality({MarketOf[e] : e \in fired})
        g     == Cardinality({GameOf[MarketOf[e]] : e \in fired})
    IN  n > 0 /\ 10 * n * g >= MinimumLive * (7 * g + 3 * n)

\* A rule is suspended only on its own live firings over enough effective
\* markets: never on shadow firings, on voids, or on what it fired before
\* they resolved (review_active_rules, "Real firings only").
SuspensionIsMeasured ==
    \A r \in Rule : HasStatus(r, {"suspended"}) => LiveRecordSuffices(r)

\* What a rule may become.  Rejection, suspension and retirement are final,
\* and a decision taken while a job was working is not undone by that job.
May(from, to) ==
    \/ from = to
    \/ from = "absent" /\ to = "proposed"
    \/ from = "proposed" /\ to \in {"backtested", "rejected"}
    \/ from = "backtested" /\ to = "active"
    \/ from = "active" /\ to \in {"suspended", "retired"}

RulesOnlyAdvance == [][\A r \in Rule : May(rules[r].status, rules'[r].status)]_vars

\* The names on a rule and the verdict it was approved on outlive every job.
SignaturesStand ==
    [][\A r \in Rule : rules[r].approvedBy # None =>
           /\ rules'[r].approvedBy = rules[r].approvedBy
           /\ rules'[r].backtest = rules[r].backtest
           /\ rules[r].retiredBy # None => rules'[r].retiredBy = rules[r].retiredBy]_vars

\* A rule the record has a verdict on does not stay proposed: the weekly
\* backtest comes back to rules that were inconclusive before.
ProposedRuleIsJudged ==
    \A r \in Rule :
        []<>~(HasStatus(r, {"proposed"}) /\ "inconclusive" \notin Judge(r, Resolved))

\* A live rule whose firings keep measuring as harmful is withdrawn without
\* a human (rule_review.py).
HarmfulRuleIsWithdrawn ==
    \A r \in Rule : []<>~(HasStatus(r, {"active"}) /\ JudgeLive(r) = {"harmful"})

-----------------------------------------------------------------------------
(***************************************************************************)
(* The promise of RuleGovernance, read off the tables.                     *)
(***************************************************************************)
AuthorityAt(status) ==
    CASE status = "active"                     -> "live"
      [] status \in {"suspended", "retired"} -> "withdrawn"
      [] OTHER                                 -> "inert"

Governance ==
    INSTANCE RuleGovernance WITH
        authority  <- [r \in Rule |-> AuthorityAt(rules[r].status)],
        measured   <- {r \in Rule : RecordSuffices(r)},
        signer     <- [r \in Rule |-> rules[r].approvedBy],
        influenced <- {r \in Rule : \E e \in Episode : firings[r][e] = "live"}

\* The jobs, calls and runs of the rule lifecycle, interleaved at will,
\* implement RuleGovernance.
ImplementsGovernance == Governance!GovSpec
=============================================================================
