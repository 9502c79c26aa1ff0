# CourtSide-Edge: a TLA+ verification project

CourtSide-Edge forecasts WNBA player props. Archiving jobs record quotes and
statistics, a forecast run prices the board, settlement grades what was
forecast, and a learning loop proposes rules, experiments and research about
it, in which automation may only restrict and a named human must approve
whatever gains authority. There is no server process behind this: every
operation is a short one-shot process (a systemd timer, the command line or the
owner's console), and processes meet only in one PostgreSQL database at READ
COMMITTED, usually one transaction per process (`packages/wnba_store/.../db.py`
`connect`: commit at the end, roll back on any exception).

So the hard behaviours are those of transactions that read, work for seconds or
for minutes of model calls, and write: what they read is stale when they write,
two of them may overlap, one may die anywhere, and nothing but the `WHERE` of
an `UPDATE` or a unique index stands between them. The modules here are about
exactly that. What forecasts are worth (probabilities, log-loss, bootstraps) is
floating-point statistics and enters only as the outcomes it can have.

## What is here

| component | modules | proofs | runs |
| --- | --- | --- | --- |
| sample independence | `SampleShape` | `SampleShapeProofs` | through those that use it |
| champion/challenger experiments | `Experiments`, abstract `PromotionGovernance` | `ExperimentsProofs` | `experiments_*` |
| analyst rule lifecycle | `RuleLifecycle`, abstract `RuleGovernance` | `RuleLifecycleProofs` | `rules_*` |
| research desk | `ResearchDesk` | `ResearchDeskProofs` | `research_record` |
| settlement: statistics, outcomes, pick slips | `Settlement` | `SettlementProofs` | `settlement_record` |
| context jobs and the forecast run as transactions | `Board` | `BoardProofs` | `forecast_record` |
| what the forecast run does to one number, trust gates, entries and stakes | `Pricing`, `Entries` | `BoardProofs` | `forecast_record` |
| archive, identities, legacy quotes | `Ledger` | `LedgerProofs` | `ledger_record` |
| evaluation, drift guard, parameter fits | `Estimators`, `Learning` | `LearningProofs` | `learning_*` |
| conversation, hypotheses and proposals, liveness monitor, the owner's labels and overrides | `Provider`, `Dialogue`, `Hypotheses`, `Monitor`, `Feedback` | `ResearchDeskProofs`; of `Monitor` in `LedgerProofs` | `console_record` |

The `MC*` modules name the model values and the small functions the
configurations assign to constants. `MCConsole` and `MCForecast` also compose:
the console's services read and write no table of one another, nor do the jobs
of the board and the numbers of its quotes, so their behaviours follow one part
at a time (`part`), and their states are the sum of the parts' and not the
product. PROJECT.json lists components, runs, the map from definitions to source
lines, mutants, hazards, findings and theorems.

### SampleShape (`learning_loop/independence.py`)

Episodes belong to markets and markets to games. A gate counts markets, once
each, and compares `n / (1 + (n/g - 1) * 0.30)` with its minimum;
`EffectiveReaches` is that comparison with the denominators cleared
(`10*n*g >= minimum*(7*g + 3*n)`), so that it is exact in the integers. Every
gate of the learning loop uses it.

### Experiments (`learning_loop/experiments.py`, migrations 018 and 025)

| model | code |
| --- | --- |
| `experiments`, `stage` | rows of `wnba.experiments` and `wnba.model_versions` |
| `predictions` | `wnba.challenger_predictions`, by experiment and episode |
| `outcome` | `decision_episodes` joined to `episode_outcomes` |
| `run` | the forecast run in progress and the experiments it read at its start |
| `active, todo, measured, pending` | an `evaluate_experiments` process: selected rows, computed evaluations, rows updated and so locked |
| `OpenExperiment`, `AbandonExperiment`, `PromoteChallenger`, `RollbackPromotion` | the four console/CLI calls, each atomic (`FOR UPDATE` or one guarded statement) |
| `BeginForecast` ... `AbortForecast` | the forecast run's read, its commit with the challengers' answers, its death |
| `SettleOutcome` | settlement resolves or voids an episode |
| `BeginEvaluation`, `ScoreExperiment`, `WriteEvaluation`, `CommitEvaluation`, `AbortEvaluation` | the evaluation, a statement at a time |

`HumanStep` waits for a row lock (`Unlocked`), as PostgreSQL does. `SerialSpec`
is the same system when the owner decides only between evaluations; the code
does not enforce that, and the difference between `Spec` and `SerialSpec` is the
finding below.

`PromotionGovernance` is what the promotion docs promise without jobs and
tables: a challenger is approved once, by a human, while the evidence reaches
its gate; decisions are final except that an approval may be withdrawn.

### RuleLifecycle (`rule_proposals.py`, `rule_lifecycle.py`, `rule_backtest.py`, `rule_review.py`, `forecasting/rules.py`, `wnba_rules/engine.py`)

| model | code |
| --- | --- |
| `rules` | `wnba.analyst_rules`: status, stored verdicts, who approved and retired |
| `hypotheses` | how many rows each category's template has (the name is not unique) |
| `firings` | `wnba.rule_firings`, live or shadow |
| `outcome`, `attributed` | settled episodes and their error attributions |
| `run` | the forecast run with the live and shadow rules it loaded |
| `job` | a process running propose-rules, backtest-rules or review-rules, with its snapshot and its uncommitted writes, which lock rows |
| `unit` | where `wnba-rule-learning.service` has got to in its `ExecStart` lines: the first that fails ends it |

Each command is a begin (its reads), a step per row it writes, and a commit, or
a failure that rolls all of it back. `Judge` and `JudgeLive` return the set of
verdicts the arithmetic may reach: for a block rule the outcome counts decide,
for a shrink rule any verdict is possible once the sample suffices.
`RuleGovernance` is the promise: a rule gains authority once, by a signature and
after the record measured it; the system may take it away and never gives it;
recorded forecasts are influenced by signed rules only.

### ResearchDesk (`research_agents/workflow.py`, `pat_workflow.py`, part of `organization.py`)

| model | code |
| --- | --- |
| `market` | a projection's quote: fresh, older than two hours (the audit blocks it), or locked |
| `runs` | `research_runs` with the analyses, verdict and claims of its round; `overdue` is a `running` row older than `_stale_after` |
| `debates` | `agent_forecasts` by round and `decision_syntheses` of a run |
| `researched` | `research_plans` rows at `complete`; all other plans are written and never read |
| `job` | what the timer, the console or the command line is doing, with the rest of its queue and the clock it read once (`shut`) |
| `RefreshMemory`, `SelectTriggered` | the unit's two commands |
| `Triggered`, `Poor` | the forecasts `trigger_codes` marks, and those whose data quality is below 0.60; neither changes |
| `Selected` | of the five times `Limit` newest open forecasts, the first `Limit` that are triggered |
| `Unfit`, `Outcome` | what `audit_projection` refuses before a debate, and what `synthesize` makes of one |
| `HumanAsks` | `research run`, `research pat`, `POST /api/research/{id}/run` |
| `PlanAndAudit`, `ReadRuns`, `ClaimRun`, `PersistRound`, `MarkFailed`, `Debate`, `DebateCollides`, `DraftRaises` | the transactions of a call, `_prepare` split between its reads and its writes |
| `GrowStale`, `Lock`, `QuoteAges`, `Die` | time, and a process killed anywhere |

`synthesize` stores `block` for data of poor quality before it looks at round two.
`Outcome` has that branch, but the audit refuses the same quality first
(`auditor.py:51`, of the same column), so no debate reaches it: `DebatesAreWhole`
says so, and that `insufficient` is stored exactly when round two was empty.

An overdue run may be alive: `_stale_after` counts neither the waits between
attempts nor the second ask of a malformed answer. So a run that another caller
failed may complete itself later, and the model lets it.

### Settlement (`ingestion/espn.py`, `settlement.py`, `unsupported_settlement.py`, `pick_settlement.py`)

The path from a final score to a graded slip, over four processes that share
tables and nothing else.

| model | code |
| --- | --- |
| `feed` | what ESPN shows: a game's state, and the box-score row of each market |
| `games`, `lines`, `ingested` | `games.status`, `player_game_lines` with its superseded rows, `ingested_dates` |
| `episodes`, `outcomes` | `decision_episodes` in the order of `forecast_timestamp`, `episode_outcomes` |
| `legs`, `slips` | `pick_legs`, `pick_slips` |
| `job` | a process running void-unsupported, settle-outcomes or settle-picks: its page, its uncommitted rows, the row it waits for |
| `unit` | where `wnba-settlement.service` is in its `ExecStart` lines |
| `SnapshotOdds` | the five-minute `snapshot_game_odds`, which registers the day's games |
| `IngestDate` | `ingest_espn_date`, forced or not; a date that fails is rolled back and is no step |
| `GradeEpisode`, `SkipSettled`, `Collides` | the loop of a grading command: the row is free, or committed by somebody else (ON CONFLICT for one, a UniqueViolation for the other) |
| `SkipLeg`, `MatchLeg`, `GradeLeg`, `SumSlip`, `CloseSlip` | the statements of settle-picks; a read and the UPDATE after it are two steps because the UPDATE may wait for a lock |
| `DeadlockVictim` | PostgreSQL resolves two commands that wait for each other |
| `Commit`, `Die` | `connect` commits all of it, or none |

A market is one statistic of one player in one game; `PlayerProp` forgets the
game, which is all the window of `_matching_outcome` knows. A second episode of
a market has the same line here, and forecasts and picks precede the end of
their game. Ingestion is one step: two that overlap with different answers from
the feed are left out, and so is the scoreboard snapshot committed after a newer
one, which could take a final game back to live until the next.

### Board (`forecasting/baseline.py` as a transaction; `wnba_injuries.py`, `roles.py`, `teammate_effects.py`, `matchup.py`)

Five jobs over shared bitemporal tables. Each takes its timestamp when it
starts (the injury job once it has fetched the report), reads, writes and commits
later, and every row carries that time. A forecast is made again only when a context row newer than it is found,
so the board is right only as far as "newer" means "not yet seen".

| model | code |
| --- | --- |
| `rows` | the open rows (`system_to IS NULL`) of injuries, roles, teammate effects and matchups, by key |
| `quotes`, `forecasts` | `prop_quotes` by market, `stat_forecasts` with what each rests on |
| `Begin`, `Compute`, `Refresh` | a context job's timestamp (with the report, for injuries), its reads, and close-and-insert with the CHECK and the partial unique indexes that may refuse it |
| `FetchBoard`, `ScoreQuote`, `CommitRun` | the board query (`Due`), one turn of the loop, the commit |
| `ReportChanges`, `StatsArrive`, `Poll`, `Die` | the league, the box scores, the archiver, a process killed anywhere |

### Pricing and Entries (`forecasting/baseline.py`, `rules.py`, `minutes.py`, `selection.py`, `deescalation.py`, `wnba_rules/engine.py`; the console's trust gates, `market_engine`, `pickem.py`, `sizing.py`)

`Pricing` is what one turn of the forecast loop does to a number: the two
minutes regimes, shifted or scaled within `MAX_MINUTES` and with the deviation of
their mixture, the side, the rules in their order (`ApplyRules`, with the
condition language's AND and OR over facts that may be missing), the drift
guard, shrinkage, and the gate (`Decide`) with its refusals in their order.
`Entries` is what the console makes of the finished board: `ShowBoard` (the
trust gates), `PriceAndEnter` (`POST /api/price`) and `SuggestAndEnter`
(`POST /api/entries/suggest`) with the stakes. Probabilities are integers in
units of 1/1536, of which every shrink here is exact.

### Ledger (`archiver.py`, `http_client.py`, `repositories.py`, the ESPN jobs' enrolment, identity review, `historical_markets.py`)

Two sources enrol games, teams and players under ids of their own, and agree on
a game only as far as one finds the row of the other.

| model | code |
| --- | --- |
| `feed`, `slate` | Underdog's board; when each source says a game tips off |
| `teams`, `games`, `players`, `merged`, `lines` | the identity tables and box-score lines |
| `quotes`, `quarantine` | `prop_quotes` and what the parser refused |
| `legacy`, `mapping`, `history` | the staged legacy archive, event-to-game mappings, normalised quotes |
| `StartPoll`, `Answered`, `NotAnswered`, `PutAside`, `UnknownTeam`, `Resolve`, `Store`, `TeamTaken` | one poll: its time, the bounded retries, the refusals, its lookups, and its writes with their ON CONFLICTs |
| `EspnRead`, `EspnWrite`, `EspnRefused` | the odds snapshot or the ingestion of a date |
| `ApproveNames`, `ImportLegacy`, `NormalizeHistory` | the owner's and the timer's reviews |

### Estimators and Learning (`calibration.py`, `weights.py`, `shrinkage`, `learning_loop/evaluation.py`, `fitting.py`, `parameters.py`, `deescalation.py`)

`Estimators` holds the algorithms: pool-adjacent-violators, interpolation and
blending of a map, the cap on families of correlated components, shrinkage,
calibration error in buckets, the causes of a miss. `Learning` is the loop:
`Load`/`Record` (a forecast with the parameters and the guard of its moment),
`Play`, `ReadRecord`/`Evaluate` (attribution in pages, verdicts, incidents),
`BeginFit`, `ReadPoints`, `Store`, `Wait`, `CommitFit` (nightly, and one typed
beside it: they meet on the rows they supersede and on the unique index), and
`Kill`.

### Provider, Dialogue, Hypotheses, Monitor, Feedback (the console)

* `Provider` is the model provider as the code meets it: the set of ways an HTTP
  call with retries and a structured call with re-asks can end, and what the
  client remembers of the call before (`UsageAfter`), which advisory rows are
  priced with. `Hypotheses` uses it for its critiques and designs.
* `Dialogue` (`dialogue/service.py`): `send_message` is two transactions. `Send`
  to `CommitQuestion` store the question; `Answer`, `CallTool`, `NextRound` and
  `CommitReply` store the envelopes, their results and the reply; `Fail` rolls
  the open one back. `log` is `dialogue_messages` in the order of `created_at`.
* `Hypotheses` (`hypothesis_review.py`, `proposals.py`, `advisor.py`): `Claim`,
  then `BeginReview`, `Weigh`, `Judge`, `CommitReview` a hypothesis at a time
  with the row locks they take; `BeginPropose`, `LookFor`, `Design`,
  `CommitPropose` for the queue, and the owner's `ReviewProposal`.
* `Monitor` (`monitoring/liveness.py`): `Check` asks the queries over one game's
  pipeline, `Reconcile` resolves, refreshes and inserts, `CommitWatch` commits.
  The pipeline (`Produce`, `Outdate`, `Pass`) is external and promises nothing.
* `Feedback` (`api/main.py`, refresh-memory of `organization.py`):
  `SubmitFeedback`, `ViewResearch`, `DecideRecommendation`, `OverrideMinutes`
  with their statements a step at a time, and the ranking of evidence.

## Runs, bounds, and what they show

All bounds are constants of the modules or conjuncts that name them. Twelve runs
and forty properties are kept, one run for each question.

* `experiments_race` (pass): one experiment, two episodes on two markets of one
  game, gates 0 and 2, two evaluators of which one transaction may die. Two
  markets of one game are worth 1.54, so a gate of two tells the clustered
  count from the plain one. Two evaluators are the timer and a typed command.
* `experiments_serial` (pass): two experiments of one challenger, two
  evaluators, one episode; checks that a promotion can be rolled back and shows
  its evidence, and the refinement.
* `experiments_rollback_lost` (violation): see the finding.
* `rules_record` (pass): a catalogue rule a research run may also draft, a
  model draft, three episodes, the weekly unit; the whole life of a rule and
  the refinement. The gates are 1 instead of 12, 25 and 15, so that a rule's
  whole life fits; they are constants, and a gate of 1 does not tell markets
  from rows (`experiments_race` has the gate that does).
* `rules_weekly` (pass): the unit under fairness with one command that dies.
* `research_record` (pass, 522,666 states): three projections, of which one may
  age and the newest has data the audit refuses, the timer with room for all
  and a human who asks once, four run rows, one mishap anywhere. The refused one
  heads every tick's queue and can still be bought by a plain request. The
  rows suffice: every step that starts a run finds an unused one in every
  reachable state. One mishap and one ask reach a completed run flipped to
  failed, a failed run completed again, a collision of two debates, two live
  runs of one projection and two complete ones.
* `settlement_record` (pass): one date with two games, two players' markets and
  one nobody can score, forecast in that order, pages of one episode, a slip
  with a leg of the board and a leg typed by hand; one correction of the feed,
  one typed command beside the unit, one process killed. A page of one is full
  with the unscoreable episode, as 2000 would be; the correction comes before or
  after the grade; the typed command collides with the unit, waits for its
  locks and deadlocks with it.
* `forecast_record` (pass, 763,698 states), one part at a time. The jobs: a
  player with one market and a teammate, two processes, each any of the five
  jobs, three timestamps, two snapshots, two changes of the report. Three
  timestamps let a context job start before a forecast and commit after it, and
  another of its kind overtake both. The numbers: three quotes, two players of
  one team and one of another game. Two of them take one of three answers of the
  scorer; the third takes every answer on a grid of eleven overs, two pushes and
  two widths, each with eighteen states of the evidence in which one thing is
  missing or at its threshold, or the minutes are at an end of the court's 45. Four rules (one still proposed), each severity of
  incident, five states of the trust snapshot, Underdog's whole table, of which
  a board of three quotes can fill the tickets of two and three legs, and
  entries until the day's budget is full.
* `ledger_record` (pass, 384,992 states): one poller, two lines of which one
  belongs to a team nobody knows, three games, two moves of the board, one
  rescheduling past the ten-minute window, two attempts of a request, one event
  of two legacy quotes. `QuietImport` keeps the legacy import to a quiet board.
* `learning_record` (pass): four forecasts of three markets over two games, one
  market revised, one that may be voided, pages of one, samples of two and
  three instead of 50 to 200, two fits, one process killed. The component's
  answers are such that it is degraded until the second market lands, so that an
  incident opens and is resolved; the weights are a family linked only through
  its middle member.
* `learning_families` (violation): the same with an optimiser that finds two
  correlated families; see the findings.
* `console_record` (pass, 482,596 states): three calls of `send_message`, two at
  once, one tool round of at most two calls and a replay window of three; two
  weekly reviews or proposal runs over three errors of two causes, one of which
  dies; three requests of the owner about one piece of evidence, with two
  rankings; and the monitor asking one check that time alone makes fail and one
  that other jobs make fail and pass, with a typed run, a query that raises and
  a run that dies.

Deadlock is checked in the runs of experiments, rules, research, settlement and
learning, where a timer can always start again. It is not in the others: a
day's board, bounded polls and a conversation of three turns come to an end.

### Fairness

Only what the deployment gives: timers are `Persistent`, so a unit starts again;
a process that is not killed runs to its commit, since provider calls have
timeouts and bounded retries and the transactions wait for nobody for ever. The
weekly unit runs its commands in order, and there is no fairness that lets a
later command run when an earlier one keeps failing. Humans are never fair.
Mishaps are bounded by a constant, not excluded. In `ResearchDesk`, `GrowStale`
is fair because time passes; `Lock` and `QuoteAges` are not, so that liveness
must come from the desk and not from the market closing. In `Settlement` the
feed, the ingestion and the owner are not fair; the unit starts again every day
after the typed commands of the day have ended, and a released row goes to the
process that waits for it (PostgreSQL queues waiters), which is the strong
fairness of `GradeLeg`. In `Learning` the nightly evaluation starts again and
processes come to rest. The monitor's timer fires every fifteen minutes and its
runs end; of the pipeline it watches nothing is promised.

## Findings

The two runs with `expect: violation`; PROJECT.json quotes the lines.

* `experiments_rollback_lost`: an evaluation that selected an experiment before
  its promotion overwrites the status after it; the promotion can then be
  neither rolled back nor repeated.
* `learning_families`: the cap on correlated components compares every family
  with its prior once, then shares what it took among all components that were
  not capped, those of other families included. A second family that was at its
  prior ends above it, against the invariant the docstring of the cap states
  (`weights.py:229`). With all pairs in one family it holds, which is what
  `FitsHold` says.

## Met while modelling

Disagreements that keep no run of their own. The first group are properties the
modules state and TLC refutes when they are put in a configuration.

* A model-written rule draft violates `agent_rules_require_governance_metadata`
  and takes the whole weekly unit with it, every week (`rule_proposals.py:475`,
  against `rule_proposals.py:430`): `ProposedRuleIsJudged` with model drafts.
* Projections whose quote is too old to be audited stay at the head of the
  half-hourly selection; with room for one, those behind them are not
  researched until they lock (`pat_workflow.py:445`, against
  `docs/ROADMAP.md:128-129`): `TriggeredIsResearched` with a limit of one. The
  same holds of projections the audit refuses for their data, and enough newer
  forecasts that are not triggered fill the window of five times the limit.
* The odds snapshot makes a game final before any box score is stored; a
  settlement in between voids every scoreable episode of it, for good
  (`espn.py:127`): `VoidsAreAbsences`. The daily units avoid it by running the
  ingestion first, unless that failed or a human settles that night.
* A leg of tonight's board, taken before the morning's settlement, is graded on
  last night's game of the same player (`pick_settlement.py:141`):
  `BoardLegKeepsItsGame`.
* A second forecast run of an evening prices the snapshot the first one passed
  over, since the newest that is *due* is an older one (`baseline.py:241`):
  `ForecastsAreOfTheCurrentBoard` of `Board`.
* With push mass the side is chosen from the calibrated sides but handed on as
  a probability and its complement (`baseline.py:490`), so a forecast that
  favours its side by less than 1/2 is flipped and given more than the
  distribution gives it: `NeverMoreConfident` of `Pricing`.
* A market's own row is preferred to the pool's however thin its sample, since
  an identity that was not fitted is stored and found too (`parameters.py:62`,
  against `parameters.py:36` and `fitting.py:15`): `ThinMarketsUseThePool` of
  `Learning`.
* Two sources that disagree by more than ten minutes leave two rows of one game
  (`espn.py:108-109`): `NoGameIsSplit` of `Ledger`.
* Entries the suggester advises are sized without the headroom of what is
  already staked: `AdviceStaysWithinThePolicy` of `Entries`.

Experiments, rules, research and settlement: promotions deprecate only the
baseline they name, so two experiments may leave two
champions (`experiments.py:790`, against `MODEL_CARD.md:140`); the first
evaluation takes an experiment out of `running`, the one status whose
experiments are still shadow-scored (`experiments.py:313`, against
`OPERATIONS.md:58`); no call reactivates a suspended rule
(`rule_lifecycle.py:99`, against `cli/main.py:465`); two overlapping
propose-rules runs may insert one template's hypothesis twice
(`rule_proposals.py:301`; the name has no unique index); two overlapping
settle-picks commands, between whose reads a third command settles a leg's
outcome, can leave a slip with stale counts, or all its legs graded and the slip
open, because each counts the legs it sees (`SlipsCloseWhole` is proved for
commands that do not overlap; the run has two processes in all); a forecast run in flight fires a rule
that has been suspended meanwhile, against "the next forecast run" of
`rule_review.py:16`; a procedural rule (`flag_for_review`, `require_evidence`)
is never measurable and so never approvable, and `require_evidence` blocks
nothing; research may begin after the market locked, because a tick reads its
clock once (`workflow.py:211` says it cannot); two callers may pay for one
projection, against the comment at `workflow.py:228` (`ResearchIsNotRepaid`
states what does hold: once per caller); a complete plan may point at a run
marked failed.

Board, prices, ledger and learning: nothing closes the effect of a teammate who
is back (`teammate_effects.py:243`); scaled minutes keep less than they were asked for
where a regime already plays all of `MAX_MINUTES` (`minutes.py:169-171`, which
`ProjectedMinutesAreKept` states); `/api/price` says "recommend" whenever the
stake is positive; a line of an unknown team loses the poll of the whole board,
every time (`repositories.py:86-87`); a franchise Underdog enrolled first makes
every ESPN job of its dates fail; the timestamp of a snapshot precedes the
fetch, so overlapping polls may archive out of order; a rescheduled game keeps
the lock it was first given; of two lines of one player and statistic in one
poll the second is dropped; holdouts are not later than the training rows (the
fit's query orders by player); `_cap_redundant_groups` may hand one family's
excess to another past its prior; line bias is refitted on means it has
corrected already; incidents are judged on guarded probabilities; two
overlapping evaluations may leave two open incidents or none.

The console: the 40-message window may begin with tool results whose envelope
is cut off; a second message sent while the first is being answered lands
between an envelope and its results, and every later replay is malformed
(against `service.py:455-456`); two first messages race on the dialogue's unique
key and one fails; migration `027:16-17` says a tally is counted from
`hypothesis_episodes`, but the review counts attributions, and motivating
episodes are linked as supporting too (`rule_proposals.py:331`), so the count
and the links differ; overlapping reviews may overwrite `refuted`, as the update
names no status; two overlapping `learning propose` runs write one proposal
twice; a failed advisory is charged with the usage of the call before it
(`deepseek.py:561`, `advisor.py:292`), and a job that rolls back loses its failed
advisories (against `advisor.py:12`); `MARKET_ARCHIVE_STALE` never fires on an
empty archive; any forecast ever made satisfies
`QUOTED_GAME_WITHOUT_FORECASTS`; two overlapping monitor runs may open two
incidents of a code. A second label that names the same evidence as "useful"
fails whole with an error (`api/main.py:1499`, no ON CONFLICT against the index
of `026:115`), and so does one that lists an item twice; overlapping views race
on the same index; two overlapping minutes overrides leave two live rows, and
the one that began first may supersede the later.

## What is proved

All proofs are checked by TLAPS for every value of the constants that satisfies
the modules' named assumptions (`SampleAssumption`, `ExperimentsAssumption`,
`RulesAssumption`, `DeskAssumption`, `SettlementAssumption`, `BoardAssumption`,
`PricingAssumption`, `EntriesAssumption`, `LedgerAssumption`, `NullAssumption`,
`EstimatorsAssumption`, `LearningAssumption`, `PayoutAssumption`,
`DialogueAssumption`, `HypothesesAssumption`, `FeedbackAssumption`,
`MonitorAssumption`). They exclude nothing the code can meet: finite tables,
people, games, quotes and rules, natural-number gates and limits, model values
that differ, rules with ids of their own, rows from before enrolment (`OldRows`)
that name no game. Two say something of the numbers. `EstimatorsAssumption`: a
Platt curve, an input here, is order preserving and stays within a percentage,
as a logistic curve does whose slope is clamped to at least 0.05
(`calibration.py:218`).
`PayoutAssumption`: one more correct leg never pays less, and legs that have just
what the gate asks, rounded down to the grid tickets are priced on, break even
under each rule. TLC evaluates it for Underdog's whole table, whose two-leg power
play sets the gate (`selection.py:126`): break-even and margin are 886 and 30 of
1536 there, the code's 886.8 and 30.7 rounded down, and the grid is twelfths, on
which the code's gate of 0.597 and the model's are both seven. PrizePicks' table
is not evaluated: seven twelfths fall short of three legs of it, and a finer grid
leaves TLC's integers. Two theorems have a hypothesis about who runs:
`ArchiveIsOrdered` that one process polls at a time, which the archiver's unit
ensures, and `SlipsCountTheirLegs` that no two settle-picks overlap, which only
the timer ensures; what goes wrong otherwise is under "Met while modelling".
`RuleOrderDoesNotMatter` has one about the model's unit, `UnitIsFine`: the
numbers a scorer answers can be shrunk by every approved shrink without a
remainder. The code computes in floats; for a unit that is too coarse two orders
may differ by the rounding. In the instance 1/1536 is fine enough.

* **SampleShapeProofs**. A sample that clears the gate still clears it after
  more episodes settle, however they cluster. This is an inequality over two
  integers that both grow; it is why a verdict's evidence never goes stale in
  the direction that matters.
* **ExperimentsProofs**. `TypeOK`, `PromotionIsBackedByData`,
  `EvidenceIsNeverOverstated` and `PromotionIsHistory` for `Spec`, with any
  number of evaluators racing any number of approvals. The invariant adds to
  the properties that rows not opened are blank and that every evaluation, in
  the table or in a process, claims no more than the tables hold; promotion
  reads a stored evaluation, so the claim has to be followed from the moment it
  is computed. For `SerialSpec`: `PromotionCanBeRolledBack`,
  `PromotionShowsItsEvidence` (no evaluation writes to a row that is not open),
  `ChampionsStandOnAPromotion` for any number of challengers with any number of
  experiments, `ClosedStaysClosed`, and every step implements
  `PromotionGovernance`. For `Spec`, `AnswersArriveWithTheirEpisode`: an episode
  that is not forecast has no answer, and the run that forecasts it writes all.
* **RuleLifecycleProofs**. `TypeOK`, `AuthorityIsEarned`,
  `ForecastsHeedSignedRules`, `SuspensionIsMeasured`, `RulesOnlyAdvance`,
  `SignaturesStand`, and the refinement of `RuleGovernance`. The invariant says
  that at most one transaction holds a row (`LockInv`), that an uncommitted
  write is one its command makes to a row still as required and supported by
  the tables (`WritesInv`, `JudgedInv`), and that a status implies its
  signatures and evidence (`LedgerInv`). Outcomes never regress
  (`StepKeepsOutcomes`), which is what lets a verdict computed from a snapshot
  still hold when it is written.
* **SettlementProofs**. `TypeOK`, `LedgerIsComplete`, `OutcomesStand` and
  `LegsCiteOutcomes`, for any slate and any number of commands. The ledger needs
  that its games are final at the feed too (`LedgerInv`): a game that ended
  later would bring rows the ledger does not wait for. A grade is final because
  whoever inserts one has the key alone and the episode is not settled
  (`KeysInv`), which must be known of uncommitted rows. What a leg cites is
  followed through the transactions that are about to write it (`CitesInv`);
  outcomes do not change under it because of the above. `SlipsNeverCloseEarly`
  holds for any number of processes: a tally that says a slip is whole stays
  true whatever others commit before it is written (`WholeInv`), since nothing
  takes a grade back. `SlipsCountTheirLegs` is `SlipsCloseWhole` in full while
  one settle-picks runs at a time: a process that has counted a slip has graded
  all the legs it will, so its count is that of the rows it leaves (`TallyInv`).
* **BoardProofs**, of `Board`: `TypeOK`, `ContextNeverRunsBack` and
  `StaleForecastsAreDue`, for any number of players, markets and processes. A
  refresh closes only rows older than its own start (the CHECK), so what is
  newest of a key moves forward or stays (`RefreshForward`). Staleness needs the
  order of starts: besides what it says of stored forecasts (`Heeded`), the
  invariant says of every forecast, stored or still in its run, that no context
  job at work began before it unless it is crowded (`Guarded`). A job that
  begins is younger than all there is; a run that begins while one is at work is
  crowded; so whatever a job commits is newer than every forecast that is not
  crowded (`RefreshOrdered`).
  Of `Pricing` and `Entries`, for every board, rule set, history and policy:
  `RestrictionsOnlyRestrict`, `RuleOrderIsImmaterial`, `ProjectedMinutesAreKept`,
  `PricedEntriesStayWithinThePolicy`. `TurnInv` carries, from stage to stage of a
  turn, that the number stays between a half and the calibrated number it began
  with. The rules are applied by a recursion over a sorted order; that such an
  order exists, and that the recursion is defined all along it, is shown by the
  least place where it would fail. That the order does not matter is followed
  along the number of rules: two neighbours commute (`FiresCommute`) while the
  number can still be shrunk by those to come (`PathIsExact`), so any rule of an
  order may as well be the last (`MovedLast`), and two orders that end alike
  differ in shorter ones (`OneMoreAgrees`). The two minutes regimes meet the projection
  by an identity in three cases (nothing to spare, clamped, free). A stake is at
  most the headroom left by what is already on its game and its day
  (`BooksInv`, `PolicyInv`).
  `QualifiedLegsBreakEven` holds for tickets of every size. What a ticket is
  worth is a fold over its legs of the distribution of how many are correct,
  against the payouts; the fold is turned around, so that every leg averages
  what one more correct leg and one fewer count pay, from the payouts down to
  one number (`Worth`). Averaging keeps payouts that grow with the count
  growing, so a leg of a higher chance is worth no less; leg by leg the ticket
  is compared with the one whose legs have just what the gate asks, which
  breaks even by the assumption on the table.
* **LedgerProofs**, of `Ledger`: `TypeOK`, `QuotesStand`, `MappedGamesAreUnambiguous` and,
  for one poller, `ArchiveFollowsTheBoard`. `TypeOK` needs what a poll has in
  hand between its lookups and its writes (`PollOK`): every game, team and player
  it is about to cite is a row. A quote stands because enrichment fills only
  what is null (`Enriches`). A mapped game leads its rivals strictly, and a
  leader over a finite set is the only one (`ChosenLeads`). That the newest
  snapshot is the newest state needs the poll's clock to be later than what is
  archived from the moment it reads to the moment it writes (`OrderInv`).
  Of `Monitor`, `IncidentsDoNotPileUp` with `MonitorTypeOK`: what counts is the
  open rows of a code together with those about to be added (`WatchInv`), since
  a run that found none may commit after another has added one.
* **LearningProofs**. `ParametersMoveForward`, `VerdictIsGuarded`,
  `ForecastsStayExplicable`, and that no step takes a parameter or an incident
  off the record. A key's history is closed but for its last row and runs
  forward (`RowsInv`); one fit at most has uncommitted rows, and it is no older
  than the rows it supersedes (`LockInv`), while a fit that waited for another
  that committed never stores its own. A series has one open incident at most,
  and whether it has is what its newest verdict says (`GuardInv`); what a forecast was made with is, from the moment it is loaded
  and not only when stored, a row of the table (`ExplainedInv`).
  `FitsHold`, for every record, is about what the fits compute. The cap: a
  family above its prior is scaled down to it by divisions that each lose less
  than a hundredth, what it loses is shared by the others, and components that
  hang together are one family because the classes of the closure partition
  them. The isotonic map: a new point is merged into the blocks before it while
  they stand higher; what is left are the points in order, in blocks that never
  fall, the head of each worth no more than the block and its tail no less
  (averages of a union lie between those of its parts). Hence a block stands at
  the level the max-min formula gives its points, which is how `Level` defines
  the regression, and a map read between such blocks never falls. The
  merging and the reading are folds, followed along the number of points or to
  the least place where they would fail. A fit keeps its promise afterwards
  because box scores do not change and its episodes are over.
* **ResearchDeskProofs**, of `ResearchDesk`: `TypeOK`, `ResearchIsNotRepaid`,
  `VerdictsAreReviewed`, `DebatesAreWhole` and `SynthesesStand`. The invariant
  adds what a caller has in hand (`HandsInv`: a run it completes or debates is
  a row of its projection, and one it debates has been analysed) and that rows
  not in use are blank (`RowsInv`). `Audited` follows the refused projections
  from the clock of a call to its debates: those still in the queue are on its
  list, and the one in hand was let through. The bound counts complete runs and callers
  that may still add one together: a caller joins only when it saw no complete
  run, at which moment the callers alone are counted (`BuyerJoins`); one that
  completes its run leaves as the run joins (`BuyerCompletes`).
  Of `Feedback`, `OwnerIsHeard`, for any number of requests, exhibits and
  rankings: keys a request has inserted are nobody else's until it ends, and the
  live overrides it saw stay those it will supersede (`OwnerInv`); a ranking
  counts each judgment once because a memory holds one row of a kind, and the
  fold that sums it is followed to the smallest place where it would differ.
  Of `Hypotheses`, `BeliefsAreOnRecord`: a judgement is followed from the
  evidence a review read, through its uncommitted work, to its commit, and an
  advisory from the attempt that earned it (`BeliefsInv`). The theorem covers
  reviews and proposals interleaved in any number; the run follows two.
  Of `Dialogue`, `ReplaysAreConversations`: the rows a turn has in the log are
  told by where its call is (`DialogueInv`: while an envelope is open all of its
  calls are answered but those still to do), and what a call read is a table the
  log still holds in order. An increasing function of places carries a table
  through appends, commits and rollbacks alike, and whole turns in one piece are
  a conversation. `Pick` takes the committed rows by counting places instead of
  by `SelectSeq`, whose recursion the provers cannot follow; TLC has compared the
  two on every reachable state of the instance. `DialogueTypeOK` is proved with
  `ThreadInv`: a call that is about to write has a dialogue row, committed or
  its own, so the loser of the race on the unique key never appends to a row
  that was rolled back.

The lemmas on sums over finite sets stand in both `BoardProofs` and
`LearningProofs`, in the form each needs. Where the provers could not read a
definition it is written in another way that means the same: `With` and
`Extended` for function overriding (`Learning`), folds over a set of places for
sequence recursion (`Estimators`, `Dialogue`).

Model-checked only: liveness (`RunningExperimentIsSettled`,
`ProposedRuleIsJudged`, `HarmfulRuleIsWithdrawn`, `TriggeredIsResearched`,
`FinalIsSettled`, `BoardLegIsGraded`, `EpisodesAreAttributed`,
`IncidentsComeTrue`), since reasoning from fairness and ENABLED is out of this
prover's reach. Every safety property and action property a passing run checks
is also a theorem. Five theorems are of properties no run keeps
(`ClosedStaysClosed`, `AnswersArriveWithTheirEpisode`,
`ChampionsStandOnAPromotion`, `DialogueTypeOK` and `IncidentsDoNotPileUp` with
`MonitorTypeOK`); TLC finds them to hold on the instances of `experiments_*` and
`console_record`.

## Inventory

What the repository is made of, whether or not it is modelled. "Hard" names
the behaviours tests hardly reach; the hazards in PROJECT.json give the lines.

| component | state it keeps | operations | talks to | hard | what makes it correct |
| --- | --- | --- | --- | --- | --- |
| Experiments (`learning_loop/experiments.py`) | `experiments`, `model_versions.stage`, `challenger_predictions` | open, abandon, evaluate, promote, roll back | forecast run (shadow answers), settlement (outcomes), owner | evaluation reads long before it writes; overlapping evaluations; promotions of several rows | no promotion without a clustered sample; decisions final; one champion; open experiments keep collecting |
| Analyst rules (`rule_*.py`, `forecasting/rules.py`, `wnba_rules`) | `analyst_rules`, `hypotheses`, `rule_firings` | propose, backtest, review, approve, retire, fire | forecast run, settlement, evaluation, research desk, owner | three read-then-write jobs in one unit; a failing insert in a loop; rules loaded minutes before use | authority is earned and signed; the system only takes it away; every measurable rule is judged |
| Research desk (`research_agents/`) | `research_runs`, analyses, claims, verdicts, plans, agent forecasts, syntheses | claim, run agents, persist, debate, propose a rule, refresh memory | provider, forecast table, rules, owner | claim is a check then an insert; stale runs; two debates of one run; a tick with one clock; starvation | paid once; debates whole and immutable; every triggered projection is researched; claims end with their market |
| Forecast run (`forecasting/baseline.py`) | `model_runs`, `feature_snapshots`, `stat_forecasts`, `decision_episodes` | score a board, skip, apply rules, decide, shadow-score | quotes, rules, drift incidents, challengers | one long transaction over a moving board; two runs of one board; a side that flips with the push mass | no quote forecast twice; a blocked or de-escalated forecast is never selected; the decision is consistent with the forecast |
| Settlement (`settlement.py`, `unsupported_settlement.py`) | `episode_outcomes` | settle a batch of 2000, void unsupported | statistics, quotes (closing line) | a batch limit before the filter; statistics corrected later; played/DNP | each episode graded once, by its own market's statistic; nothing waits for ever |
| Evaluation and drift (`evaluation.py`, `deescalation.py`) | `error_attributions`, `model_evaluations`, `incidents` | attribute, evaluate, open and resolve an incident | settlement, forecast run | incident severity against later evaluations; the guard reads the newest | a drifting model shrinks its board, and only a healthy evaluation lifts it |
| Pick slips (`pick_settlement.py`, `entries.py`) | `pick_slips`, `pick_legs` | place, grade legs, close a slip | settlement, owner | legs settle on different days, voids reduce a slip | a slip closes once, after its last leg, with the payout of its live legs |
| Parameter, trust, correlation fitting | `fitted_parameters`, `source_trust`, `leg_correlations` | supersede and insert | settlement, forecast run | two fits at once; a fit that finds too little | exactly one live set per key, never none |
| Proposals and hypothesis review | `research_proposals`, `hypotheses` | propose per category, review | evaluation | check-then-insert; verdict on errors before the hypothesis | a hypothesis is judged only on later errors, once |
| Provider client and advisor | none | request, retry, repair, fall back | provider | timeouts, malformed answers | bounded attempts; a fallback is never a failure |
| Dialogue (`dialogue/service.py`) | threads, messages | send, tool rounds | provider, web search | owner's message committed before the answer; last 40 messages | messages in order, none lost, no answer twice |
| Quotes (`archiver.py`, `repositories.py`) | `raw_payloads`, `prop_quotes`, contexts | archive, record, enrich | HTTP sources, games | repeats; enrichment updates an "append-only" row; a game found twice | a quote is stored once; enrichment never moves a quote |
| Statistics and injuries (`espn.py`, `wnba_injuries.py`) | `games`, player lines, `ingested_dates`, injuries | ingest a date, close and insert a correction | HTTP sources | a date re-read while not final; a crash between dates; reports that drop a player | one current row per key; history never rewritten; every final game read again after it ended |
| Roles, effects, matchups | current rows per key | recompute | statistics | close-and-insert by two runs | one current row |
| Owner feedback (`api/main.py`) | labels, `evidence_interactions`, `minutes_overrides`, rankings | label, judge, decide, override, rank | board, research desk | requests sent twice or at once; a unique index that refuses a whole label | labels whole, the override that is meant, each judgment counted once |
| Legacy and historical imports | staging tables | import with checksums | files | re-import | idempotent |
| Readiness | none | report | all tables | none | n/a |
| Market mathematics, scoring, calibration, selection, simulation | none | pure functions | forecast run | boundaries and rounding | agree with their definitions |
| Liveness monitor | `dq_incidents` | eight checks, open, refresh, resolve | all tables | a check that errors; codes that come and go | one open incident per failing code |
| Migrations (`db.migrate`) | `schema_migrations` | apply pending | files | file and ledger are two transactions | each file once, in order |
| Domain types, ontology, contracts | none | validate | all | none | n/a |
| API and CLI (`apps/`) | none | call the above | owner | the same call twice | n/a |
| Video contracts | none | scaffold | nobody | none | n/a |

## Plan

Done: the components with a module above, their compositions, the abstract
specifications `PromotionGovernance` and `RuleGovernance`, and a theorem for
every safety property and action property the runs check. The theorems are in
eight modules; the smaller components' theorems share one with a neighbour.
What could come next:

1. The walk-forward backtest and the challengers' predictions, which are pure
   functions of a record and would extend `Estimators`.
2. Correlation and trust fitting beside `Learning`: they supersede rows as the
   modelled fits do and add statistics of their own.
3. The half of `IncidentsComeTrue` that is safety: an open incident was failing
   when it was last looked at, which needs a history of what each run saw.

## Not modelled

Left out of a modelled component:

* `ResearchDesk`: a quote an hour old triggers research by itself, and forecasts
  expire; both sets are fixed here.
* `Board`: the context of a quote is read at one instant of the loop; players
  have a history; the evening starts with every market quoted once; regressions
  and matchup arithmetic are the values they depend on.
* `Pricing`, `Entries`: the deviation of the minutes takes the means to a tenth of a
  minute and whole deviations within the regimes; the scorer's answer, the 95% allowance, Kelly's fraction
  and the simulator's expected values are inputs; tickets of two and three legs;
  trust snapshots are inputs, and fitting them (`trust_fitting.py`) is
  statistics over appended rows.
* `Ledger`: a game is known by what it really is, one ESPN game to a date, one
  poller (the timer), `ambiguous` and `unresolved` mappings merged;
  `game_aliases` is written and never read.
* `Estimators`, `Learning`: the gain of each fold and the optimiser's vector are
  inputs, Platt curves are order preserving and none is in the instance; one
  evaluator; a fit's two reads are one instant; no rules between calibration and
  guard; no run spans a game; one model version. Line bias and correlation fits
  are left out: they supersede rows exactly as the modelled fits do.
* `Dialogue`, `Hypotheses`, `Monitor`, `Feedback`: prompts, wording, latency and
  attempt counts; one conversation, one game and athlete, one forecast with its
  owner; the claims of propose-rules are one step here, and the rules beside
  them are in `RuleLifecycle`; of refresh-memory the agents' credibility, the
  source scores and the expiry of claims are left out (the expiry is in
  `ResearchDesk`). Two of the monitor's eight codes are asked in the instance.
* `Settlement`: two overlapping ingestions that the feed answers differently.

Components with no module: challenger models, boosting, the walk-forward
backtest, game simulation, consensus and odds formulas (floating-point numerics
without state); readiness gates (a report); domain types and the ontology
(immutable values); migrations (`db.migrate`: file and ledger are two
transactions, run by hand); the read-only pages of the console, the command
line's parsing and the video scaffold, which has no caller.
