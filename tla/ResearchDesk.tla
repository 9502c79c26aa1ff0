----------------------------- MODULE ResearchDesk -----------------------------
(***************************************************************************)
(* The research desk: research_agents/workflow.py, which buys one round of *)
(* analyses for a projection, and research_agents/pat_workflow.py, which   *)
(* debates it in two more rounds. The half-hourly timer works through the  *)
(* projections nobody has researched; humans ask for one from the console  *)
(* or the command line at any moment. Every caller is a process of its own *)
(* and they meet only in the tables.                                       *)
(*                                                                         *)
(* A projection stands for a forecast that has not expired: whether it is  *)
(* triggered, and the quality of its data, never change here. Planned      *)
(* plans, blocked plans and blocked runs are written by the code and read  *)
(* by none of it, so they are left out. What an analysis says is left out  *)
(* too: a round is the set of seats that answered. The rule a debate may   *)
(* propose is RuleLifecycle's.                                             *)
(***************************************************************************)
EXTENDS Naturals, FiniteSets

CONSTANTS
    Projection, \* forecasts
    Generated,  \* ... and when each was generated
    Triggered,  \* ... which trigger_codes gives a reason to research
    Poor,       \* ... whose data_quality_score is below 0.60
    Ageing,     \* ... whose quote may grow older than two hours
    Run,        \* bound: research_runs rows the runs may write
    Analyst,    \* the stage-one seats, which also forecast
    Skeptic,    \* the reviewing seat
    Timer,      \* wnba-pat-research.service
    Human,      \* console and command line
    Limit,      \* projections one tick takes
    MaxMishaps, \* bound: lost answers, provider failures and crashes
    MaxAsks,    \* bound: calls the humans make
    NoRun, NoProjection

ASSUME DeskAssumption ==
    /\ Generated \in [Projection -> Nat]
    /\ Triggered \subseteq Projection /\ Poor \subseteq Projection
    /\ Ageing \subseteq Projection
    /\ IsFiniteSet(Run) /\ IsFiniteSet(Human)
    /\ Timer \notin Human /\ Skeptic \notin Analyst /\ Analyst # {}
    /\ Limit \in Nat \ {0} /\ MaxMishaps \in Nat /\ MaxAsks \in Nat
    /\ NoRun \notin Run /\ NoProjection \notin Projection

Caller == Human \union {Timer}

VARIABLES
    market,     \* open, aged (the audit refuses the quote) or locked
    runs,       \* research_runs with its agent_analyses, verdict and claims
    debates,    \* per run: agent_forecasts by round, and decision_syntheses
    researched, \* the research_plans rows at 'complete': projection and run
    job,        \* what each caller is doing
    mishaps,
    asks

vars == <<market, runs, debates, researched, job, mishaps, asks>>

-----------------------------------------------------------------------------
(***************************************************************************)
(* Rows.                                                                   *)
(***************************************************************************)
\* 'overdue' is a row at 'running' that started longer ago than _stale_after.
RunRow == [status : {"unused", "running", "overdue", "complete", "failed"},
           projection : Projection \union {NoProjection},
           heard : SUBSET (Analyst \union {Skeptic}),
           verdict : BOOLEAN,
           claims : {"none", "proposed", "expired"}]
NoRow == [status |-> "unused", projection |-> NoProjection,
          heard |-> {}, verdict |-> FALSE, claims |-> "none"]
Started(p) == [NoRow EXCEPT !.status = "running", !.projection = p]

\* 'advised' is 'support' or 'caution': nothing reads which.
Dispositions == {"advised", "insufficient", "block"}
DebateRow == [round1 : SUBSET Analyst, round2 : SUBSET Analyst,
              synthesis : {"none"} \union Dispositions]
NoDebate == [round1 |-> {}, round2 |-> {}, synthesis |-> "none"]

Steps == {"idle", "select", "plan", "claim", "insert", "agents", "debate"}
Job == [at : Steps,
        hand : Projection \union {NoProjection},
        rest : SUBSET Projection,     \* a tick's projections after the one in hand
        pat : BOOLEAN,                \* run_pat_research, not run_projection_research
        shut : SUBSET Projection,     \* of these, what it refuses by its clock
        run : Run \union {NoRun}]     \* found in flight, then its own, then the base
Idle == [at |-> "idle", hand |-> NoProjection, rest |-> {}, pat |-> FALSE,
         shut |-> {}, run |-> NoRun]

RunsOf(p, statuses) == {r \in Run : runs[r].projection = p /\ runs[r].status \in statuses}
Complete(p) == RunsOf(p, {"complete"})
InFlight(p) == RunsOf(p, {"running", "overdue"})
\* uuid4: which of the unused ids a row gets makes no difference.
Fresh == LET unused == {r \in Run : runs[r].status = "unused"}
         IN  IF unused = {} THEN {} ELSE {CHOOSE r \in unused : TRUE}
Locked == {p \in Projection : market[p] = "locked"}
\* What audit_projection blocks: a locked market, a quote over two hours old,
\* data of poor quality.
Unfit == {p \in Projection : market[p] # "open" \/ p \in Poor}
PlanDone(p) == \E plan \in researched : plan[1] = p

Init == /\ market = [p \in Projection |-> "open"]
        /\ runs = [r \in Run |-> NoRow]
        /\ debates = [r \in Run |-> NoDebate]
        /\ researched = {}
        /\ job = [c \in Caller |-> Idle]
        /\ mishaps = 0
        /\ asks = 0

-----------------------------------------------------------------------------
(***************************************************************************)
(* How a call goes on and ends.                                            *)
(***************************************************************************)
GoesTo(c, step, r) == job' = [job EXCEPT ![c].at = step, ![c].run = r]

NewestOf(ps) == {p \in ps : \A q \in ps : Generated[q] <= Generated[p]}

\* The next projection of the tick, newest first; or the call is over.
NextItem(c) ==
    \/ /\ job[c].rest = {}
       /\ job' = [job EXCEPT ![c] = Idle]
    \/ \E p \in NewestOf(job[c].rest) :
         job' = [job EXCEPT ![c].at = "plan", ![c].run = NoRun,
                            ![c].hand = p, ![c].rest = @ \ {p}]

\* An exception ends the whole call, the rest of a tick's queue included.
Raises(c) == job' = [job EXCEPT ![c] = Idle]

Mishap(costly) == /\ costly => mishaps < MaxMishaps
                  /\ mishaps' = IF costly THEN mishaps + 1 ELSE mishaps
                  /\ UNCHANGED asks

Budgets == <<mishaps, asks>>
Tables == <<runs, debates, researched>>

\* A caller is killed: the open transaction rolls back and a run it had
\* claimed stays 'running'.
Die(c) ==
    /\ job[c].at # "idle"
    /\ Raises(c)
    /\ Mishap(TRUE)
    /\ UNCHANGED <<Tables, market>>

-----------------------------------------------------------------------------
(***************************************************************************)
(* The unit of the timer: refresh-memory, then triggered.                  *)
(***************************************************************************)
Lapsed(r) == runs[r].claims = "proposed" /\ runs[r].projection \in Locked
Expires(r) == Lapsed(r)

RefreshMemory ==
    /\ job[Timer].at = "idle"
    /\ runs' = [r \in Run |-> IF Expires(r) THEN [runs[r] EXCEPT !.claims = "expired"]
                                           ELSE runs[r]]
    /\ job' = [job EXCEPT ![Timer].at = "select"]
    /\ UNCHANGED <<debates, researched, market, Budgets>>

\* The n newest of ps.
Newest(n, ps) ==
    {p \in ps : Cardinality({q \in ps : Generated[q] > Generated[p]}) < n}

\* run_triggered_research: of the forecasts that are unlocked and have no
\* complete plan it reads the five times Limit newest, and of these it takes
\* the first Limit that are triggered. An untriggered one takes up room.
Selected ==
    LET open == {p \in Projection \ Locked : ~PlanDone(p)}
    IN  Newest(Limit, Triggered \intersect Newest(5 * Limit, open))

SelectTriggered ==
    /\ job[Timer].at = "select"
    /\ \/ /\ Selected = {}
          /\ job' = [job EXCEPT ![Timer] = Idle]
       \/ \E p \in NewestOf(Selected) :
            job' = [job EXCEPT ![Timer] =
                      [Idle EXCEPT !.at = "plan", !.hand = p, !.rest = Selected \ {p},
                                   !.pat = TRUE, !.shut = Unfit \intersect Selected]]
    /\ UNCHANGED <<Tables, market, Budgets>>

-----------------------------------------------------------------------------
(***************************************************************************)
(* run_pat_research and run_projection_research.                           *)
(***************************************************************************)
HumanAsks(h, p, pat) ==
    /\ job[h].at = "idle"
    /\ asks < MaxAsks
    /\ asks' = asks + 1
    /\ job' = [job EXCEPT ![h] = [Idle EXCEPT !.at = IF pat THEN "plan" ELSE "claim",
                                              !.hand = p, !.pat = pat,
                                              !.shut = (IF pat THEN Unfit ELSE Locked)
                                                         \intersect {p}]]
    /\ UNCHANGED <<Tables, market, mishaps>>

\* The first transaction: an answer already stored, an audit that blocks, or
\* on to the base run.
PlanAndAudit(c) ==
    /\ job[c].at = "plan"
    /\ IF PlanDone(job[c].hand) \/ job[c].hand \in job[c].shut
       THEN NextItem(c)
       ELSE GoesTo(c, "claim", NoRun)
    /\ UNCHANGED <<Tables, market, Budgets>>

\* A base run is there: a debate starts from it, a plain request returns it.
WithBase(c, r) == IF job[c].pat THEN GoesTo(c, "debate", r) ELSE NextItem(c)

\* Mutation: nobody looks for a run that is already stored.
NothingStored(p) == {}
\* A complete run ends the search for one.
Stored(p) == Complete(p)

\* Mutation: a row that says 'running' is believed for ever.
NeverWreckage(r) == FALSE
\* A 'running' row counts as wreckage once it is stale.
Wreckage(r) == runs[r].status = "overdue"

\* The reads of _prepare. A second row for the projection exists only after a
\* race; started_at is its caller's clock and completed_at is taken before the
\* commit, so of several rows any may come first.
ReadRuns(c) ==
    LET p == job[c].hand IN
    /\ job[c].at = "claim"
    /\ \/ p \in job[c].shut /\ Raises(c)
       \/ /\ p \notin job[c].shut
          /\ \/ \E r \in Stored(p) : WithBase(c, r)
             \/ /\ Stored(p) = {}
                /\ \/ /\ InFlight(p) = {}
                      /\ GoesTo(c, "insert", NoRun)
                   \/ \E r \in InFlight(p) :
                         IF Wreckage(r) THEN GoesTo(c, "insert", r) ELSE Raises(c)
    /\ UNCHANGED <<Tables, market, Budgets>>

\* The writes of _prepare: the row in flight is failed by its id, whatever has
\* become of it, and a new one is started.
ClaimRun(c) ==
    /\ job[c].at = "insert"
    /\ \E r \in Fresh :
         /\ runs' = [s \in Run |->
                       IF s = r THEN Started(job[c].hand)
                       ELSE IF s = job[c].run THEN [runs[s] EXCEPT !.status = "failed"]
                       ELSE runs[s]]
         /\ GoesTo(c, "agents", r)
    /\ UNCHANGED <<debates, researched, market, Budgets>>

\* Mutation: a verdict whoever answered.
AlwaysVerdict(reviewed) == TRUE
\* A verdict is synthesised only from a round the skeptic reviewed.
HasVerdict(reviewed) == reviewed

\* The answers of the round and their one transaction, which completes the run
\* by its id, whatever has become of it.
PersistRound(c) ==
    LET r == job[c].run IN
    /\ job[c].at = "agents"
    /\ \E heard \in (SUBSET Analyst) \ {{}}, reviewed \in BOOLEAN :
         /\ runs' = [runs EXCEPT ![r] =
                       [@ EXCEPT !.status = "complete", !.verdict = HasVerdict(reviewed),
                                 !.heard = heard \union {s \in {Skeptic} : reviewed},
                                 !.claims = "proposed"]]
         /\ Mishap(heard # Analyst \/ ~reviewed)
    /\ WithBase(c, r)
    /\ UNCHANGED <<debates, researched, market>>

\* Every analyst failed, or the transaction did: the run is marked failed and
\* the exception goes on.
MarkFailed(c) ==
    /\ job[c].at = "agents"
    /\ runs' = [runs EXCEPT ![job[c].run].status = "failed"]
    /\ Raises(c)
    /\ Mishap(TRUE)
    /\ UNCHANGED <<debates, researched, market>>

\* UNIQUE (research_run_id) of decision_syntheses and UNIQUE (research_run_id,
\* agent_role, round) of agent_forecasts.
AlreadyDebated(r) == debates[r].synthesis # "none"

\* What synthesize makes of a debate, given the seats that answered its second
\* round; its audit_blocked is always False. The quality it blocks is the one
\* audit_projection has refused before the debate.
Outcome(p, round2) == IF p \in Poor THEN "block"
                      ELSE IF round2 = {} THEN "insufficient"
                      ELSE "advised"

\* The second transaction: both rounds, the review, the synthesis and the plan.
Debate(c) ==
    LET r == job[c].run IN
    /\ job[c].at = "debate"
    /\ ~AlreadyDebated(r)
    /\ \E round1, round2 \in SUBSET Analyst, reviewed \in BOOLEAN :
         /\ debates' = [debates EXCEPT ![r] =
                           [round1 |-> round1, round2 |-> round2,
                            synthesis |-> Outcome(job[c].hand, round2)]]
         /\ runs' = [runs EXCEPT ![r].heard = @ \union {s \in {Skeptic} : reviewed}]
         /\ Mishap(round1 # Analyst \/ round2 # Analyst \/ ~reviewed)
    /\ researched' = researched \union {<<job[c].hand, r>>}
    /\ NextItem(c)
    /\ UNCHANGED <<market>>

\* Somebody else debated the same run first: the insert raises.
DebateCollides(c) ==
    /\ job[c].at = "debate"
    /\ AlreadyDebated(job[c].run)
    /\ Raises(c)
    /\ UNCHANGED <<Tables, market, Budgets>>

\* The drafted rule carries a token the rule language does not have:
\* validate_rule_proposal raises outside Advisor.attempt and the debate is lost.
DraftRaises(c) ==
    /\ job[c].at = "debate"
    /\ Raises(c)
    /\ Mishap(TRUE)
    /\ UNCHANGED <<Tables, market>>

-----------------------------------------------------------------------------
(***************************************************************************)
(* Time.                                                                   *)
(***************************************************************************)
Lock(p) ==
    /\ market[p] # "locked"
    /\ market' = [market EXCEPT ![p] = "locked"]
    /\ UNCHANGED <<Tables, job, Budgets>>

QuoteAges(p) ==
    /\ market[p] = "open"
    /\ market' = [market EXCEPT ![p] = "aged"]
    /\ UNCHANGED <<Tables, job, Budgets>>

\* The stale budget of a row runs out. It starts at its caller's clock, which
\* for the later projections of a tick is minutes old, and counts neither the
\* waits between attempts nor the re-asks: it may run out under a live run.
GrowStale(r) ==
    /\ runs[r].status = "running"
    /\ runs' = [runs EXCEPT ![r].status = "overdue"]
    /\ UNCHANGED <<debates, researched, market, job, Budgets>>

-----------------------------------------------------------------------------
Work(c) == \/ PlanAndAudit(c) \/ ReadRuns(c) \/ ClaimRun(c) \/ PersistRound(c)
           \/ MarkFailed(c) \/ Debate(c) \/ DebateCollides(c) \/ DraftRaises(c)
Tick == RefreshMemory \/ SelectTriggered

Next == \/ Tick
        \/ \E c \in Caller : Work(c) \/ Die(c)
        \/ \E h \in Human, p \in Projection, pat \in BOOLEAN : HumanAsks(h, p, pat)
        \/ \E p \in Projection : Lock(p)
        \/ \E p \in Ageing : QuoteAges(p)
        \/ \E r \in Run : GrowStale(r)

Spec == Init /\ [][Next]_vars

\* The timer fires every half hour (OnCalendar, Persistent), every provider
\* call has a timeout and bounded retries, and time passes. Nobody has to ask,
\* and nothing makes a call succeed: only the mishaps are bounded.
FairSpec == /\ Spec
            /\ WF_vars(Tick)
            /\ \A c \in Caller : WF_vars(Work(c))
            /\ \A r \in Run : WF_vars(GrowStale(r))

-----------------------------------------------------------------------------
(***************************************************************************)
(* Properties.                                                             *)
(***************************************************************************)
\* The tables and the callers hold values of their columns.
TypeOK ==
    /\ market \in [Projection -> {"open", "aged", "locked"}]
    /\ runs \in [Run -> RunRow]
    /\ debates \in [Run -> DebateRow]
    /\ researched \subseteq Projection \X Run
    /\ job \in [Caller -> Job]
    /\ mishaps \in 0 .. MaxMishaps /\ asks \in 0 .. MaxAsks

\* A projection is never bought more often than there are callers: however
\* _prepare's unlocked check and its claim interleave, a finished run ends the
\* claims, and those still in flight are at most one per caller.
Buying(p) == {c \in Caller : job[c].at \in {"insert", "agents"} /\ job[c].hand = p}
ResearchIsNotRepaid ==
    \A p \in Projection :
        Cardinality(Complete(p)) + Cardinality(Buying(p)) <= Cardinality(Caller)

\* A verdict stands only beside the analyses of a round and the review of it:
\* no file looks faultless because nobody reviewed it.
VerdictsAreReviewed ==
    \A r \in Run : runs[r].verdict =>
        Skeptic \in runs[r].heard /\ runs[r].heard \ {Skeptic} # {}

\* A debate lands whole or not at all: views, synthesis and the plan that ends
\* the projection's research appear together, over analyses that are stored.
\* No forecast of poor quality is debated, so synthesize's "block" is never
\* stored, and a synthesis says "insufficient" exactly when nobody was heard.
DebatesAreWhole ==
    \A r \in Run :
        /\ debates[r].synthesis = "none" =>
             debates[r] = NoDebate /\ \A plan \in researched : plan[2] # r
        /\ debates[r].synthesis # "none" =>
             /\ runs[r].heard # {}
             /\ <<runs[r].projection, r>> \in researched
             /\ runs[r].projection \notin Poor
             /\ debates[r].synthesis = "insufficient" <=> debates[r].round2 = {}

\* A synthesis and the views under it are immutable: a second debate of the
\* same run changes nothing.
SynthesesStand ==
    [][\A r \in Run : debates[r].synthesis # "none" => debates'[r] = debates[r]]_vars

\* Every triggered projection is researched unless its data is of poor quality,
\* its market locks or its quote grows too old first: no crashed run, failed
\* call, refused forecast or lost race of another caller keeps it waiting for
\* ever.
TriggeredIsResearched ==
    <>(\A p \in Triggered : PlanDone(p) \/ p \in Unfit)
=============================================================================
