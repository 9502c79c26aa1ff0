------------------------------ MODULE Hypotheses ------------------------------
(***************************************************************************)
(* What the loop believes about its own errors: hypotheses claimed from    *)
(* measured errors, re-judged every week on later evidence (learning_loop/ *)
(* hypothesis_review.py), the queue of research proposals (proposals.py),  *)
(* and the advisory rows of the model's part in both (advisor.py).         *)
(***************************************************************************)
EXTENDS Provider, SampleShape

CONSTANTS
    Cause,            \* error categories; each has at most one hypothesis template
    PrimaryOf,        \* the cause the evaluation gives an episode
    PropOf,           \* the prop type of a market
    SecondaryOf,      \* the cause underneath it, or None
    Avoidable,        \* the episodes whose error was avoidable, settled and no push
    Reviewer,         \* processes: the weekly unit, and a command typed beside it
    MinimumFailures,  \* rule_proposals.MINIMUM_FAILURES, in markets
    MinimumReview,    \* MINIMUM_REVIEW_MARKETS
    MinimumErrors,    \* errors of a category before a proposal is written
    Configured,       \* whether a provider key is set, FALSE, TRUE or either
    MaxRuns,          \* bound: runs of a process
    MaxLosses         \* bound: runs that die

ASSUME HypothesesAssumption ==
    /\ IsFiniteSet(Cause) /\ IsFiniteSet(Reviewer) /\ Avoidable \subseteq Episode
    /\ PrimaryOf \in [Episode -> Cause] /\ SecondaryOf \in [Episode -> Cause \cup {None}]
    /\ Configured \subseteq BOOLEAN

VARIABLES
    now,          \* a clock: how many times a job has read the time
    attributed,   \* Episode -> attributed_at, 0 when it has no attribution
    nightly,      \* when the evaluation in progress began, 0 when there is none
    hypothesis,   \* Cause -> its row of wnba.hypotheses, or None
    linked,       \* rows <<cause, episode, relationship>> of hypothesis_episodes
    proposals,    \* Cause -> its research proposals, as a sequence of statuses
    advisories,   \* rows of model_advisories
    work,         \* Reviewer -> the run in progress
    losses

hypothesesVars == <<now, attributed, nightly, hypothesis, linked, proposals, advisories, work, losses>>

Open == {"proposed", "supported", "inconclusive"}
OpenProposal == {"proposed", "approved", "testing"}

\* A process between runs, the number of its runs so far kept. `todo` is what it has
\* still to do, `subject` the hypothesis it weighs, `wrote` those it has updated,
\* `links`, `asked` and `added` the rows it has inserted, none of them committed.
Resting(runs) ==
    [at |-> "rest", runs |-> runs, todo |-> {}, subject |-> None, evidence |-> {}, enabled |-> FALSE,
     wrote |-> [c \in Cause |-> None], links |-> {}, asked |-> {}, added |-> {}, usage |-> None]

HypothesesInit ==
    /\ now = 1
    /\ attributed = [e \in Episode |-> 0]
    /\ nightly = 0
    /\ hypothesis = [c \in Cause |-> None]
    /\ linked = {}
    /\ proposals = [c \in Cause |-> <<>>]
    /\ advisories = {}
    /\ work = [p \in Reviewer |-> Resting(0)]
    /\ losses = 0

\* The nightly evaluation stamps its attributions with the time it began.
BeginEvaluation ==
    /\ nightly = 0 /\ \E e \in Episode : attributed[e] = 0
    /\ nightly' = now /\ now' = now + 1
    /\ UNCHANGED <<attributed, hypothesis, linked, proposals, advisories, work, losses>>

CommitEvaluation ==
    /\ nightly # 0
    /\ \E settled \in SUBSET {e \in Episode : attributed[e] = 0} \ {{}} :
        attributed' = [e \in Episode |-> IF e \in settled THEN nightly ELSE attributed[e]]
    /\ nightly' = 0
    /\ UNCHANGED <<now, hypothesis, linked, proposals, advisories, work, losses>>

Errors(c) == {e \in Avoidable : attributed[e] # 0 /\ PrimaryOf[e] = c}

PropsOf(rows) == {PropOf[m] : m \in MarketsOf(rows)}

\* propose-rules claims a hypothesis for a recurring category and links the
\* episodes that motivated it as supporting ones.
Claim(c) ==
    /\ hypothesis[c] = None /\ Cardinality(MarketsOf(Errors(c))) >= MinimumFailures
    /\ hypothesis' = [hypothesis EXCEPT ![c] =
         [status |-> "proposed", created |-> now, targets |-> PropsOf(Errors(c)),
          supporting |-> 0, contradicting |-> 0, critique |-> None]]
    /\ now' = now + 1
    /\ linked' = linked \cup {<<c, e, "supporting">> : e \in Errors(c)}
    /\ UNCHANGED <<attributed, nightly, proposals, advisories, work, losses>>

\* verdict_for: a share of the avoidable errors, on enough independent markets.
Verdict(supporting, contradicting) ==
    LET s == Cardinality(supporting)
        total == s + Cardinality(contradicting)
        rows == supporting \cup contradicting
    IN CASE ~EffectiveReaches(Cardinality(MarketsOf(rows)), Cardinality(GamesOf(rows)), MinimumReview)
                -> "inconclusive"
         [] 2 * s >= total -> "supported"
         [] 5 * s <= total -> "refuted"
         [] OTHER -> "inconclusive"

Supports(c, e) == c \in {PrimaryOf[e], SecondaryOf[e]}

\* Mutation: the evidence a review weighs includes what it was claimed from.
EvidenceAtAnyTime(h) == {e \in Avoidable : attributed[e] # 0 /\ PropOf[MarketOf[e]] \in h.targets}

\* The evidence a review weighs: errors of the markets the claim is about,
\* attributed after it was written.
Evidence(h) == {e \in Avoidable : attributed[e] > h.created /\ PropOf[MarketOf[e]] \in h.targets}

LinkRow(c, e) == <<c, e, IF Supports(c, e) THEN "supporting" ELSE "contradicting">>

\* review_hypotheses selects the open hypotheses.
BeginReview(p) ==
    /\ work[p].at = "rest" /\ work[p].runs < MaxRuns
    /\ \E key \in Configured :
        work' = [work EXCEPT ![p] = [Resting(work[p].runs + 1) EXCEPT
                  !.at = "review", !.enabled = key,
                  !.todo = {c \in Cause : hypothesis[c] # None /\ hypothesis[c].status \in Open}]]
    /\ UNCHANGED <<now, attributed, nightly, hypothesis, linked, proposals, advisories, losses>>

\* Oldest first.
Eldest(todo) == CHOOSE c \in todo : \A d \in todo : hypothesis[c].created <= hypothesis[d].created

\* Another run's uncommitted row with the same key is waited for.
LinkedElsewhere(p, c, rows) ==
    \E q \in Reviewer \ {p} : \E old \in work[q].links : old[1] = c /\ old[2] \in {r[2] : r \in rows}

\* The evidence is read and linked, unless a link is there (ON CONFLICT DO NOTHING).
Weigh(p) ==
    /\ work[p].at = "review" /\ work[p].todo # {}
    /\ LET c == Eldest(work[p].todo)
           evidence == Evidence(hypothesis[c])
           rows == {LinkRow(c, e) : e \in {d \in evidence : ~\E r \in linked : r[1] = c /\ r[2] = d}}
       IN /\ ~LinkedElsewhere(p, c, rows)
          /\ work' = [work EXCEPT ![p].at = "judge", ![p].subject = c, ![p].evidence = evidence, ![p].links = @ \cup rows]
    /\ UNCHANGED <<now, attributed, nightly, hypothesis, linked, proposals, advisories, losses>>

\* _record: every attempt leaves a row, whatever it came to.
AdvisoryRow(p, task, c, disposition, usage) ==
    [run |-> <<p, work[p].runs>>, task |-> task, subject |-> c, disposition |-> disposition, charged |-> usage]

\* How Advisor.advise can end. The row is charged with what the client remembers;
\* without a key there is no call and no client.
Advice(p, task, c) ==
    IF ~work[p].enabled
    THEN {[used |-> FALSE, usage |-> None, row |-> AdvisoryRow(p, task, c, "fallback", None)]}
    ELSE {LET usage == UsageAfter(work[p].usage, <<task, c>>, end)
          IN [used |-> end.valid, usage |-> usage,
              row |-> AdvisoryRow(p, task, c, IF end.valid THEN "used" ELSE "fallback", usage)] : end \in Completion}

UpdatedElsewhere(p, c) == \E q \in Reviewer \ {p} : work[q].wrote[c] # None

\* The model's critique, when there was evidence, and the update of the row by its
\* id alone. It waits for another run's uncommitted update.
Judge(p) ==
    /\ work[p].at = "judge"
    /\ LET c == work[p].subject
           supporting == {e \in work[p].evidence : Supports(c, e)}
           contradicting == work[p].evidence \ supporting
           judged(critique) ==
               [hypothesis[c] EXCEPT !.status = Verdict(supporting, contradicting), !.critique = critique,
                   !.supporting = Cardinality(supporting), !.contradicting = Cardinality(contradicting)]
           next == [work[p] EXCEPT !.at = "review", !.todo = @ \ {c}, !.subject = None, !.evidence = {}]
       IN /\ ~UpdatedElsewhere(p, c)
          /\ \/ /\ work[p].evidence = {}
                /\ work' = [work EXCEPT ![p] = [next EXCEPT !.wrote[c] = judged(None)]]
             \/ /\ work[p].evidence # {}
                /\ \E advice \in Advice(p, "review", c) :
                    work' = [work EXCEPT ![p] = [next EXCEPT
                              !.usage = advice.usage, !.asked = @ \cup {advice.row},
                              !.wrote[c] = judged(IF advice.used THEN advice.row.run ELSE None)]]
    /\ UNCHANGED <<now, attributed, nightly, hypothesis, linked, proposals, advisories, losses>>

CommitReview(p) ==
    /\ work[p].at = "review" /\ work[p].todo = {}
    /\ hypothesis' = [c \in Cause |-> IF work[p].wrote[c] # None THEN work[p].wrote[c] ELSE hypothesis[c]]
    /\ linked' = linked \cup work[p].links
    /\ advisories' = advisories \cup work[p].asked
    /\ work' = [work EXCEPT ![p] = Resting(work[p].runs)]
    /\ UNCHANGED <<now, attributed, nightly, proposals, losses>>

\* generate_research_proposals reads the categories with enough errors.
BeginPropose(p) ==
    /\ work[p].at = "rest" /\ work[p].runs < MaxRuns
    /\ \E key \in Configured :
        work' = [work EXCEPT ![p] = [Resting(work[p].runs + 1) EXCEPT
                  !.at = "propose", !.enabled = key,
                  !.todo = {c \in Cause : Cardinality(Errors(c)) >= MinimumErrors}]]
    /\ UNCHANGED <<now, attributed, nightly, hypothesis, linked, proposals, advisories, losses>>

\* The category is passed over when an open proposal of it is there.
LookFor(p) ==
    /\ work[p].at = "propose"
    /\ \E c \in work[p].todo :
        /\ c = CHOOSE d \in work[p].todo : TRUE
        /\ work' = IF \E i \in DOMAIN proposals[c] : proposals[c][i].status \in OpenProposal
                  THEN [work EXCEPT ![p].todo = @ \ {c}]
                  ELSE [work EXCEPT ![p].at = "design"]
    /\ UNCHANGED <<now, attributed, nightly, hypothesis, linked, proposals, advisories, losses>>

\* The model designs it or the fallback does; its value is arithmetic either way.
Design(p) ==
    /\ work[p].at = "design"
    /\ LET c == CHOOSE d \in work[p].todo : TRUE
       IN \E advice \in Advice(p, "propose", c) :
            work' = [work EXCEPT ![p].at = "propose", ![p].todo = @ \ {c}, ![p].usage = advice.usage,
                               ![p].asked = @ \cup {advice.row},
                               ![p].added = @ \cup {<<c, IF advice.used THEN advice.row.run ELSE None>>}]
    /\ UNCHANGED <<now, attributed, nightly, hypothesis, linked, proposals, advisories, losses>>

CommitPropose(p) ==
    /\ work[p].at = "propose" /\ work[p].todo = {}
    /\ proposals' = [c \in Cause |->
         IF \E a \in work[p].added : a[1] = c
         THEN Append(proposals[c], [status |-> "proposed",
                                    author |-> (CHOOSE a \in work[p].added : a[1] = c)[2]])
         ELSE proposals[c]]
    /\ advisories' = advisories \cup work[p].asked
    /\ work' = [work EXCEPT ![p] = Resting(work[p].runs)]
    /\ UNCHANGED <<now, attributed, nightly, hypothesis, linked, losses>>

\* The owner decides a proposal, once.
ReviewProposal(c, i, verdict) ==
    /\ proposals[c][i].status = "proposed"
    /\ proposals' = [proposals EXCEPT ![c][i].status = verdict]
    /\ UNCHANGED <<now, attributed, nightly, hypothesis, linked, advisories, work, losses>>

\* A run dies, or PostgreSQL ends it for a deadlock: nothing of it is kept, its
\* advisory rows included.
Lose(p) ==
    /\ work[p].at # "rest" /\ losses < MaxLosses
    /\ work' = [work EXCEPT ![p] = Resting(work[p].runs)]
    /\ losses' = losses + 1
    /\ UNCHANGED <<now, attributed, nightly, hypothesis, linked, proposals, advisories>>

EvaluationNext == BeginEvaluation \/ CommitEvaluation

ReviewNext ==
    \/ \E c \in Cause : Claim(c)
    \/ \E p \in Reviewer : BeginReview(p) \/ Weigh(p) \/ Judge(p) \/ CommitReview(p)

ProposalNext ==
    \/ \E p \in Reviewer : BeginPropose(p) \/ LookFor(p) \/ Design(p) \/ CommitPropose(p)
    \/ \E c \in Cause, verdict \in {"approved", "rejected"} :
         \E i \in DOMAIN proposals[c] : ReviewProposal(c, i, verdict)

HypothesesNext == EvaluationNext \/ ReviewNext \/ ProposalNext \/ \E p \in Reviewer : Lose(p)

HypothesesSpec == HypothesesInit /\ [][HypothesesNext]_hypothesesVars

-----------------------------------------------------------------------------
LinkedAs(c, relationship) == {r[2] : r \in {l \in linked : l[1] = c /\ l[3] = relationship}}

\* A hypothesis is answerable (027_closed_learning_loop.sql:14): its tally counts
\* episodes linked to it in that sense whose error was attributed after the claim
\* was written, never one it was claimed from, and its status is the verdict of
\* such a tally, though reviews overlap, die, and find rows already linked.
VerdictsAreAnswerable ==
    \A c \in {d \in Cause : hypothesis[d] # None} :
        LET h == hypothesis[c]
            later(relationship, n) ==
                {rows \in SUBSET {e \in LinkedAs(c, relationship) : attributed[e] > h.created} : Cardinality(rows) = n}
        IN h.status # "proposed" =>
            \E s \in later("supporting", h.supporting), k \in later("contradicting", h.contradicting) :
                h.status = Verdict(s, k)

\* What is labelled as the model's (migration 027:25, advisor.py:95) has its
\* advisory on record, from the run that wrote it, and a used advisory is charged
\* with no call but its own.
AdviceIsOnRecord ==
    LET told(run, task, c) ==
            run = None \/ \E a \in advisories : a.run = run /\ a.task = task /\ a.subject = c /\ a.disposition = "used"
    IN /\ \A c \in Cause : hypothesis[c] # None => told(hypothesis[c].critique, "review", c)
       /\ \A c \in Cause : \A i \in DOMAIN proposals[c] : told(proposals[c][i].author, "propose", c)
       /\ \A a \in advisories : a.disposition = "used" => a.charged \in {None, <<a.task, a.subject>>}

\* Both, as the console shows a hypothesis: its tally, its verdict and its critique.
BeliefsAreOnRecord == VerdictsAreAnswerable /\ AdviceIsOnRecord
=============================================================================
