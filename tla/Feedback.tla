------------------------------- MODULE Feedback -------------------------------
(***************************************************************************)
(* What the owner tells the console about one forecast: its labels and     *)
(* judgments of evidence, the decision taken, and the minutes expected;    *)
(* the endpoints of api/main.py, each one transaction that may overlap     *)
(* another, and the half-hourly ranking of evidence (organization.py).     *)
(***************************************************************************)
EXTENDS Integers, Sequences, FiniteSets, SequencesExt, FiniteSetsExt

CONSTANTS
    Exhibit,      \* the evidence a research run of the forecast has cited
    Requests,     \* bound: how many requests the owner sends
    Ranker,       \* processes: the research unit, and a command typed beside it
    Nothing

ASSUME FeedbackAssumption == Requests \in Nat /\ IsFiniteSet(Exhibit) /\ IsFiniteSet(Ranker)

Request == 1..Requests

VARIABLES
    decisions,    \* the values analyst_decision has had, the current one last
    labels,       \* rows of analyst_feedback
    judgments,    \* rows <<request, exhibit, kind>> of evidence_interactions
    minutes,      \* rows of minutes_overrides
    request,      \* Request -> the request in progress
    memory,       \* Ranker -> the judgments its refresh has read, or Nothing
    ranking       \* Exhibit -> its row of evidence_rankings, or Nothing

feedbackVars == <<decisions, labels, judgments, minutes, request, memory, ranking>>

Weight == [viewed |-> 1, useful |-> 2, misleading |-> -3]

\* What a ranking sums, and what the kinds of judgment it has are worth.
Score(rows) == MapThenSumSet(LAMBDA j : Weight[j[3]], rows)
Worth(kinds) == MapThenSumSet(LAMBDA k : Weight[k], kinds)

\* A request that has not begun or has ended; `keys` are the judgments it makes,
\* `seen` the override rows it found when it began or superseded, `held` its locks.
Quiet(place) == [at |-> place, keys |-> {}, inserted |-> {}, seen |-> {}, held |-> {}]
Close(n) == request' = [request EXCEPT ![n] = Quiet("closed")]

FeedbackInit ==
    /\ decisions = <<>> /\ labels = {} /\ judgments = {} /\ minutes = {}
    /\ request = [n \in Request |-> Quiet("unsent")]
    /\ memory = [p \in Ranker |-> Nothing]
    /\ ranking = [x \in Exhibit |-> Nothing]

\* Requests are numbered as they begin, which is when now() is taken.
Begins(n, started) ==
    /\ request[n].at = "unsent" /\ \A k \in Request : k < n => request[k].at # "unsent"
    /\ request' = [request EXCEPT ![n] = started]

Judged == {<<j[2], j[3]>> : j \in judgments}

\* POST /api/feedback: a label, with the evidence that helped and that misled.
SubmitFeedback(n) ==
    /\ \E useful, misleading \in SUBSET Exhibit :
        Begins(n, [Quiet("feedback") EXCEPT !.keys = (useful \X {"useful"}) \cup (misleading \X {"misleading"})])
    /\ UNCHANGED <<decisions, labels, judgments, minutes, memory, ranking>>

\* GET /api/research/{projection}: what is cited counts as viewed, once.
ViewResearch(n) ==
    /\ Begins(n, [Quiet("view") EXCEPT !.keys = (Exhibit \X {"viewed"}) \ Judged])
    /\ UNCHANGED <<decisions, labels, judgments, minutes, memory, ranking>>

\* Mutation: a judgment may be inserted again.
Unchecked(keys) == FALSE

\* evidence_interactions_once_idx: a judgment that is there refuses the insert, and
\* with it the request.
Refused(keys) == keys \cap Judged # {}

\* The inserts wait for another request's uncommitted rows of the same key.
InsertJudgments(n) ==
    /\ request[n].at \in {"feedback", "view"} /\ request[n].inserted = {} /\ request[n].keys # {}
    /\ \A k \in Request \ {n} : request[k].inserted \cap request[n].keys = {}
    /\ \/ Refused(request[n].keys) /\ Close(n)
       \/ ~Refused(request[n].keys) /\ request' = [request EXCEPT ![n].inserted = request[n].keys]
    /\ UNCHANGED <<decisions, labels, judgments, minutes, memory, ranking>>

StoreJudgments(n) == judgments' = judgments \cup {<<n, k[1], k[2]>> : k \in request[n].inserted}

\* The label becomes the decision where there is none.
LabelIfNone(n) == IF decisions = <<>> THEN <<[by |-> "label", request |-> n]>> ELSE decisions

\* The label's update is its last statement.
StoreFeedback(n) ==
    /\ request[n].at = "feedback" /\ request[n].inserted = request[n].keys
    /\ labels' = labels \cup {[request |-> n, keys |-> request[n].keys]}
    /\ StoreJudgments(n)
    /\ decisions' = LabelIfNone(n)
    /\ Close(n)
    /\ UNCHANGED <<minutes, memory, ranking>>

StoreView(n) ==
    /\ request[n].at = "view" /\ request[n].inserted = request[n].keys
    /\ StoreJudgments(n)
    /\ Close(n)
    /\ UNCHANGED <<decisions, labels, minutes, memory, ranking>>

\* POST /api/recommendations/{episode}/decision: one update; an override without a
\* reason is refused before it.
DecideRecommendation(n) ==
    /\ Begins(n, Quiet("closed"))
    /\ decisions' = Append(decisions, [by |-> "owner", request |-> n])
    /\ UNCHANGED <<labels, judgments, minutes, memory, ranking>>

LiveOverrides == {row \in minutes : row.live}

\* POST /api/overrides/minutes begins; `seen` keeps what was stored by then.
OverrideMinutes(n) ==
    /\ Begins(n, [Quiet("override") EXCEPT !.seen = {row.request : row \in minutes}])
    /\ UNCHANGED <<decisions, labels, judgments, minutes, memory, ranking>>

\* Its update finds the live rows ...
FindOverrides(n) ==
    /\ request[n].at = "override"
    /\ request' = [request EXCEPT ![n].at = "found", ![n].keys = {row.request : row \in LiveOverrides}]
    /\ UNCHANGED <<decisions, labels, judgments, minutes, memory, ranking>>

\* ... waits for those another request is superseding, and takes the ones that are
\* live still.
SupersedeOverrides(n) ==
    /\ request[n].at = "found"
    /\ \A k \in Request \ {n} : request[k].held \cap request[n].keys = {}
    /\ request' = [request EXCEPT ![n].at = "superseded",
                                  ![n].held = {row.request : row \in LiveOverrides} \cap request[n].keys]
    /\ UNCHANGED <<decisions, labels, judgments, minutes, memory, ranking>>

StoreOverride(n) ==
    /\ request[n].at = "superseded"
    /\ minutes' = {IF row.request \in request[n].held THEN [row EXCEPT !.live = FALSE] ELSE row : row \in minutes}
                  \cup {[request |-> n, live |-> TRUE, after |-> request[n].seen]}
    /\ Close(n)
    /\ UNCHANGED <<decisions, labels, judgments, memory, ranking>>

\* A request fails or its process dies: its transaction is rolled back.
Drop(n) ==
    /\ request[n].at \notin {"unsent", "closed"}
    /\ Close(n)
    /\ UNCHANGED <<decisions, labels, judgments, minutes, memory, ranking>>

\* refresh_research_memory: the sums are read, and stored over whatever is there.
ReadMemory(p) ==
    /\ memory[p] = Nothing
    /\ memory' = [memory EXCEPT ![p] = [of |-> judgments]]
    /\ UNCHANGED <<decisions, labels, judgments, minutes, request, ranking>>

StoreRanking(p) ==
    /\ memory[p] # Nothing
    /\ ranking' = [x \in Exhibit |->
         LET of == {j \in memory[p].of : j[2] = x}
         IN [score |-> Score(of), interactions |-> Cardinality(of)]]
    /\ memory' = [memory EXCEPT ![p] = Nothing]
    /\ UNCHANGED <<decisions, labels, judgments, minutes, request>>

ForgetMemory(p) ==
    /\ memory[p] # Nothing
    /\ memory' = [memory EXCEPT ![p] = Nothing]
    /\ UNCHANGED <<decisions, labels, judgments, minutes, request, ranking>>

FeedbackNext ==
    \/ \E n \in Request :
        \/ SubmitFeedback(n) \/ ViewResearch(n) \/ InsertJudgments(n) \/ StoreFeedback(n) \/ StoreView(n)
        \/ DecideRecommendation(n)
        \/ OverrideMinutes(n) \/ FindOverrides(n) \/ SupersedeOverrides(n) \/ StoreOverride(n)
        \/ Drop(n)
    \/ \E p \in Ranker : ReadMemory(p) \/ StoreRanking(p) \/ ForgetMemory(p)

FeedbackSpec == FeedbackInit /\ [][FeedbackNext]_feedbackVars

-----------------------------------------------------------------------------
\* A stored label has all of its judgments and a decision beside it, and gives way
\* to a decision the owner took, before or after it.
LabelsAreWhole ==
    /\ \A l \in labels : l.keys \subseteq Judged /\ decisions # <<>>
    /\ \A i \in DOMAIN decisions : decisions[i].by = "label" => i = 1

\* What the board shows of the live overrides is the newest.
ShownOverride == CHOOSE row \in LiveOverrides : \A other \in LiveOverrides : other.request <= row.request

\* Once there is an override the board shows one, and never one that the owner has
\* since replaced, though two requests may supersede each other's rows.
OverrideIsCurrent ==
    minutes # {} =>
        /\ LiveOverrides # {}
        /\ \A row \in minutes : ShownOverride.request \notin row.after

\* A judgment moves the ranking of its evidence once, whatever was sent twice.
RankingCountsOnce ==
    \A x \in {y \in Exhibit : ranking[y] # Nothing} :
        \E kinds \in SUBSET DOMAIN Weight :
            /\ {x} \X kinds \subseteq Judged
            /\ ranking[x] = [score |-> Worth(kinds), interactions |-> Cardinality(kinds)]

\* The owner is heard as the endpoints say (api/main.py:1469, 2349, 2376): whole
\* labels, decisions that stand, the override that is meant, judgments counted
\* once, with requests that overlap, are sent twice, are refused, or die.
OwnerIsHeard == LabelsAreWhole /\ OverrideIsCurrent /\ RankingCountsOnce
=============================================================================
