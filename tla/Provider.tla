------------------------------- MODULE Provider -------------------------------
(***************************************************************************)
(* The language-model provider as the code meets it: research_agents/      *)
(* deepseek.py, its HTTP call with retries (_post), the structured call    *)
(* with its re-asks (_complete), and what the client object remembers of   *)
(* its last call, which the advisory rows are priced with.                 *)
(***************************************************************************)
EXTENDS Naturals, Sequences, SequencesExt

CONSTANTS
    MaxAttempts,       \* DEEPSEEK_MAX_ATTEMPTS
    FeedbackRetries,   \* DEEPSEEK_FEEDBACK_RETRIES
    None

ASSUME ProviderAssumption == MaxAttempts \in Nat \ {0} /\ FeedbackRetries \in Nat

\* What one attempt meets: a body; a status that is no congestion, or a body that is
\* no JSON, which are raised at once; congestion or a transport fault, after which the next attempt is made.
Attempt == {"body", "refused", "congested"}

\* _post: attempts until one settles it or they run out.
Posts ==
    {s \in SeqOf(Attempt, MaxAttempts) :
        /\ s # <<>>
        /\ \A i \in 1..Len(s) - 1 : s[i] = "congested"
        /\ Last(s) = "congested" => Len(s) = MaxAttempts}

\* A body: whether its choice finished with "stop", what its text is, and whether
\* it cites evidence it was not given.
Body == [stopped : BOOLEAN, text : {"none", "malformed", "schema"}, cites : {"given", "unknown"}]

Readable(body) == body.stopped /\ body.text = "schema"

\* The four calls of the research roles cite evidence, and only what they were
\* given; the general one has none to cite.
Grounded(body) == body.cites = "given"

Accepted(body) == Readable(body) /\ Grounded(body)

\* What a round of _complete comes to.
Round ==
    {"silent" : s \in {p \in Posts : Last(p) # "body"}}
    \cup {IF Accepted(body) THEN "accepted" ELSE "rejected" : body \in Body}

\* _complete: a rejected body is shown to the model with the reason, once more
\* per re-ask; a silent provider is not asked again.
Calls ==
    {s \in SeqOf(Round, FeedbackRetries + 1) :
        /\ s # <<>>
        /\ \A i \in 1..Len(s) - 1 : s[i] = "rejected"
        /\ Last(s) = "rejected" => Len(s) = FeedbackRetries + 1}

\* How a structured call can end; the provider may withhold the usage.
Completion == {[valid |-> Last(s) = "accepted", reported |-> u] : s \in Calls, u \in BOOLEAN}

\* Mutation: a call whose usage is withheld leaves the last one's in place.
UsageKept(usage, call, end) == IF end.valid /\ end.reported THEN call ELSE usage

\* The client's last_usage after a call: a valid answer replaces it, with nothing
\* when it is withheld; a call that fails leaves that of the call before.
UsageAfter(usage, call, end) ==
    IF ~end.valid THEN usage ELSE IF end.reported THEN call ELSE None
=============================================================================
