------------------------------ MODULE MCConsole ------------------------------
\* The console's services read and write no table of one another, so a run follows
\* one of them at a time: the states are the sum of theirs, not the product.
EXTENDS Dialogue, Hypotheses, Monitor, Feedback, TLC

CONSTANTS mi, ef, m1, m2, m3, g1, g2, pts, x

VARIABLE part   \* the service this behaviour follows

vars == <<part, dialogueVars, hypothesesVars, monitorVars, feedbackVars>>

Init ==
    /\ part \in {"dialogue", "reviews", "proposals", "monitor", "owner"}
    /\ DialogueInit /\ HypothesesInit /\ MonitorInit /\ FeedbackInit

LoseRun == \E p \in Reviewer : Lose(p)

Next ==
    \/ /\ part = "dialogue" /\ DialogueNext
       /\ UNCHANGED <<part, hypothesesVars, monitorVars, feedbackVars>>
    \/ /\ part = "reviews" /\ (EvaluationNext \/ ReviewNext \/ LoseRun)
       /\ UNCHANGED <<part, dialogueVars, monitorVars, feedbackVars>>
    \/ /\ part = "proposals" /\ (EvaluationNext \/ ProposalNext \/ LoseRun)
       /\ UNCHANGED <<part, dialogueVars, monitorVars, feedbackVars>>
    \/ /\ part = "monitor" /\ MonitorNext
       /\ UNCHANGED <<part, dialogueVars, hypothesesVars, feedbackVars>>
    \/ /\ part = "owner" /\ FeedbackNext
       /\ UNCHANGED <<part, dialogueVars, hypothesesVars, monitorVars>>

Watched(action) == part = "monitor" /\ action

Fairness ==
    \A p \in {Timer, Typed} :
        /\ WF_monitorVars(Watched(Check(Timer)))
        /\ WF_monitorVars(Watched(Reconcile(p)))
        /\ WF_monitorVars(Watched(CommitWatch(p)))

Spec == Init /\ [][Next]_vars /\ Fairness

MCMarketOf == <<m1, m2, m3>>
MCGameOf == (m1 :> g1) @@ (m2 :> g1) @@ (m3 :> g2)
MCPropOf == [m \in Market |-> pts]
MCPrimaryOf == <<mi, ef, mi>>
MCSecondaryOf == <<ef, None, None>>
=============================================================================
