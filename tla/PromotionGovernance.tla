-------------------------- MODULE PromotionGovernance --------------------------
(***************************************************************************)
(* What champion/challenger promotion promises, apart from jobs, tables    *)
(* and transactions: a challenger is approved once, by a named human, and  *)
(* only while the recorded evidence reaches its gate; what was decided is  *)
(* final except that an approval may be withdrawn, again by a human.       *)
(* Migration 025 (points 2 and 3) and docs/MODEL_CARD.md, "Promotion", say *)
(* so of the code that Experiments models.                                 *)
(***************************************************************************)
CONSTANTS Experiment, Human, None

VARIABLES
    decision,    \* experiment |-> where its decision stands
    sufficient,  \* the experiments whose evidence reaches their gate
    approver     \* experiment |-> who approved it

govVars == <<decision, sufficient, approver>>

Decisions == {"unopened", "open", "approved", "withdrawn", "closed"}

GovInit ==
    /\ decision = [x \in Experiment |-> "unopened"]
    /\ sufficient = {}
    /\ approver = [x \in Experiment |-> None]

Decide(x, from, to) == decision[x] = from /\ decision' = [decision EXCEPT ![x] = to]

Open(x)  == Decide(x, "unopened", "open") /\ UNCHANGED <<sufficient, approver>>

Close(x) == Decide(x, "open", "closed") /\ UNCHANGED <<sufficient, approver>>

\* Evidence arrives for open and decided experiments alike; none is lost.
Gather ==
    /\ sufficient \subseteq sufficient'
    /\ sufficient' \subseteq {x \in Experiment : decision[x] # "unopened"}
    /\ UNCHANGED <<decision, approver>>

Approve(x, human) ==
    /\ x \in sufficient
    /\ Decide(x, "open", "approved")
    /\ approver' = [approver EXCEPT ![x] = human]
    /\ UNCHANGED sufficient

Withdraw(x) == Decide(x, "approved", "withdrawn") /\ UNCHANGED <<sufficient, approver>>

GovNext ==
    \/ \E x \in Experiment : Open(x) \/ Close(x) \/ Withdraw(x)
    \/ \E x \in Experiment, human \in Human : Approve(x, human)
    \/ Gather

GovSpec == GovInit /\ [][GovNext]_govVars
=============================================================================
