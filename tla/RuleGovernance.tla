---------------------------- MODULE RuleGovernance ----------------------------
(***************************************************************************)
(* What the life of an analyst rule promises, apart from jobs, tables and  *)
(* transactions: a rule gains authority over forecasts once, by the name   *)
(* of a human and after the settled record measured it; the system may     *)
(* take authority away by itself and never gives it; a forecast is         *)
(* influenced by signed rules only.  Migrations 022, 024 and 027 and the   *)
(* docstrings of rule_lifecycle.py and rule_review.py say so of the code   *)
(* that RuleLifecycle models.                                              *)
(***************************************************************************)
CONSTANTS Rule, Human, None

VARIABLES
    authority,  \* rule |-> what it may do to a forecast
    measured,   \* rules the settled record has enough to say about
    signer,     \* rule |-> the human who signed for it
    influenced  \* rules that have acted on a recorded forecast

ruleGovVars == <<authority, measured, signer, influenced>>

Signed == {r \in Rule : signer[r] # None}

GovInit ==
    /\ authority = [r \in Rule |-> "inert"]
    /\ measured = {}
    /\ signer = [r \in Rule |-> None]
    /\ influenced = {}

Measure ==
    /\ measured \subseteq measured' /\ measured' \subseteq Rule
    /\ UNCHANGED <<authority, signer, influenced>>

Sign(r, human) ==
    /\ authority[r] = "inert" /\ r \in measured
    /\ authority' = [authority EXCEPT ![r] = "live"]
    /\ signer' = [signer EXCEPT ![r] = human]
    /\ UNCHANGED <<measured, influenced>>

\* One review may withdraw several rules.
Withdraw(harmful) ==
    /\ \A r \in harmful : authority[r] = "live"
    /\ authority' = [r \in Rule |-> IF r \in harmful THEN "withdrawn" ELSE authority[r]]
    /\ UNCHANGED <<measured, signer, influenced>>

Influence ==
    /\ influenced \subseteq influenced' /\ influenced' \subseteq Signed
    /\ UNCHANGED <<authority, measured, signer>>

GovNext ==
    \/ Measure \/ Influence
    \/ \E r \in Rule, human \in Human : Sign(r, human)
    \/ \E harmful \in SUBSET Rule : Withdraw(harmful)

GovSpec == GovInit /\ [][GovNext]_ruleGovVars
=============================================================================
