------------------------------- MODULE MCRules -------------------------------
(***************************************************************************)
(* Instances of RuleLifecycle for TLC.  Episodes e1 and e2 forecast two    *)
(* markets of one game, e3 a market of another, and e4 is a second         *)
(* forecast of the market of e1.                                           *)
(***************************************************************************)
EXTENDS RuleLifecycle, TLC

CONSTANTS e1, e2, e3, e4, m1, m2, m3, g1, g2, calm, draft, overconfidence, weekly

MCMarketOf == [e \in Episode |-> CASE e \in {e1, e4} -> m1 [] e = e2 -> m2 [] OTHER -> m3]

MCGameOf == [m \in Market |-> IF m = m3 THEN g2 ELSE g1]

\* Every miss is one avoidable category; a research run may draft a rule of
\* the catalogue under the same id.
MCCategoryOf == [e \in Episode |-> overconfidence]

MCCatalogue == [c \in Category |-> Rule \ Drafts]

MCBlock      == [r \in Rule |-> "block"]

\* Rules match every live board, and in the settled record the forecasts of m1
\* alone: one market of several is a judgement about a situation.
MCEverywhere == [r \in Rule |-> Episode]
MCSomewhere  == [r \in Rule |-> Episode \cap {e1, e4}]
=============================================================================
