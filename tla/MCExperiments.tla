---------------------------- MODULE MCExperiments ----------------------------
(***************************************************************************)
(* Instances of Experiments for TLC.  Three episodes fall on two markets   *)
(* of one game and one of another, so that two markets of one game (worth  *)
(* 1.54 observations) fall short of a gate of two and two games meet it.   *)
(***************************************************************************)
EXTENDS Experiments

CONSTANTS baseline, bayes, statespace, e1, e2, e3, m1, m2, m3, g1, g2

MCMarketOf == [e \in Episode |-> IF e = e1 THEN m1 ELSE IF e = e2 THEN m2 ELSE m3]

MCGameOf == [m \in Market |-> IF m = m3 THEN g2 ELSE g1]
=============================================================================
