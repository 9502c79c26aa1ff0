------------------------------ MODULE MCResearch ------------------------------
\* Two triggered projections, the timer and one human. The audit refuses the
\* data of the third, the newest.
EXTENDS ResearchDesk, TLC

CONSTANTS p1, p2, p3

ThirdIsNewest == (p3 :> 3) @@ (p1 :> 2) @@ (p2 :> 1)
OneAges == {p1}
=============================================================================
