----------------------------- MODULE MCSettlement -----------------------------
\* Two players and a market nobody can score, in one game or on two nights.
EXTENDS Settlement, TLC

CONSTANTS g1, g2, d1, d2, m1, m2, m3, l1, l2

Units == <<"void", "settle", "picks">>
Scored == {m1, m2}
Ones == [m \in Market |-> 1]
Overs == [m \in Market |-> "over"]
OnesTaken == [l \in Leg |-> 1]
UndersTaken == [l \in Leg |-> "under"]
OneSlip == [l \in Leg |-> 1]
SecondLeg == {l2}

\* One date, whose other game has no markets; one leg of each player.
OneDate == [g \in Game |-> d1]
FirstGame == [m \in Market |-> g1]
Players == (m1 :> "a points") @@ (m2 :> "b points") @@ (m3 :> "a fantasy")
EachPlayer == (l1 :> m1) @@ (l2 :> m2)
InTurn == (1 :> {m3}) @@ (2 :> {m1}) @@ (3 :> {m2})
Shown == (m1 :> {1}) @@ (m2 :> {Absent}) @@ (m3 :> {Benched})

Scores == [m \in Market |-> {2}]
=============================================================================
