----------------------------- MODULE MCLearning -----------------------------
\* Four forecasts of three markets over two games; the last, of the thin market,
\* is the pool's third answer.
EXTENDS Learning

CONSTANTS m1, m2, m3, g1, g2, pts, reb

MCMarketOf == <<m1, m1, m2, m3>>
MCGameOf == (m1 :> g1) @@ (m2 :> g2) @@ (m3 :> g2)
MCPropOf == (m1 :> pts) @@ (m2 :> pts) @@ (m3 :> reb)
MCRawOf == <<60, 90, 70, 65>>
MCAnswerOf == "market_prior" :> <<40, 5, 98, 84>>   \* degraded until m2 lands
Landed == [minutes |-> 30, stat |-> 20]
Missed == [minutes |-> 20, stat |-> 10]
MCBoxes == (m1 :> {Missed}) @@ (m2 :> {Landed, Void}) @@ (m3 :> {Landed})
MCClosingOf == (m1 :> 15) @@ (m2 :> 13) @@ (m3 :> 15)
MCGains == {5}

\* A family linked through its middle member, which the cap must see whole.
MCFound ==
    {[v |-> [empirical |-> 40, hierarchical |-> 20, player_state |-> 20,
             opportunity_conversion |-> 10, market_prior |-> 10],
      pairs |-> {{"empirical", "hierarchical"}, {"hierarchical", "player_state"}}]}

\* Two families: one that the optimiser would favour, and one that has its prior.
MCTwoFamilies ==
    {[v |-> [empirical |-> 40, hierarchical |-> 20, player_state |-> 12,
             opportunity_conversion |-> 18, market_prior |-> 10],
      pairs |-> {{"empirical", "hierarchical"}, {"player_state", "opportunity_conversion"}}]}

MCReadCurve(c, p) == p   \* no Platt curve in this instance
=============================================================================
