------------------------------ MODULE SampleShape ------------------------------
(***************************************************************************)
(* What a pile of settled forecasts is worth as evidence: learning_loop/   *)
(* independence.py, which every gate of the learning loop counts with.     *)
(***************************************************************************)
EXTENDS Naturals, FiniteSets

CONSTANTS
    Episode,    \* bound: the decision episodes the runs may write
    Market,     \* (player, game, prop type) decisions
    Game,
    MarketOf,   \* the market an episode forecasts
    GameOf      \* the game a market belongs to

ASSUME SampleAssumption ==
    /\ IsFiniteSet(Episode)
    /\ MarketOf \in [Episode -> Market]
    /\ GameOf \in [Market -> Game]

\* One market counts once, however often it was forecast.
MarketsOf(rows) == {MarketOf[e] : e \in rows}
GamesOf(rows)   == {GameOf[m] : m \in MarketsOf(rows)}

\* Mutation: the gate reads the market count without the clustering correction.
ReachesUnclustered(n, g, minimum) == n > 0 /\ n >= minimum

\* n markets over g games are worth n / (1 + (n/g - 1) * 0.30) observations,
\* compared with the gate without leaving the integers.
EffectiveReaches(n, g, minimum) ==
    /\ n > 0
    /\ 10 * n * g >= minimum * (7 * g + 3 * n)
=============================================================================
