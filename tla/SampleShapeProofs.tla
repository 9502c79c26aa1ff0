--------------------------- MODULE SampleShapeProofs ---------------------------
(***************************************************************************)
(* What the gates of the learning loop may rely on: counting markets and   *)
(* games is well defined, and more evidence never undoes enough evidence.  *)
(***************************************************************************)
EXTENDS SampleShape, FiniteSetTheorems, TLAPS

(***************************************************************************)
(* Arithmetic of the gate.                                                 *)
(***************************************************************************)

\* Multiplying both sides of an inequality by a natural number.
LEMMA TimesMonotone ==
    ASSUME NEW a \in Int, NEW b \in Int, NEW c \in Nat, a <= b
    PROVE  c * a <= c * b
BY SMT

\* More markets, or more games behind them, never undo a sample that reaches
\* its gate.
LEMMA GateIsMonotone ==
    ASSUME NEW n1 \in Nat, NEW g1 \in Nat, NEW n2 \in Nat, NEW g2 \in Nat,
           NEW minimum \in Nat \ {0},
           n1 > 0, n1 <= n2, g1 <= g2,
           10 * n1 * g1 >= minimum * (7 * g1 + 3 * n1)
    PROVE  10 * n2 * g2 >= minimum * (7 * g2 + 3 * n2)
<1> DEFINE byMarkets == 10 * g1 - 3 * minimum
           byGames   == 10 * n2 - 7 * minimum
<1>1. n1 * byMarkets >= minimum * 7 * g1
  BY SMT
<1>2. byMarkets \in Nat
  <2>1. minimum * 7 * g1 \in Nat
    BY SMT
  <2>2. byMarkets \in Int
    BY SMT
  <2>3. byMarkets < 0 => n1 * byMarkets < 0
    BY <2>2, SMT
  <2> QED
    BY <1>1, <2>1, <2>2, <2>3, SMT
<1>3. n2 * byMarkets >= n1 * byMarkets
  <2> HIDE DEF byMarkets
  <2> QED
    BY <1>2, TimesMonotone, SMT
<1>4. g1 * byGames >= minimum * 3 * n2
  BY <1>1, <1>3, SMT
<1>5. byGames \in Nat
  <2>1. minimum * 3 * n2 \in Nat
    BY SMT
  <2>2. byGames \in Int
    BY SMT
  <2>3. byGames < 0 => g1 * byGames <= 0
    BY <2>2, SMT
  <2>4. minimum * 3 * n2 > 0
    BY SMT
  <2> QED
    BY <1>4, <2>1, <2>2, <2>3, <2>4, SMT
<1>6. g2 * byGames >= g1 * byGames
  <2> HIDE DEF byGames
  <2> QED
    BY <1>5, TimesMonotone, SMT
<1> QED
  BY <1>4, <1>6, SMT

-----------------------------------------------------------------------------
(***************************************************************************)
(* Markets and games behind a set of episodes.                             *)
(***************************************************************************)

\* Forecasting a market repeatedly never makes more markets than episodes.
LEMMA MarketsAreCounted ==
    ASSUME NEW rows \in SUBSET Episode
    PROVE  /\ IsFiniteSet(MarketsOf(rows))
           /\ Cardinality(MarketsOf(rows)) \in 0 .. Cardinality(Episode)
<1>1. /\ IsFiniteSet(Episode) /\ IsFiniteSet(rows)
      /\ Cardinality(rows) <= Cardinality(Episode)
      /\ Cardinality(rows) \in Nat /\ Cardinality(Episode) \in Nat
  BY SampleAssumption, FS_Subset, FS_CardinalityType
<1> DEFINE f == [e \in rows |-> MarketOf[e]]
<1>2. f \in Surjection(rows, MarketsOf(rows))
  BY DEF Surjection, MarketsOf
<1>3. IsFiniteSet(MarketsOf(rows)) /\ Cardinality(MarketsOf(rows)) <= Cardinality(rows)
  BY <1>1, <1>2, FS_Surjection
<1>4. Cardinality(MarketsOf(rows)) \in Nat
  BY <1>3, FS_CardinalityType
<1> QED
  BY <1>1, <1>3, <1>4, SMT

\* The games behind them are as finite.
LEMMA GamesAreFinite ==
    ASSUME NEW rows \in SUBSET Episode
    PROVE  IsFiniteSet(GamesOf(rows)) /\ Cardinality(GamesOf(rows)) \in Nat
<1> DEFINE f == [m \in MarketsOf(rows) |-> GameOf[m]]
<1>1. f \in Surjection(MarketsOf(rows), GamesOf(rows))
  BY DEF Surjection, GamesOf
<1>2. IsFiniteSet(GamesOf(rows))
  BY <1>1, MarketsAreCounted, FS_Surjection
<1> QED
  BY <1>2, FS_CardinalityType

-----------------------------------------------------------------------------
\* A sample that reaches its gate still reaches it after more episodes have
\* settled, however they cluster: effective_sample_size in independence.py is
\* monotone, although a market added to a game lowers the weight of every
\* market of that game.
THEOREM MoreEvidenceIsEnough ==
    ASSUME NEW rows \in SUBSET Episode, NEW more \in SUBSET Episode, rows \subseteq more,
           NEW minimum \in Nat \ {0},
           EffectiveReaches(Cardinality(MarketsOf(rows)), Cardinality(GamesOf(rows)), minimum)
    PROVE  /\ Cardinality(MarketsOf(rows)) <= Cardinality(MarketsOf(more))
           /\ EffectiveReaches(Cardinality(MarketsOf(more)), Cardinality(GamesOf(more)), minimum)
<1> DEFINE n1 == Cardinality(MarketsOf(rows))
           n2 == Cardinality(MarketsOf(more))
           g1 == Cardinality(GamesOf(rows))
           g2 == Cardinality(GamesOf(more))
<1>1. MarketsOf(rows) \subseteq MarketsOf(more) /\ GamesOf(rows) \subseteq GamesOf(more)
  BY DEF MarketsOf, GamesOf
<1>2. n1 \in Nat /\ n2 \in Nat /\ g1 \in Nat /\ g2 \in Nat
  BY MarketsAreCounted, GamesAreFinite
<1>3. n1 <= n2 /\ g1 <= g2
  BY <1>1, MarketsAreCounted, GamesAreFinite, FS_Subset
<1>4. n1 > 0 /\ 10 * n1 * g1 >= minimum * (7 * g1 + 3 * n1)
  BY DEF EffectiveReaches
<1>5. 10 * n2 * g2 >= minimum * (7 * g2 + 3 * n2)
  <2> HIDE DEF n1, n2, g1, g2
  <2> QED
    BY <1>2, <1>3, <1>4, GateIsMonotone
<1>6. n2 > 0
  <2> HIDE DEF n1, n2, g1, g2
  <2> QED
    BY <1>2, <1>3, <1>4
<1> QED
  BY <1>3, <1>5, <1>6 DEF EffectiveReaches
=============================================================================
