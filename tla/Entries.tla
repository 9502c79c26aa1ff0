------------------------------ MODULE Entries ------------------------------
(***************************************************************************)
(* What the console makes of a priced board: which legs the learned trust  *)
(* gates let through, which entries it suggests, what it says an entry is  *)
(* worth, and how much of the bankroll it would stake.                     *)
(***************************************************************************)
EXTENDS Pricing

CONSTANTS
    LegPlayer, LegMarket, LegTeam, LegGame,   \* of each quote
    Trusts,        \* what the trust snapshots may say of a leg
    Payouts,       \* [<<type, size>> |-> [correct -> payout in hundredths]]
    Fitted,        \* relations of leg_correlations that are measured
    Grid, Tick,    \* the leg probabilities of tickets: multiples of Tick = One/Grid
    MinEdge,       \* RiskPolicy.min_expected_value, in hundredths
    Edges,         \* what the simulator may answer, in hundredths
    PerPosition, PerGame, PerDay,         \* RiskPolicy, in units of bankroll
    MaxPerGame, MaxPerPlayer, MaxPerTeam, \* legs of one entry
    MaxEntries     \* bound: entries the owner makes in a day

ASSUME EntriesAssumption ==
    /\ Grid \in Nat \ {0} /\ Tick \in Nat \ {0} /\ Tick * Grid = One
    /\ MaxEntries \in Nat
    /\ PerPosition \in Nat /\ PerGame \in Nat /\ PerDay \in Nat
    /\ PerPosition <= PerGame /\ PerGame <= PerDay
    /\ DOMAIN Payouts \subseteq {"power", "flex"} \X (2..8)
    /\ Edges \subseteq Int /\ MinEdge \in Int
    /\ Fitted \subseteq {"same_player", "same_team", "opposing_team", "different_game"}

VARIABLES
    qualified,     \* legs the console shows as qualified
    onGame,        \* staked on each game today, by where the advice came from
    today,         \* staked today, likewise
    entries        \* entries made today

deskVars == <<qualified, onGame, today, entries>>
entriesVars == <<pricingVars, deskVars>>

GameOnBoard == {LegGame[q] : q \in Quote}
Advice == {"priced", "suggested"}

-----------------------------------------------------------------------------
(* The trust gates of the forecast board.                                  *)

\* _trust_gate_results: a learned policy, an interval with enough coverage
\* behind it, and the whole interval on the side taken.  An absent or thin
\* snapshot passes nothing.
TrustPasses(t, side) ==
    /\ t.policyFitted /\ t.confident
    /\ t.sample >= 40 /\ t.covered + 2 >= t.target
    /\ IF side = "over" THEN t.mean - t.radius > t.line ELSE t.mean + t.radius < t.line

\* A source with a record must be reliable; one without passes.
SourcePasses(t) == t.sourceSample < 50 \/ t.sourceWeight >= 40

Qualifies(q, t) ==
    /\ board[q].status = "candidate"
    /\ TrustPasses(t, board[q].side)
    /\ SourcePasses(t)

-----------------------------------------------------------------------------
(* Entries.                                                                *)

\* Every legal ticket: no position twice, and the caps.
CountOf(S, f, v) == Cardinality({q \in S : f[q] = v})

Legal(S) ==
    /\ Cardinality({<<LegPlayer[q], LegMarket[q]>> : q \in S}) = Cardinality(S)
    /\ \A q \in S : /\ CountOf(S, LegGame, LegGame[q]) <= MaxPerGame
                    /\ CountOf(S, LegPlayer, LegPlayer[q]) <= MaxPerPlayer
                    /\ CountOf(S, LegTeam, LegTeam[q]) <= MaxPerTeam

\* Why two legs might move together; the tightest true statement.
Relation(q, r) ==
    IF LegPlayer[q] = LegPlayer[r] THEN "same_player"
    ELSE IF LegGame[q] # LegGame[r] THEN "different_game"
    ELSE IF LegTeam[q] = LegTeam[r] THEN "same_team"
    ELSE "opposing_team"

IsFitted(S) == \A q, r \in S : q # r => Relation(q, r) \in Fitted

\* A leg is priced at the lower bound the gate recorded, here rounded down to
\* the grid.
LegTicks(q) == board[q].lower \div Tick

\* independent_correct_count_pmf: one leg folded in; a pmf over n legs is in
\* units of Grid^-n.
AddLeg(pmf, p) ==
    [k \in 0..Cardinality(DOMAIN pmf) |->
        (IF k \in DOMAIN pmf THEN pmf[k] * (Grid - p) ELSE 0)
          + (IF k > 0 THEN pmf[k - 1] * p ELSE 0)]

Pmf(S) == FoldSet(LAMBDA q, pmf : AddLeg(pmf, LegTicks(q)), [k \in {0} |-> 1], S)

\* Gross return of independent legs, in hundredths of Grid^-n.
Worth(pays, pmf) == FoldSet(LAMBDA k, sum : sum + pays[k] * pmf[k], 0, DOMAIN pays)
GrossReturn(S, type) == Worth(Payouts[<<type, Cardinality(S)>>], Pmf(S))

\* What the gate asks of a leg, rounded down to the grid, and the pmf of n legs
\* that have no more.
GateTicks == (Breakeven + Margin) \div Tick
AtGate[n \in 0..8] == IF n = 0 THEN [k \in {0} |-> 1] ELSE AddLeg(AtGate[n - 1], GateTicks)

\* What a rule of the table pays for k correct legs.
Paid(rule, k) == IF k \in DOMAIN Payouts[rule] THEN Payouts[rule][k] ELSE 0

\* The table whose two-leg power play sets the gate: one more correct leg never
\* pays less, and legs that have just what the gate asks, even rounded down to
\* the grid, break even under each of the rules.
ASSUME PayoutAssumption ==
    \A rule \in DOMAIN Payouts :
        /\ DOMAIN Payouts[rule] \subseteq 0..rule[2]
        /\ \A k \in DOMAIN Payouts[rule] : Payouts[rule][k] \in Nat
        /\ \A k \in 1..rule[2] : Paid(rule, k - 1) <= Paid(rule, k)
        /\ Worth(Payouts[rule], AtGate[rule[2]]) >= 100 * Grid^rule[2]

-----------------------------------------------------------------------------
(* staked_fraction.                                                        *)

\* Mutation: the caps are not applied as remaining headroom.
StakeIgnoringTheStaked(kelly, worst, staked, day) ==
    IF worst < MinEdge THEN 0
    ELSE Max({0, Min({kelly, PerPosition, PerGame, PerDay})})

\* Kelly's fraction is numerical: some multiple of the unit, positive only if
\* the entry has an edge.
Stake(kelly, worst, staked, day) ==
    IF worst < MinEdge THEN 0
    ELSE Max({0, Min({kelly, PerPosition, Max({0, PerGame - staked}), Max({0, PerDay - day})})})

Total(f) == f["priced"] + f["suggested"]
StakedOn(g) == onGame["priced"][g] + onGame["suggested"][g]

-----------------------------------------------------------------------------
EntriesInit ==
    /\ PricingInit
    /\ qualified = {}
    /\ onGame = [a \in Advice |-> [g \in GameOnBoard |-> 0]]
    /\ today = [a \in Advice |-> 0]
    /\ entries = 0

\* GET /api/forecasts, once the run is over: the newest trust snapshots.
ShowBoard ==
    /\ next = Len(Queue)
    /\ \E t \in Trusts : qualified' = {q \in Quote : Qualifies(q, t)}
    /\ UNCHANGED <<pricingVars, onGame, today, entries>>

\* The owner makes the entry as advised.
Enter(advice, S, stake) ==
    /\ onGame' = [onGame EXCEPT ![advice] =
                    [g \in GameOnBoard |-> @[g] + (IF \E q \in S : LegGame[q] = g THEN stake ELSE 0)]]
    /\ today' = [today EXCEPT ![advice] = @ + stake]
    /\ entries' = entries + 1

Tickets == {S \in SUBSET qualified : \E type \in {"power", "flex"} :
                <<type, Cardinality(S)>> \in DOMAIN Payouts}

\* POST /api/price on legs of the owner's choosing, telling it truly what is
\* already staked on their game and today.  worst is the least favourable end
\* of the correlation band.
PriceAndEnter ==
    /\ entries < MaxEntries
    /\ \E S \in Tickets, worst \in Edges, kelly \in 1..(PerPosition + 1) :
         LET stake == Stake(kelly, worst, Max({StakedOn(LegGame[q]) : q \in S}), Total(today))
         IN  stake > 0 /\ Enter("priced", S, stake)
    /\ UNCHANGED <<pricingVars, qualified>>

\* POST /api/entries/suggest: legal tickets only, nothing with an open gate
\* is suggested, and what is already staked is not asked for.
SuggestAndEnter ==
    /\ entries < MaxEntries
    /\ \E S \in Tickets, worst \in Edges, kelly \in 1..(PerPosition + 1) :
         LET stake == Stake(kelly, worst, 0, 0)
         IN  /\ Legal(S) /\ IsFitted(S) /\ worst >= MinEdge
             /\ stake > 0 /\ Enter("suggested", S, stake)
    /\ UNCHANGED <<pricingVars, qualified>>

EntriesNext == \/ PricingNext /\ UNCHANGED deskVars
               \/ ShowBoard \/ PriceAndEnter \/ SuggestAndEnter

EntriesSpec == EntriesInit /\ [][EntriesNext]_entriesVars

-----------------------------------------------------------------------------
EntriesTypeOK ==
    /\ PricingTypeOK
    /\ qualified \subseteq Quote
    /\ onGame \in [Advice -> [GameOnBoard -> 0..(MaxEntries * PerPosition)]]
    /\ today \in [Advice -> 0..(MaxEntries * PerPosition)]
    /\ entries \in 0..MaxEntries

\* decide_candidate asks every leg to clear the two-leg power play's
\* break-even: enough for each ticket of the table, whatever its size, to be
\* worth its stake if the legs are independent.
QualifiedLegsBreakEven ==
    \A S \in SUBSET qualified, type \in {"power", "flex"} :
        <<type, Cardinality(S)>> \in DOMAIN Payouts =>
            GrossReturn(S, type) >= 100 * Grid^Cardinality(S)

\* "Caps are applied as remaining headroom" (sizing.py): entries priced one by
\* one never leave more on a game, or on a day, than the policy allows.
PricedEntriesStayWithinThePolicy ==
    /\ \A g \in GameOnBoard : onGame["priced"][g] <= PerGame
    /\ today["priced"] <= PerDay

\* The same of everything the console advised: "correlated positions on the
\* same game compete for one budget".
AdviceStaysWithinThePolicy ==
    \A g \in GameOnBoard : StakedOn(g) <= PerGame
=============================================================================
