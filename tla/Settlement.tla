------------------------------ MODULE Settlement ------------------------------
(***************************************************************************)
(* From a final score to a graded slip: ingestion/espn.py, which copies    *)
(* the feed's games and box scores, learning_loop/settlement.py and        *)
(* unsupported_settlement.py, which grade the paper episodes of final      *)
(* games, and learning_loop/pick_settlement.py, which grades the owner's   *)
(* slips from those outcomes. The daily settlement unit runs them in a     *)
(* fixed order as separate processes; a human may run any of them at the   *)
(* same moment. A statement reads what is committed when it runs and a     *)
(* written row is locked until its transaction ends.                       *)
(*                                                                         *)
(* A market is one statistic of one player in one game. Episodes are       *)
(* numbered in the order of their forecast_timestamp, and that number is   *)
(* the only clock. The closing line and the scores of an outcome, stakes   *)
(* and payout tables are left out: nothing below reads them.               *)
(***************************************************************************)
EXTENDS Naturals, Sequences, FiniteSets

CONSTANTS
    Game, Date, Market, Leg,
    DateOf,      \* the scoreboard a game is on
    GameOf,      \* the game of a market
    PlayerProp,  \* its player and prop type, which other games share
    Supported,   \* markets STAT_COLUMNS can score
    Line, Side,  \* what an episode of the market forecasts
    LegMarket, LegLine, LegSide, LegSlip, \* what the owner took, on which slip
    FromBoard,   \* legs built from a projection, not typed
    Known,       \* legs whose name is that of exactly one player
    Stat,        \* values of a statistic
    Benched,     \* a box-score row with zero minutes
    Absent,      \* no box-score row
    Lookback, Lookahead, \* the window of _matching_outcome, in forecasts
    PageLimit,   \* episodes one settle-outcomes selects
    VoidLimit,   \* episodes one void-unsupported selects
    Unit,        \* wnba-settlement.service
    Program,     \* the commands of it that are modelled
    Human,       \* processes of the command line
    MaxEpisodes, \* bound: forecasts written
    Board,       \* bound: the markets the n-th forecast may be of
    Rows,        \* bound: the rows the feed may first show for a market
    MaxCorrections, \* bound: corrections of the feed
    MaxMishaps,  \* bound: processes that are killed
    MaxTyped,    \* bound: commands the humans type
    NoEpisode

Command == {"void", "settle", "picks"}
Slip == {LegSlip[l] : l \in Leg}
Entry == Stat \union {Benched, Absent}

ASSUME SettlementAssumption ==
    /\ DateOf \in [Game -> Date] /\ GameOf \in [Market -> Game]
    /\ DOMAIN PlayerProp = Market /\ Supported \subseteq Market
    /\ Line \in [Market -> Nat] /\ Side \in [Market -> {"over", "under"}]
    /\ LegMarket \in [Leg -> Market] /\ LegLine \in [Leg -> Nat]
    /\ LegSide \in [Leg -> {"over", "under"}] /\ LegSlip \in [Leg -> Nat]
    /\ FromBoard \subseteq Leg /\ Known \subseteq Leg
    /\ IsFiniteSet(Leg) /\ Stat \subseteq Nat
    /\ Benched \notin Nat /\ Absent \notin Nat /\ Benched # Absent
    /\ Lookback \in Nat /\ Lookahead \in Nat
    /\ PageLimit \in Nat \ {0} /\ VoidLimit \in Nat \ {0}
    /\ Unit \notin Human /\ Program \in Seq(Command) /\ Program # <<>>
    /\ Board \in [1 .. MaxEpisodes -> SUBSET Market]
    /\ Rows \in [Market -> SUBSET (Stat \union {Benched, Absent})]
    /\ MaxEpisodes \in Nat /\ MaxCorrections \in Nat
    /\ MaxMishaps \in Nat /\ MaxTyped \in Nat
    /\ NoEpisode \notin Nat

Proc == Human \union {Unit}
Episode == 1 .. MaxEpisodes

VARIABLES
    feed,     \* ESPN: what a game is, and the row of each market in its summary
    games,    \* games.status
    lines,    \* player_game_lines per market, superseded rows first
    ingested, \* ingested_dates
    episodes, \* decision_episodes: the market of each
    outcomes, \* episode_outcomes
    legs,     \* pick_legs
    slips,    \* pick_slips
    job,      \* the command each process is running
    unit,     \* where the unit is in Program; 0 when it is not running
    mishaps, typed, corrections

vars == <<feed, games, lines, ingested, episodes, outcomes, legs, slips,
          job, unit, mishaps, typed, corrections>>

World == <<feed, games, lines, ingested, episodes, corrections>>
Tables == <<outcomes, legs, slips>>
Budgets == <<mishaps, typed>>

-----------------------------------------------------------------------------
(***************************************************************************)
(* Rows.                                                                   *)
(***************************************************************************)
Grade == {"void", "push", "win", "loss"}
OutcomeRow == [grade : Grade \union {"none"}, actual : Stat \union {0}]
NoOutcome == [grade |-> "none", actual |-> 0]
Voided == [grade |-> "void", actual |-> 0]

LegRow == [projection : Episode \union {NoEpisode},
           result : Grade \union {"pending"}, episode : Episode \union {NoEpisode}]
Tally == [whole : BOOLEAN, settled : Nat, won : Nat]
SlipRow == [status : {"none", "confirmed", "settled"}, made : 0 .. MaxEpisodes,
            settled : Nat, won : Nat]

Job == [name : Command \union {"idle"},
        todo : SUBSET Episode,                \* selected and not looked at
        graded : [Episode -> OutcomeRow],     \* inserted, not committed
        pending : SUBSET Leg,                 \* selected and not looked at
        leg : SUBSET Leg,                     \* the one being updated
        picked : SUBSET Leg,                  \* updated, not committed
        legs : [Leg -> LegRow],               \* ... to these rows
        slip : SUBSET Slip,                   \* the one being updated
        closed : SUBSET Slip,                 \* updated, not committed
        slips : [Slip -> Tally]]              \* ... to these counts
Nothing == [e \in Episode |-> NoOutcome]

Written == DOMAIN episodes
Settled(e) == outcomes[e].grade # "none"
LegsOf(s) == {l \in Leg : LegSlip[l] = s}

\* resolve_outcome.
Beats(side, actual, line) == IF side = "over" THEN actual > line ELSE actual < line
Resolve(side, entry, line) ==
    IF entry \in {Absent, Benched} THEN "void"
    ELSE IF entry = line THEN "push"
    ELSE IF Beats(side, entry, line) THEN "win" ELSE "loss"

NewLeg == [projection |-> NoEpisode, result |-> "pending", episode |-> NoEpisode]
Idle == [name |-> "idle", todo |-> {}, graded |-> Nothing, pending |-> {},
         leg |-> {}, picked |-> {}, legs |-> [l \in Leg |-> NewLeg],
         slip |-> {}, closed |-> {},
         slips |-> [s \in Slip |-> [whole |-> FALSE, settled |-> 0, won |-> 0]]]

Init == /\ feed = [status |-> [g \in Game |-> "scheduled"], box |-> [m \in Market |-> Absent]]
        /\ games = [g \in Game |-> "scheduled"]
        /\ lines = [m \in Market |-> <<>>]
        /\ ingested = {}
        /\ episodes = <<>>
        /\ outcomes = Nothing
        /\ legs = Idle.legs
        /\ slips = [s \in Slip |-> [status |-> "none", made |-> 0, settled |-> 0, won |-> 0]]
        /\ job = [p \in Proc |-> Idle]
        /\ unit = 0
        /\ mishaps = 0 /\ typed = 0 /\ corrections = 0

-----------------------------------------------------------------------------
(***************************************************************************)
(* The feed, and the two jobs that copy it: stats snapshot-odds, every     *)
(* five minutes, and stats ingest-date, the morning after.                 *)
(***************************************************************************)
MarketsOf(g) == {m \in Market : GameOf[m] = g}
GamesOn(d) == {g \in Game : DateOf[g] = d}

\* A game ends and its summary shows who played.
GameEnds(g) ==
    /\ feed.status[g] = "scheduled"
    /\ \E played \in [MarketsOf(g) -> Entry] :
         /\ \A m \in MarketsOf(g) : played[m] \in Rows[m]
         /\ feed' = [status |-> [feed.status EXCEPT ![g] = "final"],
                  box |-> [m \in Market |-> IF m \in MarketsOf(g) THEN played[m] ELSE feed.box[m]]]
    /\ UNCHANGED <<games, lines, ingested, episodes, corrections, Tables, job, unit, Budgets>>

FeedCorrects(m) ==
    /\ feed.status[GameOf[m]] = "final" /\ feed.box[m] \in Stat
    /\ corrections < MaxCorrections
    /\ corrections' = corrections + 1
    /\ \E s \in Stat \ {feed.box[m]} : feed' = [feed EXCEPT !.box[m] = s]
    /\ UNCHANGED <<games, lines, ingested, episodes, Tables, job, unit, Budgets>>

\* _register_game copies the status of every game on the scoreboard.
SnapshotOdds(d) ==
    /\ games' = [g \in Game |-> IF g \in GamesOn(d) THEN feed.status[g] ELSE games[g]]
    /\ UNCHANGED <<feed, lines, ingested, episodes, corrections, Tables, job, unit, Budgets>>

Current(m) == IF lines[m] = <<>> THEN Absent ELSE lines[m][Len(lines[m])]
\* _write_line: an unchanged row is left alone, another one supersedes it, and
\* a player who is not in the summary has none.
Corrected(m) == IF feed.box[m] \in {Absent, Current(m)} THEN lines[m]
                ELSE Append(lines[m], feed.box[m])

\* Mutation: the date is done once the job has looked at it.
DoneWhenSeen(d) == TRUE
\* An empty scoreboard is not a finished day.
DateIsSettled(d) == GamesOn(d) # {} /\ \A g \in GamesOn(d) : feed.status[g] = "final"

\* ingest_espn_date, one transaction: the final games of the date, their rows,
\* and the date itself once all its games are final. One summary that cannot be
\* stored rolls all of it back, which is no step.
IngestDate(d, force) ==
    LET final == {g \in GamesOn(d) : feed.status[g] = "final"} IN
    /\ d \notin ingested \/ force
    /\ games' = [g \in Game |-> IF g \in final THEN "final" ELSE games[g]]
    /\ lines' = [m \in Market |-> IF GameOf[m] \in final THEN Corrected(m) ELSE lines[m]]
    /\ ingested' = ingested \union (IF DateIsSettled(d) THEN {d} ELSE {})
    /\ UNCHANGED <<feed, episodes, corrections, Tables, job, unit, Budgets>>

-----------------------------------------------------------------------------
(***************************************************************************)
(* Forecast runs, and the owner.                                           *)
(***************************************************************************)
\* run_baseline: one episode per forecast of an unlocked quote.
Forecast(m) ==
    /\ feed.status[GameOf[m]] = "scheduled"
    /\ Len(episodes) < MaxEpisodes /\ m \in Board[Len(episodes) + 1]
    /\ episodes' = Append(episodes, m)
    /\ UNCHANGED <<feed, games, lines, ingested, corrections, Tables, job, unit, Budgets>>

\* create_pick: a leg comes from a projection of the board, or was typed; its
\* player's name is resolved, or not. The owner takes it before the game ends.
Offers(l) == IF l \in FromBoard THEN {e \in Written : episodes[e] = LegMarket[l]}
                               ELSE {NoEpisode}

CreatePick(s) ==
    /\ slips[s].status = "none"
    /\ \A l \in LegsOf(s) : feed.status[GameOf[LegMarket[l]]] = "scheduled"
    /\ \E from \in [LegsOf(s) -> Written \union {NoEpisode}] :
         /\ \A l \in LegsOf(s) : from[l] \in Offers(l)
         /\ legs' = [l \in Leg |-> IF l \in LegsOf(s) THEN [NewLeg EXCEPT !.projection = from[l]]
                                                      ELSE legs[l]]
    /\ slips' = [slips EXCEPT ![s].status = "confirmed", ![s].made = Len(episodes)]
    /\ UNCHANGED <<World, outcomes, job, unit, Budgets>>

-----------------------------------------------------------------------------
(***************************************************************************)
(* Commands begin.                                                         *)
(***************************************************************************)
\* The first n of a set of episodes, by forecast_timestamp.
FirstOf(es, n) == {e \in es : Cardinality({f \in es : f < e}) < n}

Unsettled == {e \in Written : games[GameOf[episodes[e]]] = "final" /\ ~Settled(e)}
Unsupported == {e \in Written : episodes[e] \notin Supported}

\* Mutation: the NOT of the SELECT is lost.
NotLost == FirstOf(Unsettled \ Unsupported, VoidLimit)
\* void_unsupported_episodes selects only what cannot be scored.
VoidPage == FirstOf(Unsettled \intersect Unsupported, VoidLimit)
\* settle_paper_episodes takes the oldest ones and passes over, without an
\* outcome, those of them it cannot score.
SettlePage == FirstOf(Unsettled, PageLimit) \ Unsupported

\* Mutation: only slips none of whose legs has been graded.
UntouchedLegs == {l \in Leg : /\ legs[l].result = "pending" /\ slips[LegSlip[l]].settled = 0
                              /\ slips[LegSlip[l]].status = "confirmed"}
OpenLegs == {l \in Leg : legs[l].result = "pending" /\ slips[LegSlip[l]].status = "confirmed"}

Begin(p, name) ==
    job' = [job EXCEPT ![p] =
              [Idle EXCEPT !.name = name,
                           !.todo = CASE name = "void" -> VoidPage
                                      [] name = "settle" -> SettlePage
                                      [] OTHER -> {},
                           !.pending = IF name = "picks" THEN OpenLegs ELSE {}]]

\* A day passes between two runs of the unit: no command that was typed before
\* or during one is still running at the next.
UnitStarts ==
    /\ unit = 0 /\ \A h \in Human : job[h].name = "idle"
    /\ unit' = 1
    /\ UNCHANGED <<World, Tables, job, Budgets>>

UnitGoesOn ==
    /\ unit # 0 /\ job[Unit].name = "idle"
    /\ Begin(Unit, Program[unit])
    /\ UNCHANGED <<World, Tables, unit, Budgets>>

HumanTypes(h, name) ==
    /\ job[h].name = "idle"
    /\ typed < MaxTyped
    /\ typed' = typed + 1
    /\ Begin(h, name)
    /\ UNCHANGED <<World, Tables, unit, mishaps>>

\* A command that fails ends the unit's run; one that ends lets it go on.
Fails(p) == /\ job' = [job EXCEPT ![p] = Idle]
            /\ unit' = IF p = Unit THEN 0 ELSE unit
            /\ UNCHANGED <<World, Tables>>

Die(p) ==
    /\ job[p].name # "idle"
    /\ mishaps < MaxMishaps
    /\ mishaps' = mishaps + 1
    /\ Fails(p)
    /\ UNCHANGED typed

-----------------------------------------------------------------------------
(***************************************************************************)
(* Grading episodes.                                                       *)
(***************************************************************************)
NextEpisode(p) == {e \in job[p].todo : \A f \in job[p].todo : e <= f}
Inserting(q, e) == job[q].graded[e] # NoOutcome
\* The primary key of episode_outcomes.
Taken(e) == Settled(e)

OutcomeOf(e) ==
    LET m == episodes[e]
        entry == Current(m)
    IN  IF m \notin Supported THEN Voided
        ELSE [grade |-> Resolve(Side[m], entry, Line[m]),
              actual |-> IF entry \in Stat THEN entry ELSE 0]

\* The next episode of the page: its row is read now, and inserted unless
\* another transaction is about to, which is waited for.
GradeEpisode(p, e) ==
    /\ e \in NextEpisode(p)
    /\ \A q \in Proc \ {p} : ~Inserting(q, e)
    /\ ~Taken(e)
    /\ job' = [job EXCEPT ![p].todo = @ \ {e}, ![p].graded[e] = OutcomeOf(e)]
    /\ UNCHANGED <<World, Tables, unit, Budgets>>

\* Somebody else has settled it: void-unsupported passes over it (ON CONFLICT
\* DO NOTHING).
SkipSettled(p, e) ==
    /\ e \in NextEpisode(p) /\ job[p].name = "void"
    /\ Taken(e)
    /\ job' = [job EXCEPT ![p].todo = @ \ {e}]
    /\ UNCHANGED <<World, Tables, unit, Budgets>>

\* ... and settle-outcomes raises a UniqueViolation and loses its page.
Collides(p, e) ==
    /\ e \in NextEpisode(p) /\ job[p].name = "settle"
    /\ Taken(e)
    /\ Fails(p)
    /\ UNCHANGED Budgets

-----------------------------------------------------------------------------
(***************************************************************************)
(* Grading slips.                                                          *)
(***************************************************************************)
\* _matching_outcome: the projection's own episode if it has settled, else the
\* first settled episode of the player and prop near the slip's creation.
Near(l) == {e \in Written : /\ PlayerProp[episodes[e]] = PlayerProp[LegMarket[l]]
                            /\ slips[LegSlip[l]].made <= e + Lookback
                            /\ e <= slips[LegSlip[l]].made + Lookahead}
Match(l) ==
    LET named == {e \in {legs[l].projection} \ {NoEpisode} : Settled(e)}
        near == {e \in Near(l) : Settled(e)}
    IN  IF named # {} THEN named
        ELSE IF l \in Known THEN FirstOf(near, 1) ELSE {}

\* The leg's own line and side decide, on the statistic of that episode.
LegResult(l, e) == IF outcomes[e].grade = "void" THEN "void"
                   ELSE Resolve(LegSide[l], outcomes[e].actual, LegLine[l])

\* ORDER BY s.created_at.
NextLegs(p) == {l \in job[p].pending : \A k \in job[p].pending :
                  slips[LegSlip[l]].made <= slips[LegSlip[k]].made}

\* The statements read first and then wait for the row they update.
SkipLeg(p, l) ==
    /\ job[p].leg = {} /\ l \in NextLegs(p) /\ Match(l) = {}
    /\ job' = [job EXCEPT ![p].pending = @ \ {l}]
    /\ UNCHANGED <<World, Tables, unit, Budgets>>

MatchLeg(p, l) ==
    /\ job[p].leg = {} /\ l \in NextLegs(p)
    /\ \E e \in Match(l) :
         job' = [job EXCEPT ![p].pending = @ \ {l}, ![p].leg = {l},
                            ![p].legs[l] = [legs[l] EXCEPT !.result = LegResult(l, e),
                                                           !.episode = e]]
    /\ UNCHANGED <<World, Tables, unit, Budgets>>

\* UPDATE by id, whatever has become of the row since it was selected.
GradeLeg(p) ==
    /\ job[p].leg # {}
    /\ \A q \in Proc \ {p} : job[q].picked \intersect job[p].leg = {}
    /\ job' = [job EXCEPT ![p].leg = {}, ![p].picked = @ \union job[p].leg]
    /\ UNCHANGED <<World, Tables, unit, Budgets>>

\* A transaction sees what is committed under its own writes.
Sees(p, l) == IF l \in job[p].picked THEN job[p].legs[l] ELSE legs[l]

\* Mutation: without the early 'continue' a slip closes with any leg.
AnyGraded(s, settled) == settled # {}
AllGraded(s, settled) == settled = LegsOf(s)

Summary(p, s) ==
    LET settled == {l \in LegsOf(s) : Sees(p, l).result # "pending"}
        won == {l \in LegsOf(s) : Sees(p, l).result = "win"}
    IN  [whole |-> AllGraded(s, settled),
         settled |-> Cardinality(settled), won |-> Cardinality(won)]

Touched(p) == {LegSlip[l] : l \in job[p].picked} \ job[p].closed

\* The slips it touched, in the order of their ids.
SumSlip(p) ==
    /\ job[p].pending = {} /\ job[p].leg = {} /\ job[p].slip = {}
    /\ \E s \in Touched(p) :
         /\ \A t \in Touched(p) : s <= t
         /\ job' = [job EXCEPT ![p].slip = {s}, ![p].slips[s] = Summary(p, s)]
    /\ UNCHANGED <<World, Tables, unit, Budgets>>

CloseSlip(p) ==
    /\ job[p].slip # {}
    /\ \A q \in Proc \ {p} : job[q].closed \intersect job[p].slip = {}
    /\ job' = [job EXCEPT ![p].slip = {}, ![p].closed = @ \union job[p].slip]
    /\ UNCHANGED <<World, Tables, unit, Budgets>>

\* Two transactions that wait for each other's rows: one is rolled back.
Waits(p, q) == \/ job[p].leg \intersect job[q].picked # {}
               \/ job[p].slip \intersect job[q].closed # {}
DeadlockVictim(p) ==
    /\ \E q \in Proc \ {p} : Waits(p, q) /\ Waits(q, p)
    /\ Fails(p)
    /\ UNCHANGED Budgets

-----------------------------------------------------------------------------
\* A partial slip keeps its status.
Updated(p, s) ==
    LET tally == job[p].slips[s]
    IN  [slips[s] EXCEPT !.status = IF tally.whole THEN "settled" ELSE @,
                         !.settled = tally.settled, !.won = tally.won]

Commit(p) ==
    /\ job[p].name # "idle"
    /\ job[p].todo = {} /\ job[p].pending = {} /\ job[p].leg = {} /\ Touched(p) = {}
    /\ outcomes' = [e \in Episode |-> IF Inserting(p, e) THEN job[p].graded[e] ELSE outcomes[e]]
    /\ legs' = [l \in Leg |-> Sees(p, l)]
    /\ slips' = [s \in Slip |-> IF s \in job[p].closed THEN Updated(p, s) ELSE slips[s]]
    /\ job' = [job EXCEPT ![p] = Idle]
    /\ unit' = IF p # Unit THEN unit ELSE IF unit = Len(Program) THEN 0 ELSE unit + 1
    /\ UNCHANGED <<World, Budgets>>

Work(p) == \/ \E e \in Episode : GradeEpisode(p, e) \/ SkipSettled(p, e) \/ Collides(p, e)
           \/ \E l \in Leg : SkipLeg(p, l) \/ MatchLeg(p, l)
           \/ GradeLeg(p) \/ SumSlip(p) \/ CloseSlip(p) \/ DeadlockVictim(p) \/ Commit(p)

Next == \/ \E g \in Game : GameEnds(g)
        \/ \E m \in Market : FeedCorrects(m) \/ Forecast(m)
        \/ \E d \in Date : SnapshotOdds(d)
        \/ \E d \in Date, force \in BOOLEAN : IngestDate(d, force)
        \/ \E s \in Slip : CreatePick(s)
        \/ UnitStarts \/ UnitGoesOn
        \/ \E h \in Human, name \in Command : HumanTypes(h, name)
        \/ \E p \in Proc : Work(p) \/ Die(p)

Spec == Init /\ [][Next]_vars

\* The settlement timer fires every day (OnCalendar, Persistent), a command
\* that is running goes on, and a released row goes to who waits for it;
\* nothing makes the feed or the ingestion succeed.
FairSpec == /\ Spec
            /\ WF_vars(UnitStarts \/ UnitGoesOn)
            /\ \A p \in Proc : WF_vars(Work(p)) /\ SF_vars(GradeLeg(p))

-----------------------------------------------------------------------------
(***************************************************************************)
(* Properties.                                                             *)
(***************************************************************************)
\* The tables and the transactions hold values of their columns.
TypeOK ==
    /\ feed \in [status : [Game -> {"scheduled", "final"}], box : [Market -> Entry]]
    /\ games \in [Game -> {"scheduled", "final"}]
    /\ lines \in [Market -> Seq(Stat \union {Benched})]
    /\ ingested \subseteq Date
    /\ episodes \in Seq(Market) /\ Len(episodes) <= MaxEpisodes
    /\ outcomes \in [Episode -> OutcomeRow]
    /\ legs \in [Leg -> LegRow]
    /\ slips \in [Slip -> SlipRow]
    /\ job \in [Proc -> Job]
    /\ unit \in 0 .. Len(Program)
    /\ mishaps \in 0 .. MaxMishaps /\ typed \in 0 .. MaxTyped
    /\ corrections \in 0 .. MaxCorrections

\* A grade is final: no second command, correction of the feed or repeated
\* run changes an outcome, however the transactions overlap.
OutcomesStand ==
    [][\A e \in Episode : Settled(e) => outcomes'[e] = outcomes[e]]_vars

\* A date enters the ledger, which ends its ingestion, only when every game of
\* it is final in the tables and every player of its box score has a row.
LedgerIsComplete ==
    \A d \in ingested : \A g \in GamesOn(d) :
        /\ games[g] = "final"
        /\ \A m \in MarketsOf(g) : feed.box[m] # Absent => lines[m] # <<>>

\* A graded leg cites a settled episode of its player and prop, and is void
\* exactly when that episode is.
LegsCiteOutcomes ==
    \A l \in Leg : legs[l].result # "pending" =>
        LET e == legs[l].episode IN
        /\ e \in Written /\ Settled(e)
        /\ PlayerProp[episodes[e]] = PlayerProp[LegMarket[l]]
        /\ legs[l].result = "void" <=> outcomes[e].grade = "void"

\* A slip is settled exactly when its last leg is, with the counts of its
\* legs as they stand, whichever transaction graded which of them.
SlipsCloseWhole ==
    \A s \in Slip : slips[s].status # "none" =>
        LET graded == {l \in LegsOf(s) : legs[l].result # "pending"} IN
        /\ slips[s].status = "settled" <=> graded = LegsOf(s)
        /\ slips[s].settled = Cardinality(graded)
        /\ slips[s].won = Cardinality({l \in graded : legs[l].result = "win"})

\* Every episode of a final game is graded or voided in the end: the page
\* limit starves nothing and a failed unit is made up for.
FinalIsSettled == Unsettled # {} ~> Unsettled = {}

\* A leg taken from the board is graded once the episode of its projection is.
Ungraded == {l \in Leg : /\ legs[l].projection # NoEpisode /\ legs[l].result = "pending"
                         /\ Settled(legs[l].projection)}
BoardLegIsGraded == Ungraded # {} ~> Ungraded = {}

\* "A player who did not appear (no box-score row, or zero minutes) voids"
\* (settlement.py:76): a scoreable market is voided only for one who did not.
VoidsAreAbsences ==
    \A e \in Written :
        outcomes[e].grade = "void" /\ episodes[e] \in Supported
            => feed.box[episodes[e]] \in {Absent, Benched}

\* "that projection names one game unambiguously -- no window, no heuristic"
\* (pick_settlement.py:135): a leg of the board is graded on its own game.
BoardLegKeepsItsGame ==
    \A l \in Leg : legs[l].projection # NoEpisode /\ legs[l].result # "pending"
        => GameOf[episodes[legs[l].episode]] = GameOf[LegMarket[l]]
=============================================================================
